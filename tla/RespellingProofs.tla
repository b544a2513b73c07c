-------------------------- MODULE RespellingProofs --------------------------
(***************************************************************************)
(* What _normalize makes of values of any length, however often they are   *)
(* spelled anew (app/services/import_pipeline.py).  A value is stripped at *)
(* a first and a last position; everything about Strip and RStrip follows  *)
(* from where those are, which is unique.                                  *)
(***************************************************************************)
EXTENDS Respelling, SequenceTheorems, WellFoundedInduction, TLAPS

Text == Seq(Chars)

-----------------------------------------------------------------------------
(* Least and greatest elements.                                            *)

LEMMA LeastExists ==
    ASSUME NEW S \in SUBSET Nat, S # {}
    PROVE  \E n \in S : \A m \in S : n <= m
  <1> DEFINE R == OpToRel(<, Nat)
  <1>1. IsWellFoundedOn(R, Nat)
        BY NatLessThanWellFounded
  <1>2. \A x, y \in Nat : y < x => <<y, x>> \in R
        BY DEF OpToRel
  <1> HIDE DEF R
  <1>3. PICK x \in S : \A y \in S : ~ (<<y, x>> \in R)
        BY <1>1, WFMin
  <1>4. ASSUME NEW y \in S PROVE x <= y
    <2>1. x \in Nat /\ y \in Nat
          OBVIOUS
    <2>2. ~ (y < x)
          BY <1>2, <1>3, <2>1
    <2> QED BY <2>1, <2>2
  <1> QED BY <1>4

LEMMA MinIs ==
    ASSUME NEW S \in SUBSET Nat, NEW n \in S, \A m \in S : n <= m
    PROVE  Min(S) = n
  <1>1. Min(S) \in S /\ \A m \in S : Min(S) <= m
        BY DEF Min
  <1>2. Min(S) \in Nat /\ n \in Nat /\ Min(S) <= n /\ n <= Min(S)
        BY <1>1
  <1> QED BY <1>2

LEMMA MaxIs ==
    ASSUME NEW S \in SUBSET Nat, NEW n \in S, \A m \in S : m <= n
    PROVE  Max(S) = n
  <1>1. \E x \in S : \A m \in S : x >= m
        OBVIOUS
  <1>2. Max(S) \in S /\ \A m \in S : Max(S) >= m
        BY <1>1 DEF Max
  <1>3. Max(S) \in Nat /\ n \in Nat /\ Max(S) <= n /\ n <= Max(S)
        BY <1>2
  <1> QED BY <1>3

LEMMA GreatestIsMax ==
    ASSUME NEW n \in Nat, NEW S \in SUBSET (0 .. n), S # {}
    PROVE  Max(S) \in S /\ \A m \in S : m <= Max(S)
  <1> DEFINE U == {u \in Nat : \A m \in S : m <= u}
  <1>1. n \in U
        OBVIOUS
  <1>2. PICK u \in U : \A w \in U : u <= w
        BY <1>1, LeastExists
  <1>3. u \in S
    <2> SUFFICES ASSUME u \notin S PROVE FALSE
        OBVIOUS
    <2>1. \A m \in S : m <= u /\ m # u
          OBVIOUS
    <2>2. \A m \in S : m <= u - 1 /\ 0 <= u - 1
          BY <2>1
    <2>4. u - 1 \in Nat
      <3>1. PICK m \in S : TRUE
            OBVIOUS
      <3>2. u \in Nat
            OBVIOUS
      <3> QED BY <2>2, <3>1, <3>2
    <2>3. u - 1 \in U
          BY <2>2, <2>4
    <2> QED BY <1>2, <2>3
  <1>4. S \in SUBSET Nat
        OBVIOUS
  <1>6. \A m \in S : m <= u
        BY <1>2
  <1>5. Max(S) = u
        BY <1>3, <1>4, <1>6, MaxIs
  <1> QED BY <1>3, <1>6, <1>5

-----------------------------------------------------------------------------
(* Parts of a text.                                                        *)

LEMMA PartIs ==
    ASSUME NEW v \in Text, NEW i \in 1 .. Len(v) + 1, NEW j \in i - 1 .. Len(v)
    PROVE  /\ SubSeq(v, i, j) \in Text
           /\ Len(SubSeq(v, i, j)) = j - i + 1
           /\ \A k \in 1 .. j - i + 1 : SubSeq(v, i, j)[k] = v[i + k - 1]
  <1>1. Len(v) \in Nat /\ \A k \in 1 .. Len(v) : v[k] \in Chars
        BY LenProperties, ElementOfSeq DEF Text
  <1>2. i \in Int /\ j \in Int /\ \A k \in i .. j : v[k] \in Chars
        BY <1>1
  <1>3. /\ SubSeq(v, i, j) \in Seq(Chars)
        /\ Len(SubSeq(v, i, j)) = IF i <= j THEN j - i + 1 ELSE 0
        /\ \A k \in 1 .. j - i + 1 : SubSeq(v, i, j)[k] = v[i + k - 1]
        BY <1>2, SubSeqProperties
  <1> QED BY <1>1, <1>3 DEF Text

LEMMA TextIs ==
    ASSUME NEW v \in Text
    PROVE  /\ Len(v) \in Nat /\ DOMAIN v = 1 .. Len(v)
           /\ \A k \in 1 .. Len(v) : v[k] \in Chars
  BY LenProperties, ElementOfSeq DEF Text

LEMMA SameText ==
    ASSUME NEW v \in Text, NEW w \in Text, Len(v) = Len(w), \A k \in 1 .. Len(v) : v[k] = w[k]
    PROVE  v = w
  BY SeqEqual DEF Text

LEMMA JoinIs ==
    ASSUME NEW v \in Text, NEW w \in Text
    PROVE  /\ v \o w \in Text
           /\ Len(v \o w) = Len(v) + Len(w)
           /\ \A k \in 1 .. Len(v) : (v \o w)[k] = v[k]
           /\ \A k \in 1 .. Len(w) : (v \o w)[Len(v) + k] = w[k]
  <1>1. Len(v) \in Nat /\ Len(w) \in Nat
        BY TextIs
  <1>2. /\ v \o w \in Text
        /\ Len(v \o w) = Len(v) + Len(w)
        /\ \A k \in 1 .. Len(v) + Len(w) : (v \o w)[k] = IF k <= Len(v) THEN v[k] ELSE w[k - Len(v)]
        BY ConcatProperties DEF Text
  <1>3. \A k \in 1 .. Len(w) : /\ Len(v) + k \in 1 .. Len(v) + Len(w)
                               /\ ~ (Len(v) + k <= Len(v)) /\ Len(v) + k - Len(v) = k
        BY <1>1
  <1>4. \A k \in 1 .. Len(v) : k \in 1 .. Len(v) + Len(w) /\ k <= Len(v)
        BY <1>1
  <1> QED BY <1>2, <1>3, <1>4

LEMMA LowerIs ==
    ASSUME NEW v \in Text
    PROVE  /\ Lower(v) \in Text
           /\ Len(Lower(v)) = Len(v)
           /\ \A k \in 1 .. Len(v) : Lower(v)[k] = IF v[k] = "A" THEN "a" ELSE v[k]
  <1>1. /\ Len(v) \in Nat /\ DOMAIN v = 1 .. Len(v)
        /\ \A k \in 1 .. Len(v) : v[k] \in Chars
        BY TextIs
  <1>2. Lower(v) \in [1 .. Len(v) -> Chars]
        BY <1>1 DEF Lower, Chars
  <1>3. Lower(v) \in Seq(Chars) /\ Len(Lower(v)) = Len(v)
        BY <1>1, <1>2
  <1> QED BY <1>1, <1>3 DEF Lower, Text

-----------------------------------------------------------------------------
(* Where a text is stripped.                                               *)

(* rstrip cuts behind position j.                                          *)
EndsAt(v, drop, j) ==
    /\ j \in 0 .. Len(v)
    /\ j # 0 => v[j] \notin drop
    /\ \A k \in j + 1 .. Len(v) : v[k] \in drop

LEMMA EndExists ==
    ASSUME NEW v \in Text, NEW drop
    PROVE  \E j \in 0 .. Len(v) : EndsAt(v, drop, j)
  <1> DEFINE S == Kept(v, drop) \cup {0}
  <1>1. Len(v) \in Nat /\ DOMAIN v = 1 .. Len(v)
        BY TextIs
  <1>2. S \in SUBSET (0 .. Len(v)) /\ S # {}
        BY <1>1 DEF Kept
  <1>3. PICK j \in S : \A m \in S : m <= j
        BY <1>1, <1>2, GreatestIsMax
  <1>4. j \in 0 .. Len(v)
        BY <1>2
  <1>5. j # 0 => v[j] \notin drop
        BY DEF Kept
  <1>6. ASSUME NEW k \in j + 1 .. Len(v) PROVE v[k] \in drop
    <2>1. k \in 1 .. Len(v) /\ ~ (k <= j)
          BY <1>1, <1>4
    <2>2. k \notin S
          BY <1>3, <2>1
    <2> QED BY <1>1, <2>1, <2>2 DEF Kept
  <1> QED BY <1>4, <1>5, <1>6 DEF EndsAt

LEMMA RStripIs ==
    ASSUME NEW v \in Text, NEW drop, NEW j, EndsAt(v, drop, j)
    PROVE  RStrip(v, drop) = SubSeq(v, 1, j)
  <1> DEFINE S == Kept(v, drop) \cup {0}
  <1>1. Len(v) \in Nat /\ DOMAIN v = 1 .. Len(v) /\ j \in 0 .. Len(v)
        BY TextIs DEF EndsAt
  <1>2. S \in SUBSET Nat
        BY <1>1 DEF Kept
  <1>3. j \in S
        BY <1>1 DEF Kept, EndsAt
  <1>4. ASSUME NEW m \in S PROVE m <= j
    <2>1. CASE m = 0
          BY <1>1, <2>1
    <2>2. CASE m # 0
      <3>1. m \in 1 .. Len(v) /\ v[m] \notin drop
            BY <1>1, <2>2 DEF Kept
      <3>2. m \notin j + 1 .. Len(v)
            BY <3>1 DEF EndsAt
      <3> QED BY <1>1, <3>1, <3>2
    <2> QED BY <2>1, <2>2
  <1>5. Max(S) = j
        BY <1>2, <1>3, <1>4, MaxIs
  <1> QED BY <1>5 DEF RStrip

(* strip cuts in front of position i and behind position j.                *)
CutAt(v, i, j) ==
    /\ i \in 1 .. Len(v) + 1 /\ j \in i - 1 .. Len(v)
    /\ i <= j => v[i] # Blank /\ v[j] # Blank
    /\ \A k \in 1 .. i - 1 : v[k] = Blank
    /\ \A k \in j + 1 .. Len(v) : v[k] = Blank

LEMMA CutExists ==
    ASSUME NEW v \in Text
    PROVE  \E i, j : CutAt(v, i, j)
  <1>1. Len(v) \in Nat /\ DOMAIN v = 1 .. Len(v)
        BY TextIs
  <1>2. PICK j \in 0 .. Len(v) : EndsAt(v, {Blank}, j)
        BY EndExists
  <1>3. CASE j = 0
    <2>1. CutAt(v, 1, 0)
          BY <1>1, <1>2, <1>3 DEF EndsAt, CutAt
    <2> QED BY <2>1
  <1>4. CASE j # 0
    <2> DEFINE S == Kept(v, {Blank})
    <2>1. S \in SUBSET Nat /\ j \in S
          BY <1>1, <1>2, <1>4 DEF EndsAt, Kept
    <2>2. PICK i \in S : \A m \in S : i <= m
          BY <2>1, LeastExists
    <2>3. i \in 1 .. Len(v) /\ v[i] # Blank /\ i <= j
          BY <1>1, <2>1, <2>2 DEF Kept
    <2>4. ASSUME NEW k \in 1 .. i - 1 PROVE v[k] = Blank
      <3>1. k \in 1 .. Len(v) /\ ~ (i <= k)
            BY <1>1, <2>3
      <3> QED BY <1>1, <2>2, <3>1 DEF Kept
    <2>5. CutAt(v, i, j)
          BY <1>1, <1>2, <1>4, <2>3, <2>4 DEF EndsAt, CutAt
    <2> QED BY <2>5
  <1> QED BY <1>3, <1>4

LEMMA StripIs ==
    ASSUME NEW v \in Text, NEW i, NEW j, CutAt(v, i, j)
    PROVE  Strip(v) = SubSeq(v, i, j)
  <1>1. /\ Len(v) \in Nat /\ DOMAIN v = 1 .. Len(v)
        /\ i \in 1 .. Len(v) + 1 /\ j \in i - 1 .. Len(v) /\ j \in Nat /\ i \in Nat
        BY TextIs DEF CutAt
  <1>2. CASE i <= j
    <2>1. EndsAt(v, {Blank}, j)
          BY <1>1, <1>2 DEF CutAt, EndsAt
    <2> DEFINE w == SubSeq(v, 1, j)
    <2>2. RStrip(v, {Blank}) = w
          BY <2>1, RStripIs
    <2>3. w \in Text /\ Len(w) = j /\ \A k \in 1 .. j : w[k] = v[k]
      <3>1. 1 \in 1 .. Len(v) + 1 /\ j \in 1 - 1 .. Len(v) /\ j - 1 + 1 = j
            BY <1>1
      <3>2. \A k \in 1 .. j : 1 + k - 1 = k
            BY <1>1
      <3> QED BY <3>1, <3>2, PartIs
    <2> HIDE DEF w
    <2>4. DOMAIN w = 1 .. j
          BY <2>3, TextIs
    <2> DEFINE S == Kept(w, {Blank}) \cup {Len(w) + 1}
    <2>5. S \in SUBSET Nat
          BY <1>1, <2>3, <2>4 DEF Kept
    <2>6. i \in S
          BY <1>1, <1>2, <2>3, <2>4 DEF Kept, CutAt
    <2>7. ASSUME NEW m \in S PROVE i <= m
      <3>1. CASE m = Len(w) + 1
            BY <1>1, <1>2, <2>3, <3>1
      <3>2. CASE m # Len(w) + 1
        <4>1. m \in 1 .. j /\ v[m] # Blank
              BY <2>3, <2>4, <3>2 DEF Kept
        <4>2. m \notin 1 .. i - 1
              BY <4>1 DEF CutAt
        <4> QED BY <1>1, <4>1, <4>2
      <3> QED BY <3>1, <3>2
    <2>8. Min(S) = i
          BY <2>5, <2>6, <2>7, MinIs
    <2>9. Strip(v) = SubSeq(w, i, j)
          BY <2>2, <2>3, <2>8 DEF Strip
    <2>10. /\ SubSeq(w, i, j) \in Text /\ Len(SubSeq(w, i, j)) = j - i + 1
           /\ \A k \in 1 .. j - i + 1 : SubSeq(w, i, j)[k] = w[i + k - 1]
      <3>1. i \in 1 .. Len(w) + 1 /\ j \in i - 1 .. Len(w)
            BY <1>1, <1>2, <2>3
      <3> QED BY <2>3, <3>1, PartIs
    <2>11. /\ SubSeq(v, i, j) \in Text /\ Len(SubSeq(v, i, j)) = j - i + 1
           /\ \A k \in 1 .. j - i + 1 : SubSeq(v, i, j)[k] = v[i + k - 1]
          BY <1>1, PartIs
    <2>12. \A k \in 1 .. j - i + 1 : i + k - 1 \in 1 .. j
          BY <1>1
    <2>13. \A k \in 1 .. j - i + 1 : SubSeq(w, i, j)[k] = SubSeq(v, i, j)[k]
          BY <2>3, <2>10, <2>11, <2>12
    <2>14. SubSeq(w, i, j) = SubSeq(v, i, j)
      <3> DEFINE x == SubSeq(w, i, j)
                 y == SubSeq(v, i, j)
      <3>1. x \in Text /\ y \in Text /\ Len(x) = Len(y) /\ \A k \in 1 .. Len(x) : x[k] = y[k]
            BY <2>10, <2>11, <2>13
      <3> HIDE DEF x, y
      <3>2. x = y
            BY <3>1, SameText
      <3> QED BY <3>2 DEF x, y
    <2> QED BY <2>9, <2>14
  <1>3. CASE ~ (i <= j)
    <2>1. EndsAt(v, {Blank}, 0)
      <3>1. ASSUME NEW k \in 1 .. Len(v) PROVE v[k] = Blank
        <4>1. k \in 1 .. i - 1 \/ k \in j + 1 .. Len(v)
              BY <1>1, <1>3
        <4> QED BY <4>1 DEF CutAt
      <3> QED BY <1>1, <3>1 DEF EndsAt
    <2>2. RStrip(v, {Blank}) = SubSeq(v, 1, 0)
          BY <2>1, RStripIs
    <2>3. SubSeq(v, 1, 0) = << >> /\ SubSeq(v, i, j) = << >>
          BY <1>1, <1>3, SubSeqEmpty
    <2>4. Strip(v) = SubSeq(<< >>, Min(Kept(<< >>, {Blank}) \cup {1}), 0)
      <3> DEFINE w == RStrip(v, {Blank})
      <3>1. w = << >> /\ Len(w) = 0
            BY <2>2, <2>3, EmptySeq
      <3>2. Strip(v) = SubSeq(w, Min(Kept(w, {Blank}) \cup {Len(w) + 1}), Len(w))
            BY DEF Strip
      <3> HIDE DEF w
      <3> QED BY <3>1, <3>2
    <2>5. Kept(<< >>, {Blank}) = {}
          BY DEF Kept
    <2>6. Min(Kept(<< >>, {Blank}) \cup {1}) = 1
      <3>1. {1} \in SUBSET Nat /\ \A m \in {1} : 1 <= m
            OBVIOUS
      <3>2. Min({1}) = 1
            BY <3>1, MinIs
      <3> QED BY <2>5, <3>2
    <2> QED BY <2>3, <2>4, <2>6, SubSeqEmpty
  <1> QED BY <1>2, <1>3

-----------------------------------------------------------------------------
(* What strip makes of a text.                                             *)

(* strip does not see blanks around a part of the text.                    *)
LEMMA StripPart ==
    ASSUME NEW v \in Text, NEW i \in 1 .. Len(v) + 1, NEW j \in i - 1 .. Len(v),
           \A k \in 1 .. i - 1 : v[k] = Blank, \A k \in j + 1 .. Len(v) : v[k] = Blank
    PROVE  Strip(SubSeq(v, i, j)) = Strip(v)
  <1> DEFINE w == SubSeq(v, i, j)
  <1>1. Len(v) \in Nat /\ i \in Nat /\ j \in Nat /\ i <= j + 1 /\ j <= Len(v) /\ 1 <= i
        BY TextIs
  <1>2. w \in Text /\ Len(w) = j - i + 1 /\ \A k \in 1 .. j - i + 1 : w[k] = v[i + k - 1]
        BY PartIs
  <1> HIDE DEF w
  <1>3. PICK a, b : CutAt(w, a, b)
        BY <1>2, CutExists
  <1>4. /\ a \in Nat /\ b \in Nat /\ 1 <= a /\ a <= b + 1 /\ b <= j - i + 1
        /\ a <= b => w[a] # Blank /\ w[b] # Blank
        /\ \A k \in 1 .. a - 1 : w[k] = Blank
        /\ \A k \in b + 1 .. j - i + 1 : w[k] = Blank
    <2>1. j - i + 1 \in Nat
          BY <1>1
    <2> QED BY <1>2, <1>3, <2>1 DEF CutAt
  <1>5. ASSUME NEW k \in 1 .. i + a - 2 PROVE v[k] = Blank
    <2>1. CASE k < i
          BY <1>1, <2>1
    <2>2. CASE ~ (k < i)
      <3>1. k - i + 1 \in 1 .. a - 1 /\ k - i + 1 \in 1 .. j - i + 1 /\ i + (k - i + 1) - 1 = k
            BY <1>1, <1>4, <2>2
      <3> QED BY <1>2, <1>4, <3>1
    <2> QED BY <2>1, <2>2
  <1>6. ASSUME NEW k \in i + b .. Len(v) PROVE v[k] = Blank
    <2>1. CASE j < k
          BY <1>1, <1>4, <2>1
    <2>2. CASE ~ (j < k)
      <3>1. k - i + 1 \in b + 1 .. j - i + 1 /\ k - i + 1 \in 1 .. j - i + 1 /\ i + (k - i + 1) - 1 = k
            BY <1>1, <1>4, <2>2
      <3> QED BY <1>2, <1>4, <3>1
    <2> QED BY <2>1, <2>2
  <1>7. i + a - 1 <= i + b - 1 => v[i + a - 1] # Blank /\ v[i + b - 1] # Blank
    <2>1. CASE a <= b
      <3>1. a \in 1 .. j - i + 1 /\ b \in 1 .. j - i + 1
            BY <1>1, <1>4, <2>1
      <3> QED BY <1>2, <1>4, <2>1, <3>1
    <2> QED BY <1>1, <1>4, <2>1
  <1>8. /\ i + a - 1 \in 1 .. Len(v) + 1 /\ i + b - 1 \in (i + a - 1) - 1 .. Len(v)
        /\ i + a - 1 - 1 = i + a - 2 /\ i + b - 1 + 1 = i + b
        BY <1>1, <1>4
  <1>9. CutAt(v, i + a - 1, i + b - 1)
    <2> DEFINE c == i + a - 1
               d == i + b - 1
    <2>1. /\ c \in 1 .. Len(v) + 1 /\ d \in c - 1 .. Len(v)
          /\ c <= d => v[c] # Blank /\ v[d] # Blank
          BY <1>7, <1>8
    <2>2. c - 1 = i + a - 2 /\ d + 1 = i + b
          BY <1>1, <1>4
    <2> HIDE DEF c, d
    <2>3. (\A k \in 1 .. c - 1 : v[k] = Blank) /\ (\A k \in d + 1 .. Len(v) : v[k] = Blank)
          BY <1>5, <1>6, <2>2
    <2>4. CutAt(v, c, d)
          BY <2>1, <2>3 DEF CutAt
    <2> QED BY <2>4 DEF c, d
  <1>10. Strip(v) = SubSeq(v, i + a - 1, i + b - 1) /\ Strip(w) = SubSeq(w, a, b)
         BY <1>2, <1>3, <1>9, StripIs
  <1>11. a \in 1 .. Len(w) + 1 /\ b \in a - 1 .. Len(w)
         BY <1>1, <1>2, <1>4
  <1> DEFINE x == SubSeq(v, i + a - 1, i + b - 1)
             y == SubSeq(w, a, b)
  <1>12. /\ x \in Text /\ Len(x) = b - a + 1
         /\ \A k \in 1 .. b - a + 1 : x[k] = v[i + a - 1 + k - 1]
    <2>1. (i + b - 1) - (i + a - 1) + 1 = b - a + 1
          BY <1>1, <1>4
    <2>2. /\ x \in Text /\ Len(x) = (i + b - 1) - (i + a - 1) + 1
          /\ \A k \in 1 .. (i + b - 1) - (i + a - 1) + 1 : x[k] = v[i + a - 1 + k - 1]
          BY <1>8, PartIs
    <2> HIDE DEF x
    <2> QED BY <2>1, <2>2
  <1>13. y \in Text /\ Len(y) = b - a + 1 /\ \A k \in 1 .. b - a + 1 : y[k] = w[a + k - 1]
         BY <1>2, <1>11, PartIs
  <1> HIDE DEF x, y
  <1>14. ASSUME NEW k \in 1 .. b - a + 1 PROVE x[k] = y[k]
    <2>1. a + k - 1 \in 1 .. j - i + 1 /\ i + (a + k - 1) - 1 = i + a - 1 + k - 1
      <3>1. a \in Nat /\ b \in Nat /\ i \in Nat /\ j \in Nat /\ 1 <= a /\ b <= j - i + 1
            BY <1>1, <1>4
      <3>2. k \in Nat /\ 1 <= k /\ k <= b - a + 1
            BY <3>1
      <3> QED BY <3>1, <3>2
    <2>2. x[k] = v[i + a - 1 + k - 1]
          BY <1>12
    <2>3. y[k] = w[a + k - 1] /\ w[a + k - 1] = v[i + (a + k - 1) - 1]
          BY <1>2, <1>13, <2>1
    <2> QED BY <2>1, <2>2, <2>3
  <1>15. x = y
         BY <1>12, <1>13, <1>14, SameText
  <1> QED BY <1>10, <1>15 DEF x, y, w

(* A text that neither begins nor ends with a blank.                       *)
Bare(v) == Len(v) # 0 => v[1] # Blank /\ v[Len(v)] # Blank

LEMMA WholeIs ==
    ASSUME NEW v \in Text
    PROVE  SubSeq(v, 1, Len(v)) = v
  <1>1. Len(v) \in Nat /\ 1 \in 1 .. Len(v) + 1 /\ Len(v) \in 1 - 1 .. Len(v)
        BY TextIs
  <1> DEFINE w == SubSeq(v, 1, Len(v))
  <1>2. /\ w \in Text /\ Len(w) = Len(v) - 1 + 1
        /\ \A k \in 1 .. Len(v) - 1 + 1 : w[k] = v[1 + k - 1]
        BY <1>1, PartIs
  <1> HIDE DEF w
  <1>3. Len(v) - 1 + 1 = Len(v) /\ \A k \in 1 .. Len(v) : 1 + k - 1 = k
        BY <1>1
  <1>4. w = v
        BY <1>2, <1>3, SameText
  <1> QED BY <1>4 DEF w

LEMMA StripBare ==
    ASSUME NEW v \in Text, Bare(v)
    PROVE  Strip(v) = v
  <1>1. Len(v) \in Nat
        BY TextIs
  <1>2. CutAt(v, 1, Len(v))
        BY <1>1 DEF CutAt, Bare
  <1> QED BY <1>2, StripIs, WholeIs

LEMMA StripGives ==
    ASSUME NEW v \in Text
    PROVE  Strip(v) \in Text /\ Bare(Strip(v)) /\ Strip(Strip(v)) = Strip(v)
  <1>1. PICK i, j : CutAt(v, i, j)
        BY CutExists
  <1>2. i \in 1 .. Len(v) + 1 /\ j \in i - 1 .. Len(v) /\ Len(v) \in Nat
        BY <1>1, TextIs DEF CutAt
  <1> DEFINE w == SubSeq(v, i, j)
  <1>3. Strip(v) = w
        BY <1>1, StripIs
  <1>4. w \in Text /\ Len(w) = j - i + 1 /\ \A k \in 1 .. j - i + 1 : w[k] = v[i + k - 1]
        BY <1>2, PartIs
  <1> HIDE DEF w
  <1>5. Bare(w)
    <2> SUFFICES ASSUME Len(w) # 0 PROVE w[1] # Blank /\ w[Len(w)] # Blank
        BY DEF Bare
    <2>1. /\ i <= j /\ 1 \in 1 .. j - i + 1 /\ j - i + 1 \in 1 .. j - i + 1
          /\ i + 1 - 1 = i /\ i + (j - i + 1) - 1 = j
          BY <1>2, <1>4
    <2>2. w[1] = v[i] /\ w[Len(w)] = v[j]
          BY <1>4, <2>1
    <2> QED BY <1>1, <2>1, <2>2 DEF CutAt
  <1> QED BY <1>3, <1>4, <1>5, StripBare

(* A blank before or behind is not seen.                                   *)
LEMMA StripPadded ==
    ASSUME NEW v \in Text
    PROVE  /\ <<Blank>> \o v \in Text /\ v \o <<Blank>> \in Text
           /\ Strip(<<Blank>> \o v) = Strip(v)
           /\ Strip(v \o <<Blank>>) = Strip(v)
  <1>1. /\ Len(v) \in Nat
        /\ <<Blank>> \in Text /\ Len(<<Blank>>) = 1 /\ <<Blank>>[1] = Blank
        BY TextIs DEF Text, Chars
  <1> DEFINE b == <<Blank>>
             x == b \o v
             y == v \o b
  <1> HIDE DEF b
  <1>2. b \in Text /\ Len(b) = 1 /\ b[1] = Blank
        BY <1>1 DEF b
  <1>3. /\ x \in Text /\ Len(x) = 1 + Len(v)
        /\ \A k \in 1 .. 1 : x[k] = b[k]
        /\ \A k \in 1 .. Len(v) : x[1 + k] = v[k]
    <2>1. /\ x \in Text /\ Len(x) = Len(b) + Len(v)
          /\ \A k \in 1 .. Len(b) : x[k] = b[k]
          /\ \A k \in 1 .. Len(v) : x[Len(b) + k] = v[k]
          BY <1>2, JoinIs
    <2> HIDE DEF x
    <2> QED BY <1>2, <2>1
  <1>4. /\ y \in Text /\ Len(y) = Len(v) + 1
        /\ \A k \in 1 .. Len(v) : y[k] = v[k]
        /\ \A k \in 1 .. 1 : y[Len(v) + k] = b[k]
    <2>1. /\ y \in Text /\ Len(y) = Len(v) + Len(b)
          /\ \A k \in 1 .. Len(v) : y[k] = v[k]
          /\ \A k \in 1 .. Len(b) : y[Len(v) + k] = b[k]
          BY <1>2, JoinIs
    <2> HIDE DEF y
    <2> QED BY <1>2, <2>1
  <1> HIDE DEF x, y
  <1>5. Strip(x) = Strip(v)
    <2>1. 2 \in 1 .. Len(x) + 1 /\ Len(x) \in 2 - 1 .. Len(x) /\ 2 \in Nat
          BY <1>1, <1>3
    <2>2. (\A k \in 1 .. 2 - 1 : x[k] = Blank) /\ (\A k \in Len(x) + 1 .. Len(x) : x[k] = Blank)
          BY <1>1, <1>2, <1>3
    <2>3. Strip(SubSeq(x, 2, Len(x))) = Strip(x)
          BY <1>3, <2>1, <2>2, StripPart
    <2> DEFINE w == SubSeq(x, 2, Len(x))
    <2>4. w \in Text /\ Len(w) = Len(x) - 2 + 1 /\ \A k \in 1 .. Len(x) - 2 + 1 : w[k] = x[2 + k - 1]
          BY <1>3, <2>1, PartIs
    <2> HIDE DEF w
    <2>5. Len(x) - 2 + 1 = Len(v) /\ \A k \in 1 .. Len(v) : 2 + k - 1 = 1 + k
          BY <1>1, <1>3
    <2>6. \A k \in 1 .. Len(w) : w[k] = v[k]
          BY <1>3, <2>4, <2>5
    <2>7. w = v
          BY <2>4, <2>5, <2>6, SameText
    <2> QED BY <2>3, <2>7 DEF w
  <1>6. Strip(y) = Strip(v)
    <2>1. 1 \in 1 .. Len(y) + 1 /\ Len(v) \in 1 - 1 .. Len(y)
          BY <1>1, <1>4
    <2>2. (\A k \in 1 .. 1 - 1 : y[k] = Blank) /\ (\A k \in Len(v) + 1 .. Len(y) : y[k] = Blank)
          BY <1>1, <1>2, <1>4
    <2>3. Strip(SubSeq(y, 1, Len(v))) = Strip(y)
          BY <1>4, <2>1, <2>2, StripPart
    <2> DEFINE w == SubSeq(y, 1, Len(v))
    <2>4. w \in Text /\ Len(w) = Len(v) - 1 + 1 /\ \A k \in 1 .. Len(v) - 1 + 1 : w[k] = y[1 + k - 1]
          BY <1>4, <2>1, PartIs
    <2> HIDE DEF w
    <2>5. Len(v) - 1 + 1 = Len(v) /\ \A k \in 1 .. Len(v) : 1 + k - 1 = k
          BY <1>1
    <2>6. \A k \in 1 .. Len(w) : w[k] = v[k]
          BY <1>4, <2>4, <2>5
    <2>7. w = v
          BY <2>4, <2>5, <2>6, SameText
    <2> QED BY <2>3, <2>7 DEF w
  <1> QED BY <1>3, <1>4, <1>5, <1>6 DEF x, y, b

LEMMA LowerTwice ==
    ASSUME NEW v \in Text
    PROVE  Lower(Lower(v)) = Lower(v)
  <1> DEFINE w == Lower(v)
             x == Lower(w)
  <1>1. w \in Text /\ Len(w) = Len(v) /\ \A k \in 1 .. Len(v) : w[k] = IF v[k] = "A" THEN "a" ELSE v[k]
        BY LowerIs
  <1> HIDE DEF w
  <1>2. x \in Text /\ Len(x) = Len(w) /\ \A k \in 1 .. Len(w) : x[k] = IF w[k] = "A" THEN "a" ELSE w[k]
        BY <1>1, LowerIs
  <1> HIDE DEF x
  <1>3. \A k \in 1 .. Len(x) : x[k] = w[k]
        BY <1>1, <1>2
  <1>4. x = w
        BY <1>1, <1>2, <1>3, SameText
  <1> QED BY <1>4 DEF x, w

LEMMA LowerPart ==
    ASSUME NEW v \in Text, NEW i \in 1 .. Len(v) + 1, NEW j \in i - 1 .. Len(v)
    PROVE  Lower(SubSeq(v, i, j)) = SubSeq(Lower(v), i, j)
  <1> DEFINE w == SubSeq(v, i, j)
             x == Lower(w)
             l == Lower(v)
             y == SubSeq(l, i, j)
  <1>1. Len(v) \in Nat /\ i \in Nat /\ j \in Nat /\ 1 <= i /\ i <= j + 1 /\ j <= Len(v)
        BY TextIs
  <1>2. w \in Text /\ Len(w) = j - i + 1 /\ \A k \in 1 .. j - i + 1 : w[k] = v[i + k - 1]
        BY PartIs
  <1> HIDE DEF w
  <1>3. x \in Text /\ Len(x) = Len(w) /\ \A k \in 1 .. Len(w) : x[k] = IF w[k] = "A" THEN "a" ELSE w[k]
        BY <1>2, LowerIs
  <1>4. l \in Text /\ Len(l) = Len(v) /\ \A k \in 1 .. Len(v) : l[k] = IF v[k] = "A" THEN "a" ELSE v[k]
        BY LowerIs
  <1> HIDE DEF x, l
  <1>5. y \in Text /\ Len(y) = j - i + 1 /\ \A k \in 1 .. j - i + 1 : y[k] = l[i + k - 1]
        BY <1>4, PartIs
  <1> HIDE DEF y
  <1>6. \A k \in 1 .. j - i + 1 : i + k - 1 \in 1 .. Len(v)
        BY <1>1
  <1>7. \A k \in 1 .. Len(x) : x[k] = y[k]
        BY <1>2, <1>3, <1>4, <1>5, <1>6
  <1>8. x = y
        BY <1>2, <1>3, <1>5, <1>7, SameText
  <1> QED BY <1>8 DEF x, y, w, l

(* Upper case is neither blank nor dot, so that lower() moves no cut.      *)
LEMMA StripLower ==
    ASSUME NEW v \in Text
    PROVE  Strip(Lower(v)) = Lower(Strip(v))
  <1> DEFINE l == Lower(v)
  <1>1. l \in Text /\ Len(l) = Len(v) /\ \A k \in 1 .. Len(v) : l[k] = IF v[k] = "A" THEN "a" ELSE v[k]
        BY LowerIs
  <1>2. Blank # "A" /\ Blank # "a"
        BY Zenon DEF Blank
  <1>3. \A k \in 1 .. Len(v) : l[k] = Blank <=> v[k] = Blank
        BY <1>1, <1>2
  <1>4. PICK i, j : CutAt(v, i, j)
        BY CutExists
  <1> HIDE DEF l
  <1>5. /\ Len(v) \in Nat /\ i \in 1 .. Len(v) + 1 /\ j \in i - 1 .. Len(v)
        /\ i <= j => i \in 1 .. Len(v) /\ j \in 1 .. Len(v)
        /\ \A k \in 1 .. i - 1 : k \in 1 .. Len(v)
        /\ \A k \in j + 1 .. Len(v) : k \in 1 .. Len(v)
    <2>1. Len(v) \in Nat /\ i \in 1 .. Len(v) + 1 /\ j \in i - 1 .. Len(v)
          BY <1>4, TextIs DEF CutAt
    <2> QED BY <2>1
  <1>6. CutAt(l, i, j)
        BY <1>1, <1>3, <1>4, <1>5 DEF CutAt
  <1>7. Strip(l) = SubSeq(l, i, j) /\ Strip(v) = SubSeq(v, i, j)
        BY <1>1, <1>4, <1>6, StripIs
  <1> QED BY <1>5, <1>7, LowerPart DEF l

(* rstrip takes one character more away when one more is there.            *)
LEMMA RStripMore ==
    ASSUME NEW v \in Text, NEW d \in Chars, NEW drop, d \in drop
    PROVE  v \o <<d>> \in Text /\ RStrip(v \o <<d>>, drop) = RStrip(v, drop)
  <1> DEFINE b == <<d>>
             x == v \o b
  <1>1. b \in Text /\ Len(b) = 1 /\ b[1] = d /\ Len(v) \in Nat
        BY TextIs DEF Text
  <1> HIDE DEF b
  <1>2. /\ x \in Text /\ Len(x) = Len(v) + 1
        /\ \A k \in 1 .. Len(v) : x[k] = v[k]
        /\ \A k \in 1 .. 1 : x[Len(v) + k] = b[k]
    <2>1. /\ x \in Text /\ Len(x) = Len(v) + Len(b)
          /\ \A k \in 1 .. Len(v) : x[k] = v[k]
          /\ \A k \in 1 .. Len(b) : x[Len(v) + k] = b[k]
          BY <1>1, JoinIs
    <2> HIDE DEF x
    <2> QED BY <1>1, <2>1
  <1> HIDE DEF x
  <1>3. PICK j \in 0 .. Len(v) : EndsAt(v, drop, j)
        BY EndExists
  <1>4. EndsAt(x, drop, j)
        BY <1>1, <1>2, <1>3 DEF EndsAt
  <1>5. RStrip(v, drop) = SubSeq(v, 1, j) /\ RStrip(x, drop) = SubSeq(x, 1, j)
        BY <1>2, <1>3, <1>4, RStripIs
  <1> DEFINE y == SubSeq(v, 1, j)
             z == SubSeq(x, 1, j)
  <1>6. 1 \in 1 .. Len(v) + 1 /\ j \in 1 - 1 .. Len(v) /\ 1 \in 1 .. Len(x) + 1 /\ j \in 1 - 1 .. Len(x)
        BY <1>1, <1>2
  <1>7. y \in Text /\ Len(y) = j - 1 + 1 /\ \A k \in 1 .. j - 1 + 1 : y[k] = v[1 + k - 1]
        BY <1>6, PartIs
  <1>8. z \in Text /\ Len(z) = j - 1 + 1 /\ \A k \in 1 .. j - 1 + 1 : z[k] = x[1 + k - 1]
        BY <1>2, <1>6, PartIs
  <1> HIDE DEF y, z
  <1>9. \A k \in 1 .. j - 1 + 1 : 1 + k - 1 = k /\ k \in 1 .. Len(v)
        BY <1>1
  <1>10. \A k \in 1 .. Len(y) : y[k] = z[k]
         BY <1>2, <1>7, <1>8, <1>9
  <1>11. y = z
         BY <1>7, <1>8, <1>10, SameText
  <1> QED BY <1>2, <1>5, <1>11 DEF x, b, y, z

LEMMA PartOfPart ==
    ASSUME NEW v \in Text, NEW i \in 1 .. Len(v) + 1, NEW j \in i - 1 .. Len(v),
           NEW k \in 1 .. j - i + 2, NEW l \in k - 1 .. j - i + 1
    PROVE  SubSeq(SubSeq(v, i, j), k, l) = SubSeq(v, i + k - 1, i + l - 1)
  <1> DEFINE w == SubSeq(v, i, j)
             x == SubSeq(w, k, l)
             y == SubSeq(v, i + k - 1, i + l - 1)
  <1>1. /\ Len(v) \in Nat /\ i \in Nat /\ j \in Nat /\ 1 <= i /\ i <= j + 1 /\ j <= Len(v)
        /\ k \in Nat /\ l \in Nat /\ 1 <= k /\ k <= l + 1 /\ l <= j - i + 1
    <2>1. Len(v) \in Nat
          BY TextIs
    <2>2. i \in Nat /\ j \in Nat /\ 1 <= i /\ i <= j + 1 /\ j <= Len(v) /\ j - i + 1 \in Nat
          BY <2>1
    <2> QED BY <2>1, <2>2
  <1>2. w \in Text /\ Len(w) = j - i + 1 /\ \A m \in 1 .. j - i + 1 : w[m] = v[i + m - 1]
        BY PartIs
  <1> HIDE DEF w
  <1>3. k \in 1 .. Len(w) + 1 /\ l \in k - 1 .. Len(w)
        BY <1>1, <1>2
  <1>4. x \in Text /\ Len(x) = l - k + 1 /\ \A m \in 1 .. l - k + 1 : x[m] = w[k + m - 1]
        BY <1>2, <1>3, PartIs
  <1>5. /\ i + k - 1 \in 1 .. Len(v) + 1 /\ i + l - 1 \in (i + k - 1) - 1 .. Len(v)
        /\ (i + l - 1) - (i + k - 1) + 1 = l - k + 1
        BY <1>1
  <1>6. y \in Text /\ Len(y) = l - k + 1 /\ \A m \in 1 .. l - k + 1 : y[m] = v[i + k - 1 + m - 1]
        BY <1>5, PartIs
  <1> HIDE DEF x, y
  <1>7. \A m \in 1 .. l - k + 1 : k + m - 1 \in 1 .. j - i + 1 /\ i + (k + m - 1) - 1 = i + k - 1 + m - 1
        BY <1>1
  <1>8. \A m \in 1 .. Len(x) : x[m] = y[m]
        BY <1>2, <1>4, <1>6, <1>7
  <1>9. x = y
        BY <1>4, <1>6, <1>8, SameText
  <1> QED BY <1>9 DEF x, y, w

-----------------------------------------------------------------------------
(* The two sides of a slash.                                               *)

Slashless(v) == \A k \in 1 .. Len(v) : v[k] # "/"

(* The first slash is at position p.                                       *)
SlashAt(v, p) == p \in 1 .. Len(v) /\ v[p] = "/" /\ \A k \in 1 .. p - 1 : v[k] # "/"

LEMMA SlashExists ==
    ASSUME NEW v \in Text
    PROVE  Slashes(v) # {} => \E p \in 1 .. Len(v) : SlashAt(v, p)
  <1> SUFFICES ASSUME Slashes(v) # {} PROVE \E p \in 1 .. Len(v) : SlashAt(v, p)
      OBVIOUS
  <1>1. Len(v) \in Nat /\ DOMAIN v = 1 .. Len(v)
        BY TextIs
  <1>2. Slashes(v) \in SUBSET Nat
        BY <1>1 DEF Slashes
  <1>3. PICK p \in Slashes(v) : \A m \in Slashes(v) : p <= m
        BY <1>2, LeastExists
  <1>4. p \in 1 .. Len(v) /\ v[p] = "/"
        BY <1>1 DEF Slashes
  <1>5. ASSUME NEW k \in 1 .. p - 1 PROVE v[k] # "/"
    <2>1. k \in 1 .. Len(v) /\ ~ (p <= k)
          BY <1>1, <1>4
    <2> QED BY <1>1, <1>3, <2>1 DEF Slashes
  <1> QED BY <1>4, <1>5 DEF SlashAt

LEMMA SplitAt ==
    ASSUME NEW v \in Text, NEW p, SlashAt(v, p)
    PROVE  /\ Slashes(v) # {} /\ Min(Slashes(v)) = p
           /\ Before1st(v) = SubSeq(v, 1, p - 1)
           /\ After1st(v) = SubSeq(v, p + 1, Len(v))
  <1>1. Len(v) \in Nat /\ DOMAIN v = 1 .. Len(v) /\ p \in 1 .. Len(v)
        BY TextIs DEF SlashAt
  <1>2. p \in Slashes(v) /\ Slashes(v) \in SUBSET Nat
        BY <1>1 DEF SlashAt, Slashes
  <1>3. ASSUME NEW m \in Slashes(v) PROVE p <= m
    <2>1. m \in 1 .. Len(v) /\ v[m] = "/"
          BY <1>1 DEF Slashes
    <2>2. m \notin 1 .. p - 1
          BY <2>1 DEF SlashAt
    <2> QED BY <1>1, <2>1, <2>2
  <1>4. Min(Slashes(v)) = p
        BY <1>2, <1>3, MinIs
  <1> QED BY <1>2, <1>4 DEF Before1st, After1st

(* Texts joined by a slash are split where they were joined.               *)
LEMMA SplitJoined ==
    ASSUME NEW b \in Text, Slashless(b), NEW a \in Text, NEW v, v = b \o <<"/">> \o a
    PROVE  v \in Text /\ Slashes(v) # {} /\ Before1st(v) = b /\ After1st(v) = a
  <1> DEFINE s == <<"/">>
             w == b \o s
  <1>1. s \in Text /\ Len(s) = 1 /\ s[1] = "/" /\ Len(b) \in Nat /\ Len(a) \in Nat
        BY TextIs DEF Text, Chars
  <1> HIDE DEF s
  <1>2. /\ w \in Text /\ Len(w) = Len(b) + Len(s)
        /\ \A k \in 1 .. Len(b) : w[k] = b[k]
        /\ \A k \in 1 .. Len(s) : w[Len(b) + k] = s[k]
        BY <1>1, JoinIs
  <1> DEFINE u == w \o a
  <1>3. v = u
        BY DEF s
  <1> HIDE DEF w
  <1>4. /\ v \in Text /\ Len(v) = Len(w) + Len(a)
        /\ \A k \in 1 .. Len(w) : v[k] = w[k]
        /\ \A k \in 1 .. Len(a) : v[Len(w) + k] = a[k]
    <2>1. /\ u \in Text /\ Len(u) = Len(w) + Len(a)
          /\ \A k \in 1 .. Len(w) : u[k] = w[k]
          /\ \A k \in 1 .. Len(a) : u[Len(w) + k] = a[k]
          BY <1>2, JoinIs
    <2> HIDE DEF u
    <2> QED BY <1>3, <2>1
  <1> DEFINE p == Len(b) + 1
  <1>5. p \in Nat /\ p - 1 = Len(b) /\ Len(w) = p /\ Len(v) = p + Len(a)
        BY <1>1, <1>2, <1>4
  <1>6. w[p] = "/"
    <2>1. 1 \in 1 .. Len(s)
          BY <1>1
    <2> QED BY <1>1, <1>2, <2>1
  <1> HIDE DEF p
  <1>7. v[p] = "/" /\ \A k \in 1 .. Len(b) : v[k] = b[k]
    <2>1. p \in 1 .. Len(w) /\ \A k \in 1 .. Len(b) : k \in 1 .. Len(w)
          BY <1>1, <1>5
    <2> QED BY <1>2, <1>4, <1>6, <2>1
  <1>8. SlashAt(v, p)
    <2>1. p \in 1 .. Len(v)
          BY <1>1, <1>5
    <2>2. \A k \in 1 .. p - 1 : v[k] # "/"
          BY <1>5, <1>7 DEF Slashless
    <2> QED BY <1>7, <2>1, <2>2 DEF SlashAt
  <1>9. Slashes(v) # {} /\ Before1st(v) = SubSeq(v, 1, p - 1) /\ After1st(v) = SubSeq(v, p + 1, Len(v))
        BY <1>4, <1>8, SplitAt
  <1> DEFINE x == SubSeq(v, 1, p - 1)
             y == SubSeq(v, p + 1, Len(v))
  <1>10. /\ 1 \in 1 .. Len(v) + 1 /\ p - 1 \in 1 - 1 .. Len(v)
         /\ p + 1 \in 1 .. Len(v) + 1 /\ Len(v) \in (p + 1) - 1 .. Len(v)
         BY <1>1, <1>5
  <1>11. x \in Text /\ Len(x) = p - 1 - 1 + 1 /\ \A k \in 1 .. p - 1 - 1 + 1 : x[k] = v[1 + k - 1]
         BY <1>4, <1>10, PartIs
  <1>12. /\ y \in Text /\ Len(y) = Len(v) - (p + 1) + 1
         /\ \A k \in 1 .. Len(v) - (p + 1) + 1 : y[k] = v[p + 1 + k - 1]
         BY <1>4, <1>10, PartIs
  <1> HIDE DEF x, y
  <1>13. /\ p - 1 - 1 + 1 = Len(b) /\ Len(v) - (p + 1) + 1 = Len(a)
         /\ \A k \in 1 .. Len(b) : 1 + k - 1 = k
         /\ \A k \in 1 .. Len(a) : p + 1 + k - 1 = Len(w) + k
         BY <1>1, <1>5
  <1>14. Len(x) = Len(b) /\ Len(y) = Len(a)
         BY <1>11, <1>12, <1>13
  <1>15. ASSUME NEW k \in 1 .. Len(b)
         PROVE  x[k] = b[k]
    <2>1. x[k] = v[1 + k - 1]
          BY <1>11, <1>13
    <2> QED BY <1>7, <1>13, <2>1
  <1>16. ASSUME NEW k \in 1 .. Len(a)
         PROVE  y[k] = a[k]
    <2>1. y[k] = v[p + 1 + k - 1]
          BY <1>12, <1>13
    <2>2. y[k] = v[Len(w) + k]
          BY <1>13, <2>1
    <2> QED BY <1>4, <2>2
  <1>17. x = b /\ y = a
         BY <1>11, <1>12, <1>14, <1>15, <1>16, SameText
  <1> QED BY <1>4, <1>9, <1>17 DEF x, y

(* And what was split is joined to what it was.                            *)
LEMMA SplitGives ==
    ASSUME NEW v \in Text, Slashes(v) # {}
    PROVE  /\ Before1st(v) \in Text /\ Slashless(Before1st(v)) /\ After1st(v) \in Text
           /\ v = Before1st(v) \o <<"/">> \o After1st(v)
  <1>1. PICK p \in 1 .. Len(v) : SlashAt(v, p)
        BY SlashExists
  <1>2. Len(v) \in Nat
        BY TextIs
  <1> DEFINE b == SubSeq(v, 1, p - 1)
             a == SubSeq(v, p + 1, Len(v))
             s == <<"/">>
             w == b \o s
             u == w \o a
  <1>3. Before1st(v) = b /\ After1st(v) = a
        BY <1>1, SplitAt
  <1>4. /\ 1 \in 1 .. Len(v) + 1 /\ p - 1 \in 1 - 1 .. Len(v)
        /\ p + 1 \in 1 .. Len(v) + 1 /\ Len(v) \in (p + 1) - 1 .. Len(v)
        BY <1>2
  <1>5. b \in Text /\ Len(b) = p - 1 - 1 + 1 /\ \A k \in 1 .. p - 1 - 1 + 1 : b[k] = v[1 + k - 1]
        BY <1>4, PartIs
  <1>6. /\ a \in Text /\ Len(a) = Len(v) - (p + 1) + 1
        /\ \A k \in 1 .. Len(v) - (p + 1) + 1 : a[k] = v[p + 1 + k - 1]
        BY <1>4, PartIs
  <1>7. s \in Text /\ Len(s) = 1 /\ s[1] = "/"
        BY DEF Text, Chars
  <1> HIDE DEF b, a, s
  <1>8. /\ w \in Text /\ Len(w) = Len(b) + Len(s)
        /\ \A k \in 1 .. Len(b) : w[k] = b[k]
        /\ \A k \in 1 .. Len(s) : w[Len(b) + k] = s[k]
        BY <1>5, <1>7, JoinIs
  <1> HIDE DEF w
  <1>9. /\ u \in Text /\ Len(u) = Len(w) + Len(a)
        /\ \A k \in 1 .. Len(w) : u[k] = w[k]
        /\ \A k \in 1 .. Len(a) : u[Len(w) + k] = a[k]
        BY <1>6, <1>8, JoinIs
  <1> HIDE DEF u
  <1>10. /\ Len(b) = p - 1 /\ Len(w) = p /\ Len(a) = Len(v) - p /\ Len(u) = Len(v) /\ p \in Nat
         /\ \A k \in 1 .. p - 1 : b[k] = v[k]
         /\ \A k \in 1 .. Len(a) : a[k] = v[p + k]
    <2>1. p \in Nat /\ p - 1 - 1 + 1 = p - 1 /\ Len(v) - (p + 1) + 1 = Len(v) - p
          BY <1>2
    <2>2. Len(b) = p - 1 /\ Len(a) = Len(v) - p /\ Len(w) = p /\ Len(u) = Len(v)
          BY <1>2, <1>5, <1>6, <1>7, <1>8, <1>9, <2>1
    <2>3. \A k \in 1 .. p - 1 : 1 + k - 1 = k
          BY <2>1
    <2>4. \A k \in 1 .. Len(a) : p + 1 + k - 1 = p + k
          BY <1>2, <2>1, <2>2
    <2> QED BY <1>5, <1>6, <2>1, <2>2, <2>3, <2>4
  <1>11. ASSUME NEW k \in 1 .. Len(u) PROVE u[k] = v[k]
    <2>1. CASE k < p
      <3>1. k \in 1 .. p - 1 /\ k \in 1 .. Len(b) /\ k \in 1 .. Len(w)
            BY <1>2, <1>10, <2>1
      <3> QED BY <1>8, <1>9, <1>10, <3>1
    <2>2. CASE k = p
      <3>1. 1 \in 1 .. Len(s) /\ Len(b) + 1 = p /\ p \in 1 .. Len(w)
            BY <1>7, <1>10
      <3>2. w[p] = "/"
            BY <1>7, <1>8, <3>1
      <3> QED BY <1>1, <1>9, <2>2, <3>1, <3>2 DEF SlashAt
    <2>3. CASE p < k
      <3>1. k - p \in 1 .. Len(a) /\ p + (k - p) = k
            BY <1>2, <1>10, <2>3
      <3>2. u[p + (k - p)] = a[k - p]
            BY <1>9, <1>10, <3>1
      <3> QED BY <1>10, <3>1, <3>2
    <2> QED BY <1>2, <1>10, <2>1, <2>2, <2>3
  <1>12. u = v
         BY <1>9, <1>10, <1>11, SameText
  <1>13. Slashless(b)
         BY <1>1, <1>10 DEF SlashAt, Slashless
  <1> QED BY <1>3, <1>5, <1>6, <1>12, <1>13 DEF u, w, s

LEMMA NotASlash == Blank # "/" /\ Blank # "A" /\ Blank # "a" /\ Blank # "."
  BY Zenon DEF Blank

LEMMA StripSlashless ==
    ASSUME NEW v \in Text, Slashes(v) = {}
    PROVE  Slashes(Strip(v)) = {}
  <1>1. PICK i, j : CutAt(v, i, j)
        BY CutExists
  <1>2. Len(v) \in Nat /\ DOMAIN v = 1 .. Len(v) /\ i \in 1 .. Len(v) + 1 /\ j \in i - 1 .. Len(v)
        BY <1>1, TextIs DEF CutAt
  <1> DEFINE s == SubSeq(v, i, j)
  <1>3. s \in Text /\ Len(s) = j - i + 1 /\ \A k \in 1 .. j - i + 1 : s[k] = v[i + k - 1]
        BY <1>2, PartIs
  <1>4. Strip(v) = s
        BY <1>1, StripIs
  <1> HIDE DEF s
  <1>5. DOMAIN s = 1 .. j - i + 1
        BY <1>3, TextIs
  <1>6. \A k \in 1 .. j - i + 1 : i + k - 1 \in 1 .. Len(v)
        BY <1>2
  <1>7. \A k \in 1 .. Len(v) : v[k] # "/"
        BY <1>2 DEF Slashes
  <1>8. \A k \in DOMAIN s : s[k] # "/"
        BY <1>3, <1>5, <1>6, <1>7
  <1> QED BY <1>4, <1>8 DEF Slashes

(* strip of the whole does not change the sides but for blanks around them.*)
LEMMA StripSides ==
    ASSUME NEW v \in Text, Slashes(v) # {}
    PROVE  /\ Slashes(Strip(v)) # {}
           /\ Strip(Before1st(Strip(v))) = Strip(Before1st(v))
           /\ Strip(After1st(Strip(v))) = Strip(After1st(v))
  <1>1. PICK p \in 1 .. Len(v) : SlashAt(v, p)
        BY SlashExists
  <1>2. PICK i, j : CutAt(v, i, j)
        BY CutExists
  <1>3. Len(v) \in Nat /\ i \in 1 .. Len(v) + 1 /\ j \in i - 1 .. Len(v)
        BY <1>2, TextIs DEF CutAt
  <1>4. i <= p /\ p <= j
    <2>1. v[p] # Blank
          BY <1>1, NotASlash DEF SlashAt
    <2>2. p \notin 1 .. i - 1 /\ p \notin j + 1 .. Len(v)
          BY <1>2, <2>1 DEF CutAt
    <2> QED BY <1>3, <2>2
  <1> DEFINE s == SubSeq(v, i, j)
             q == p - i + 1
             n == j - i + 1
             b == SubSeq(v, 1, p - 1)
             a == SubSeq(v, p + 1, Len(v))
  <1>5. s \in Text /\ Len(s) = n /\ \A k \in 1 .. n : s[k] = v[i + k - 1]
        BY <1>3, PartIs
  <1>6. Strip(v) = s
        BY <1>2, StripIs
  <1>7. SlashAt(s, q)
    <2>1. q \in 1 .. n /\ i + q - 1 = p /\ \A k \in 1 .. q - 1 : k \in 1 .. n /\ i + k - 1 \in 1 .. p - 1
          BY <1>3, <1>4
    <2> HIDE DEF s, q, n
    <2>2. s[q] = "/"
          BY <1>1, <1>5, <2>1 DEF SlashAt
    <2>3. \A k \in 1 .. q - 1 : s[k] # "/"
          BY <1>1, <1>5, <2>1 DEF SlashAt
    <2> QED BY <1>5, <2>1, <2>2, <2>3 DEF SlashAt
  <1>8. /\ Slashes(s) # {}
        /\ Before1st(s) = SubSeq(s, 1, q - 1)
        /\ After1st(s) = SubSeq(s, q + 1, n)
    <2>1. Len(s) = n /\ s \in Text
          BY <1>5
    <2> HIDE DEF s, q, n
    <2> QED BY <1>7, <2>1, SplitAt
  <1>9. Before1st(v) = b /\ After1st(v) = a
        BY <1>1, SplitAt
  <1>10. SubSeq(s, 1, q - 1) = SubSeq(b, i, p - 1)
    <2>1. /\ 1 \in 1 .. j - i + 2 /\ q - 1 \in 1 - 1 .. j - i + 1
          /\ i + 1 - 1 = i /\ i + (q - 1) - 1 = p - 1
          BY <1>3, <1>4
    <2>2. SubSeq(s, 1, q - 1) = SubSeq(v, i + 1 - 1, i + (q - 1) - 1)
          BY <1>3, <2>1, PartOfPart
    <2>3. /\ 1 \in 1 .. Len(v) + 1 /\ p - 1 \in 1 - 1 .. Len(v)
          /\ i \in 1 .. p - 1 - 1 + 2 /\ p - 1 \in i - 1 .. p - 1 - 1 + 1
          /\ 1 + i - 1 = i /\ 1 + (p - 1) - 1 = p - 1
          BY <1>3, <1>4
    <2>4. SubSeq(b, i, p - 1) = SubSeq(v, 1 + i - 1, 1 + (p - 1) - 1)
          BY <2>3, PartOfPart
    <2> HIDE DEF s, q, b
    <2> QED BY <2>1, <2>2, <2>3, <2>4
  <1>11. SubSeq(s, q + 1, n) = SubSeq(a, 1, j - p)
    <2>1. /\ q + 1 \in 1 .. j - i + 2 /\ n \in (q + 1) - 1 .. j - i + 1
          /\ i + (q + 1) - 1 = p + 1 /\ i + n - 1 = j
          BY <1>3, <1>4
    <2>2. SubSeq(s, q + 1, n) = SubSeq(v, i + (q + 1) - 1, i + n - 1)
          BY <1>3, <2>1, PartOfPart
    <2>3. /\ p + 1 \in 1 .. Len(v) + 1 /\ Len(v) \in (p + 1) - 1 .. Len(v)
          /\ 1 \in 1 .. Len(v) - (p + 1) + 2 /\ j - p \in 1 - 1 .. Len(v) - (p + 1) + 1
          /\ (p + 1) + 1 - 1 = p + 1 /\ (p + 1) + (j - p) - 1 = j
          BY <1>3, <1>4
    <2>4. SubSeq(a, 1, j - p) = SubSeq(v, (p + 1) + 1 - 1, (p + 1) + (j - p) - 1)
          BY <2>3, PartOfPart
    <2> HIDE DEF s, q, n, a
    <2> QED BY <2>1, <2>2, <2>3, <2>4
  <1>12. b \in Text /\ Len(b) = p - 1 /\ \A k \in 1 .. p - 1 : b[k] = v[k]
    <2>1. 1 \in 1 .. Len(v) + 1 /\ p - 1 \in 1 - 1 .. Len(v) /\ p - 1 - 1 + 1 = p - 1
          BY <1>3
    <2>2. b \in Text /\ Len(b) = p - 1 - 1 + 1 /\ \A k \in 1 .. p - 1 - 1 + 1 : b[k] = v[1 + k - 1]
          BY <2>1, PartIs
    <2> HIDE DEF b
    <2>3. \A k \in 1 .. p - 1 : 1 + k - 1 = k
          BY <1>3
    <2> QED BY <2>1, <2>2, <2>3
  <1>13. a \in Text /\ Len(a) = Len(v) - p /\ \A k \in 1 .. Len(v) - p : a[k] = v[p + k]
    <2>1. p + 1 \in 1 .. Len(v) + 1 /\ Len(v) \in (p + 1) - 1 .. Len(v) /\ Len(v) - (p + 1) + 1 = Len(v) - p
          BY <1>3
    <2>2. /\ a \in Text /\ Len(a) = Len(v) - (p + 1) + 1
          /\ \A k \in 1 .. Len(v) - (p + 1) + 1 : a[k] = v[p + 1 + k - 1]
          BY <2>1, PartIs
    <2> HIDE DEF a
    <2>3. \A k \in 1 .. Len(v) - p : p + 1 + k - 1 = p + k
          BY <1>3
    <2> QED BY <2>1, <2>2, <2>3
  <1> HIDE DEF s, q, n, b, a
  <1>14. Strip(SubSeq(b, i, p - 1)) = Strip(b)
    <2>1. /\ i \in 1 .. Len(b) + 1 /\ p - 1 \in i - 1 .. Len(b)
          /\ \A k \in 1 .. i - 1 : k \in 1 .. p - 1
          BY <1>3, <1>4, <1>12
    <2>2. \A k \in 1 .. i - 1 : b[k] = Blank
          BY <1>2, <1>12, <2>1 DEF CutAt
    <2>3. \A k \in p - 1 + 1 .. Len(b) : b[k] = Blank
          BY <1>3, <1>12
    <2> QED BY <1>12, <2>1, <2>2, <2>3, StripPart
  <1>15. Strip(SubSeq(a, 1, j - p)) = Strip(a)
    <2>1. /\ 1 \in 1 .. Len(a) + 1 /\ j - p \in 1 - 1 .. Len(a)
          /\ \A k \in j - p + 1 .. Len(a) : k \in 1 .. Len(v) - p /\ p + k \in j + 1 .. Len(v)
          BY <1>3, <1>4, <1>13
    <2>2. \A k \in j - p + 1 .. Len(a) : a[k] = Blank
          BY <1>2, <1>13, <2>1 DEF CutAt
    <2>3. \A k \in 1 .. 1 - 1 : a[k] = Blank
          OBVIOUS
    <2> QED BY <1>13, <2>1, <2>2, <2>3, StripPart
  <1> QED BY <1>6, <1>8, <1>9, <1>10, <1>11, <1>14, <1>15

-----------------------------------------------------------------------------
(* What _normalize makes of a value, type by type.                         *)

LEMMA NormalizeIs ==
    ASSUME NEW t, NEW v
    PROVE  /\ t \in HostTypes => Normalize(t, v) = RStrip(Lower(Strip(v)), {"."})
           /\ t = "technology" => Normalize(t, v) = Lower(Strip(v))
           /\ t = "ip_address" =>
                Normalize(t, v) = IF Strip(v) \in DOMAIN AddressOf
                                  THEN TextOf[AddressOf[Strip(v)]] ELSE Strip(v)
           /\ t = "service" =>
                Normalize(t, v) = IF Slashes(Strip(v)) = {} THEN Strip(v)
                                  ELSE Strip(Before1st(Strip(v))) \o <<"/">>
                                       \o Lower(Strip(After1st(Strip(v))))
           /\ t = "certificate" => Normalize(t, v) = Strip(v)
  <1> DEFINE s == Strip(v)
             x == Strip(Before1st(s)) \o <<"/">> \o Lower(Strip(After1st(s)))
             h == RStrip(Lower(s), {"."})
             l == Lower(s)
             a == TextOf[AddressOf[s]]
             A == s \in DOMAIN AddressOf
             E == Slashes(s) # {}
  <1>1. Normalize(t, v) = CASE t \in HostTypes -> h
                            [] t = "ip_address" /\ A -> a
                            [] t = "service" /\ E -> x
                            [] t = "technology" -> l
                            [] OTHER -> s
        BY DEF Normalize
  <1> HIDE DEF s, x, h, l, a, A, E
  <1>2. /\ t \in HostTypes => Normalize(t, v) = h
        /\ t = "technology" => Normalize(t, v) = l
        /\ t = "ip_address" => Normalize(t, v) = IF A THEN a ELSE s
        /\ t = "service" => Normalize(t, v) = IF ~ E THEN s ELSE x
        /\ t = "certificate" => Normalize(t, v) = s
        BY <1>1 DEF HostTypes
  <1> QED BY <1>2 DEF s, x, h, l, a, A, E

LEMMA NormalizeService ==
    ASSUME NEW v \in Text
    PROVE  Normalize("service", v) =
             IF Slashes(v) = {} THEN Strip(v)
             ELSE Strip(Before1st(v)) \o <<"/">> \o Lower(Strip(After1st(v)))
  <1> DEFINE s == Strip(v)
             n == Normalize("service", v)
  <1>1. n = IF Slashes(s) = {} THEN s
            ELSE Strip(Before1st(s)) \o <<"/">> \o Lower(Strip(After1st(s)))
        BY NormalizeIs
  <1>2. Slashes(v) = {} => Slashes(s) = {}
        BY StripSlashless
  <1>3. Slashes(v) # {} => /\ Slashes(s) # {}
                           /\ Strip(Before1st(s)) = Strip(Before1st(v))
                           /\ Strip(After1st(s)) = Strip(After1st(v))
        BY StripSides
  <1> HIDE DEF s, n
  <1>4. n = IF Slashes(v) = {} THEN s
            ELSE Strip(Before1st(v)) \o <<"/">> \o Lower(Strip(After1st(v)))
        BY <1>1, <1>2, <1>3
  <1> QED BY <1>4 DEF s, n

-----------------------------------------------------------------------------
(* Host names.  _normalize strips blanks, then dots; what all spellings of *)
(* a name have in common is what is left when both are stripped for good.  *)

Ends == {Blank, "."}
Name(v) == RStrip(Strip(Lower(v)), Ends)

LEMMA RStripGives ==
    ASSUME NEW v \in Text, NEW drop
    PROVE  /\ RStrip(v, drop) \in Text
           /\ Len(RStrip(v, drop)) # 0 => RStrip(v, drop)[Len(RStrip(v, drop))] \notin drop
  <1>1. PICK j \in 0 .. Len(v) : EndsAt(v, drop, j)
        BY EndExists
  <1>2. Len(v) \in Nat
        BY TextIs
  <1> DEFINE w == SubSeq(v, 1, j)
  <1>3. RStrip(v, drop) = w
        BY <1>1, RStripIs
  <1>4. w \in Text /\ Len(w) = j /\ \A k \in 1 .. j : w[k] = v[k]
    <2>1. 1 \in 1 .. Len(v) + 1 /\ j \in 1 - 1 .. Len(v) /\ j - 1 + 1 = j
          BY <1>2
    <2>2. w \in Text /\ Len(w) = j - 1 + 1 /\ \A k \in 1 .. j - 1 + 1 : w[k] = v[1 + k - 1]
          BY <2>1, PartIs
    <2> HIDE DEF w
    <2>3. \A k \in 1 .. j : 1 + k - 1 = k
          BY <1>2
    <2> QED BY <2>1, <2>2, <2>3
  <1> HIDE DEF w
  <1>5. j # 0 => j \in 1 .. j
        BY <1>2
  <1>6. Len(w) # 0 => w[Len(w)] \notin drop
        BY <1>1, <1>4, <1>5 DEF EndsAt
  <1> QED BY <1>3, <1>4, <1>6

(* A text that does not end with a character of drop.                      *)
LEMMA RStripNothing ==
    ASSUME NEW v \in Text, NEW drop, Len(v) # 0 => v[Len(v)] \notin drop
    PROVE  RStrip(v, drop) = v
  <1>1. Len(v) \in Nat
        BY TextIs
  <1>2. EndsAt(v, drop, Len(v))
        BY <1>1 DEF EndsAt
  <1> QED BY <1>2, RStripIs, WholeIs

(* What is stripped of some characters is stripped of more as it was.      *)
LEMMA RStripTwice ==
    ASSUME NEW v \in Text, NEW some, NEW drop, some \subseteq drop
    PROVE  RStrip(RStrip(v, some), drop) = RStrip(v, drop)
  <1>1. PICK j \in 0 .. Len(v) : EndsAt(v, some, j)
        BY EndExists
  <1>2. PICK m \in 0 .. Len(v) : EndsAt(v, drop, m)
        BY EndExists
  <1>3. Len(v) \in Nat /\ j \in Nat /\ m \in Nat /\ j <= Len(v) /\ m <= Len(v)
        BY TextIs
  <1>4. m <= j
    <2> SUFFICES ASSUME j < m PROVE FALSE
        BY <1>3
    <2>1. m \in j + 1 .. Len(v) /\ m # 0
          BY <1>3
    <2>2. v[m] \in some /\ v[m] \notin drop
          BY <1>1, <1>2, <2>1 DEF EndsAt
    <2> QED BY <2>2
  <1> DEFINE w == SubSeq(v, 1, j)
  <1>5. w \in Text /\ Len(w) = j /\ \A k \in 1 .. j : w[k] = v[k]
    <2>1. 1 \in 1 .. Len(v) + 1 /\ j \in 1 - 1 .. Len(v) /\ j - 1 + 1 = j
          BY <1>3
    <2>2. w \in Text /\ Len(w) = j - 1 + 1 /\ \A k \in 1 .. j - 1 + 1 : w[k] = v[1 + k - 1]
          BY <2>1, PartIs
    <2> HIDE DEF w
    <2>3. \A k \in 1 .. j : 1 + k - 1 = k
          BY <1>3
    <2> QED BY <2>1, <2>2, <2>3
  <1> HIDE DEF w
  <1>6. EndsAt(w, drop, m)
    <2>1. m \in 0 .. Len(w) /\ (m # 0 => m \in 1 .. j)
          BY <1>3, <1>4, <1>5
    <2>2. \A k \in m + 1 .. Len(w) : k \in m + 1 .. Len(v) /\ k \in 1 .. j
          BY <1>3, <1>4, <1>5
    <2> QED BY <1>2, <1>5, <2>1, <2>2 DEF EndsAt
  <1>7. RStrip(w, drop) = SubSeq(w, 1, m) /\ RStrip(v, some) = w /\ RStrip(v, drop) = SubSeq(v, 1, m)
        BY <1>1, <1>2, <1>5, <1>6, RStripIs DEF w
  <1>8. SubSeq(w, 1, m) = SubSeq(v, 1, m)
    <2>1. /\ 1 \in 1 .. Len(v) + 1 /\ j \in 1 - 1 .. Len(v)
          /\ 1 \in 1 .. j - 1 + 2 /\ m \in 1 - 1 .. j - 1 + 1
          /\ 1 + 1 - 1 = 1 /\ 1 + m - 1 = m
          BY <1>3, <1>4
    <2>2. SubSeq(SubSeq(v, 1, j), 1, m) = SubSeq(v, 1 + 1 - 1, 1 + m - 1)
          BY <2>1, PartOfPart
    <2> QED BY <2>1, <2>2 DEF w
  <1> QED BY <1>7, <1>8

(* The blanks in front and the ends of a name are stripped in any order.   *)
LEMMA StripCommutes ==
    ASSUME NEW v \in Text
    PROVE  RStrip(Strip(v), Ends) = Strip(RStrip(v, Ends))
  <1>1. PICK i, j : CutAt(v, i, j)
        BY CutExists
  <1>2. PICK m \in 0 .. Len(v) : EndsAt(v, Ends, m)
        BY EndExists
  <1>3. /\ Len(v) \in Nat /\ i \in 1 .. Len(v) + 1 /\ j \in i - 1 .. Len(v)
        /\ i \in Nat /\ j \in Nat /\ m \in Nat /\ m <= Len(v)
        BY <1>1, TextIs DEF CutAt
  <1>4. Strip(v) = SubSeq(v, i, j) /\ RStrip(v, Ends) = SubSeq(v, 1, m)
        BY <1>1, <1>2, StripIs, RStripIs
  <1>5. ASSUME NEW k \in 1 .. Len(v), v[k] = Blank PROVE k # m
    <2>1. v[k] \in Ends
          BY <1>5 DEF Ends
    <2> QED BY <1>2, <2>1 DEF EndsAt
  <1>6. \A k \in 1 .. Len(v) : k < i \/ j < k => v[k] = Blank
    <2>1. \A k \in 1 .. Len(v) : k < i => k \in 1 .. i - 1
          BY <1>3
    <2>2. \A k \in 1 .. Len(v) : j < k => k \in j + 1 .. Len(v)
          BY <1>3
    <2> QED BY <1>1, <2>1, <2>2 DEF CutAt
  <1>7. m = 0 \/ (i <= m /\ m <= j)
        BY <1>3, <1>5, <1>6
  <1> DEFINE s == SubSeq(v, i, j)
             n == j - i + 1
  <1>8. s \in Text /\ Len(s) = n /\ (\A k \in 1 .. n : s[k] = v[i + k - 1]) /\ n \in Nat
        BY <1>3, PartIs
  <1>9. CASE m = 0
    <2>1. \A k \in 1 .. n : i + k - 1 \in m + 1 .. Len(v)
          BY <1>3, <1>9
    <2> HIDE DEF s, n
    <2>2. EndsAt(s, Ends, 0)
          BY <1>2, <1>8, <2>1 DEF EndsAt
    <2>3. RStrip(s, Ends) = SubSeq(s, 1, 0)
          BY <1>8, <2>2, RStripIs
    <2>4. SubSeq(s, 1, 0) = << >> /\ SubSeq(v, 1, 0) = << >>
          BY SubSeqEmpty
    <2>5. << >> \in Text /\ Bare(<< >>)
          BY DEF Text, Bare
    <2>6. Strip(<< >>) = << >>
          BY <2>5, StripBare
    <2>7. RStrip(Strip(v), Ends) = << >>
          BY <1>4, <2>3, <2>4 DEF s
    <2>8. RStrip(v, Ends) = << >>
          BY <1>4, <1>9, <2>4
    <2> QED BY <2>6, <2>7, <2>8
  <1>10. CASE i <= m /\ m <= j
    <2> DEFINE w == SubSeq(v, 1, m)
               q == m - i + 1
    <2>1. w \in Text /\ Len(w) = m /\ \A k \in 1 .. m : w[k] = v[k]
      <3>1. 1 \in 1 .. Len(v) + 1 /\ m \in 1 - 1 .. Len(v) /\ m - 1 + 1 = m
            BY <1>3
      <3>2. w \in Text /\ Len(w) = m - 1 + 1 /\ \A k \in 1 .. m - 1 + 1 : w[k] = v[1 + k - 1]
            BY <3>1, PartIs
      <3> HIDE DEF w
      <3>3. \A k \in 1 .. m : 1 + k - 1 = k
            BY <1>3
      <3> QED BY <3>1, <3>2, <3>3
    <2>2. v[i] # Blank /\ v[m] # Blank
      <3>1. m \in 1 .. Len(v)
            BY <1>3, <1>10
      <3> QED BY <1>1, <1>3, <1>5, <1>10, <3>1 DEF CutAt
    <2>3. q \in 1 .. n /\ i + q - 1 = m /\ \A k \in q + 1 .. n : k \in 1 .. n /\ i + k - 1 \in m + 1 .. Len(v)
          BY <1>3, <1>10
    <2>4. EndsAt(s, Ends, q)
      <3> HIDE DEF s, n, q
      <3>1. s[q] = v[m] /\ v[m] \notin Ends
            BY <1>2, <1>3, <1>8, <1>10, <2>3 DEF EndsAt
      <3>2. q \in 0 .. Len(s)
            BY <1>8, <2>3
      <3> QED BY <1>2, <1>8, <2>3, <3>1, <3>2 DEF EndsAt
    <2>5. RStrip(s, Ends) = SubSeq(s, 1, q)
          BY <1>8, <2>4, RStripIs
    <2>6. SubSeq(s, 1, q) = SubSeq(v, i, m)
      <3>1. 1 \in 1 .. j - i + 2 /\ q \in 1 - 1 .. j - i + 1 /\ i + 1 - 1 = i /\ i + q - 1 = m
            BY <1>3, <1>10
      <3>2. SubSeq(s, 1, q) = SubSeq(v, i + 1 - 1, i + q - 1)
            BY <1>3, <3>1, PartOfPart
      <3> HIDE DEF s, q
      <3> QED BY <3>1, <3>2
    <2>7. Strip(w) = SubSeq(w, i, m)
      <3> HIDE DEF w
      <3>1. CutAt(w, i, m)
        <4>1. /\ i \in 1 .. Len(w) + 1 /\ m \in i - 1 .. Len(w) /\ i \in 1 .. m /\ m \in 1 .. m
              /\ \A k \in 1 .. i - 1 : k \in 1 .. m
              /\ \A k \in m + 1 .. Len(w) : FALSE
              BY <1>3, <1>10, <2>1
        <4>2. \A k \in 1 .. i - 1 : w[k] = Blank
              BY <1>1, <2>1, <4>1 DEF CutAt
        <4> QED BY <2>1, <2>2, <4>1, <4>2 DEF CutAt
      <3> QED BY <2>1, <3>1, StripIs
    <2>8. SubSeq(w, i, m) = SubSeq(v, i, m)
      <3>1. /\ 1 \in 1 .. Len(v) + 1 /\ m \in 1 - 1 .. Len(v)
            /\ i \in 1 .. m - 1 + 2 /\ m \in i - 1 .. m - 1 + 1
            /\ 1 + i - 1 = i /\ 1 + m - 1 = m
            BY <1>3, <1>10
      <3>2. SubSeq(w, i, m) = SubSeq(v, 1 + i - 1, 1 + m - 1)
            BY <3>1, PartOfPart
      <3> HIDE DEF w
      <3> QED BY <3>1, <3>2
    <2> HIDE DEF s, w
    <2> QED BY <1>4, <2>5, <2>6, <2>7, <2>8 DEF s, w
  <1> QED BY <1>7, <1>9, <1>10

(* A value as a host name is stored for a name: it ends with no dot, and   *)
(* its root is that name.                                                  *)
StoredAs(n, name) ==
    /\ n \in Text
    /\ Len(n) # 0 => n[Len(n)] # "."
    /\ Name(n) = name /\ RStrip(n, Ends) = name

LEMMA HostIs ==
    ASSUME NEW v \in Text, NEW t \in HostTypes
    PROVE  StoredAs(Normalize(t, v), Name(v))
  <1> DEFINE l == Lower(v)
             s == Strip(l)
             n == RStrip(s, {"."})
  <1>1. l \in Text /\ Lower(l) = l /\ s = Lower(Strip(v))
        BY LowerIs, LowerTwice, StripLower
  <1>2. Normalize(t, v) = n
        BY <1>1, NormalizeIs
  <1> HIDE DEF l
  <1>3. s \in Text /\ Strip(s) = s /\ Lower(s) = s
        BY <1>1, StripGives, StripLower
  <1> HIDE DEF s
  <1>4. n \in Text /\ (Len(n) # 0 => n[Len(n)] \notin {"."})
        BY <1>3, RStripGives
  <1>5. RStrip(n, Ends) = RStrip(s, Ends)
    <2>1. {"."} \subseteq Ends
          BY DEF Ends
    <2> QED BY <1>3, <2>1, RStripTwice
  <1>6. Lower(n) = n
    <2>1. PICK j \in 0 .. Len(s) : EndsAt(s, {"."}, j)
          BY <1>3, EndExists
    <2>2. n = SubSeq(s, 1, j)
          BY <1>3, <2>1, RStripIs
    <2>3. 1 \in 1 .. Len(s) + 1 /\ j \in 1 - 1 .. Len(s)
      <3>1. Len(s) \in Nat
            BY <1>3, TextIs
      <3> QED BY <3>1
    <2> QED BY <1>3, <2>2, <2>3, LowerPart
  <1> HIDE DEF n
  <1>7. Name(n) = Strip(RStrip(n, Ends))
        BY <1>4, <1>6, StripCommutes DEF Name
  <1>8. RStrip(s, Ends) = Strip(RStrip(l, Ends)) /\ RStrip(l, Ends) \in Text
        BY <1>1, StripCommutes, RStripGives DEF s
  <1>9. Strip(RStrip(s, Ends)) = RStrip(s, Ends)
        BY <1>8, StripGives
  <1>10. Name(v) = RStrip(s, Ends)
         BY DEF Name, l, s
  <1> QED BY <1>2, <1>4, <1>5, <1>7, <1>9, <1>10 DEF StoredAs

(* Of the values stored for one name, all but one are loose.               *)
LEMMA TightIsRoot ==
    ASSUME type \in HostTypes, NEW n, NEW name, StoredAs(n, name), ~ Loose(n)
    PROVE  n = name
  <1>1. n \in Text /\ n = RStrip(n, {Blank})
        BY DEF StoredAs, Loose
  <1>2. Len(n) # 0 => n[Len(n)] \notin {Blank}
    <2> DEFINE w == RStrip(n, {Blank})
    <2>1. Len(w) # 0 => w[Len(w)] \notin {Blank}
          BY <1>1, RStripGives
    <2> QED BY <1>1, <2>1
  <1>3. Len(n) # 0 => n[Len(n)] \notin Ends
        BY <1>2 DEF StoredAs, Ends
  <1>4. RStrip(n, Ends) = n
        BY <1>1, <1>3, RStripNothing
  <1> QED BY <1>4 DEF StoredAs

-----------------------------------------------------------------------------
(* The other spellings of a value are stored as it is.                     *)

(* A letter in its other case.                                             *)
Folded(v, i) == [v EXCEPT ![i] = IF @ = "a" THEN "A" ELSE "a"]

LEMMA FoldedIs ==
    ASSUME NEW v \in Text, NEW i \in 1 .. Len(v), v[i] \in {"a", "A"}
    PROVE  /\ Folded(v, i) \in Text /\ Len(Folded(v, i)) = Len(v)
           /\ Lower(Folded(v, i)) = Lower(v)
           /\ \A k \in 1 .. Len(v) : k # i => Folded(v, i)[k] = v[k]
  <1> DEFINE w == Folded(v, i)
  <1>1. Len(v) \in Nat /\ DOMAIN v = 1 .. Len(v) /\ \A k \in 1 .. Len(v) : v[k] \in Chars
        BY TextIs
  <1> DEFINE n == Len(v)
             u == IF v[i] = "a" THEN "A" ELSE "a"
  <1>2. u \in {"a", "A"} /\ u \in Chars
        BY DEF Chars
  <1>3. v \in [1 .. n -> Chars]
        BY <1>1 DEF Text
  <1>4. w = [v EXCEPT ![i] = u]
        BY DEF Folded
  <1> HIDE DEF u, n, w
  <1>5. /\ w \in [1 .. n -> Chars] /\ DOMAIN w = 1 .. n
        /\ w[i] = u /\ \A k \in 1 .. n : k # i => w[k] = v[k]
        BY <1>2, <1>3, <1>4 DEF n
  <1>6. w \in Text /\ Len(w) = n
        BY <1>1, <1>5 DEF n, Text
  <1>7. /\ Lower(v) \in Text /\ Len(Lower(v)) = n
        /\ \A k \in 1 .. n : Lower(v)[k] = IF v[k] = "A" THEN "a" ELSE v[k]
        BY LowerIs DEF n
  <1>8. /\ Lower(w) \in Text /\ Len(Lower(w)) = n
        /\ \A k \in 1 .. n : Lower(w)[k] = IF w[k] = "A" THEN "a" ELSE w[k]
        BY <1>6, LowerIs
  <1>9. ASSUME NEW k \in 1 .. n PROVE Lower(w)[k] = Lower(v)[k]
    <2>1. CASE k = i
          BY <1>2, <1>5, <1>7, <1>8, <2>1
    <2>2. CASE k # i
          BY <1>5, <1>7, <1>8, <2>2
    <2> QED BY <2>1, <2>2
  <1>10. Lower(w) = Lower(v)
         BY <1>7, <1>8, <1>9, SameText
  <1> QED BY <1>5, <1>6, <1>10 DEF n, w

(* Behind the slash of a service the case means nothing.                   *)
LEMMA FoldedService ==
    ASSUME NEW v \in Text, Slashes(v) # {},
           NEW i \in Min(Slashes(v)) .. Len(v), v[i] \in {"a", "A"}
    PROVE  Normalize("service", Folded(v, i)) = Normalize("service", v)
  <1> DEFINE w == Folded(v, i)
  <1>1. PICK p \in 1 .. Len(v) : SlashAt(v, p)
        BY SlashExists
  <1>2. /\ Min(Slashes(v)) = p
        /\ Before1st(v) = SubSeq(v, 1, p - 1) /\ After1st(v) = SubSeq(v, p + 1, Len(v))
        BY <1>1, SplitAt
  <1>3. Len(v) \in Nat
        BY TextIs
  <1>4. i \in 1 .. Len(v) /\ p <= i
        BY <1>2, <1>3
  <1>5. /\ w \in Text /\ Len(w) = Len(v) /\ Lower(w) = Lower(v)
        /\ \A k \in 1 .. Len(v) : k # i => w[k] = v[k]
        BY <1>4, FoldedIs
  <1> HIDE DEF w
  <1>6. p # i
        BY <1>1 DEF SlashAt
  <1>7. \A k \in 1 .. p : w[k] = v[k]
    <2>1. \A k \in 1 .. p : k \in 1 .. Len(v) /\ k # i
          BY <1>3, <1>4, <1>6
    <2> QED BY <1>5, <2>1
  <1>8. SlashAt(w, p)
    <2>1. p \in 1 .. p /\ \A k \in 1 .. p - 1 : k \in 1 .. p
          BY <1>3
    <2>2. w[p] = "/" /\ \A k \in 1 .. p - 1 : w[k] # "/"
          BY <1>1, <1>7, <2>1 DEF SlashAt
    <2> QED BY <1>5, <2>2 DEF SlashAt
  <1>9. /\ Slashes(w) # {}
        /\ Before1st(w) = SubSeq(w, 1, p - 1) /\ After1st(w) = SubSeq(w, p + 1, Len(w))
        BY <1>5, <1>8, SplitAt
  <1> DEFINE b == SubSeq(v, 1, p - 1)
             c == SubSeq(w, 1, p - 1)
             a == SubSeq(v, p + 1, Len(v))
             d == SubSeq(w, p + 1, Len(v))
  <1>10. /\ 1 \in 1 .. Len(v) + 1 /\ p - 1 \in 1 - 1 .. Len(v) /\ p - 1 - 1 + 1 = p - 1
         /\ p + 1 \in 1 .. Len(v) + 1 /\ Len(v) \in (p + 1) - 1 .. Len(v)
         BY <1>3
  <1>11. b \in Text /\ Len(b) = p - 1 - 1 + 1 /\ \A k \in 1 .. p - 1 - 1 + 1 : b[k] = v[1 + k - 1]
         BY <1>10, PartIs
  <1>12. c \in Text /\ Len(c) = p - 1 - 1 + 1 /\ \A k \in 1 .. p - 1 - 1 + 1 : c[k] = w[1 + k - 1]
    <2>1. 1 \in 1 .. Len(w) + 1 /\ p - 1 \in 1 - 1 .. Len(w)
          BY <1>5, <1>10
    <2> QED BY <1>5, <2>1, PartIs
  <1>13. p + 1 \in 1 .. Len(w) + 1 /\ Len(v) \in (p + 1) - 1 .. Len(w)
         BY <1>5, <1>10
  <1>20. a \in Text /\ d \in Text
         BY <1>5, <1>10, <1>13, PartIs
  <1>14. Lower(a) = SubSeq(Lower(v), p + 1, Len(v)) /\ Lower(d) = SubSeq(Lower(w), p + 1, Len(v))
         BY <1>5, <1>10, <1>13, LowerPart
  <1> HIDE DEF a, b, c, d
  <1>15. b = c
    <2>1. \A k \in 1 .. p - 1 : 1 + k - 1 = k /\ k \in 1 .. p
          BY <1>3
    <2>2. \A k \in 1 .. Len(b) : b[k] = c[k]
          BY <1>7, <1>10, <1>11, <1>12, <2>1
    <2> QED BY <1>11, <1>12, <2>2, SameText
  <1>16. Lower(Strip(a)) = Lower(Strip(d))
    <2>1. Lower(a) = Lower(d)
          BY <1>5, <1>14
    <2>2. Strip(Lower(a)) = Lower(Strip(a)) /\ Strip(Lower(d)) = Lower(Strip(d))
          BY <1>20, StripLower
    <2> QED BY <2>1, <2>2
  <1>17. /\ Before1st(v) = b /\ After1st(v) = a
         /\ Before1st(w) = c /\ After1st(w) = d
         BY <1>2, <1>5, <1>9 DEF a, b, c, d
  <1>18. Normalize("service", v) = Strip(b) \o <<"/">> \o Lower(Strip(a))
         BY <1>17, NormalizeService
  <1>19. Normalize("service", w) = Strip(c) \o <<"/">> \o Lower(Strip(d))
         BY <1>5, <1>9, <1>17, NormalizeService
  <1> QED BY <1>15, <1>16, <1>18, <1>19 DEF w

LEMMA LowerJoined ==
    ASSUME NEW v \in Text
    PROVE  Lower(v \o <<".">>) = Lower(v) \o <<".">>
  <1> DEFINE d == <<".">>
             w == v \o d
             l == Lower(v)
             x == Lower(w)
             y == l \o d
  <1>1. d \in Text /\ Len(d) = 1 /\ d[1] = "." /\ Len(v) \in Nat
        BY TextIs DEF Text, Chars
  <1> HIDE DEF d
  <1>2. /\ w \in Text /\ Len(w) = Len(v) + Len(d)
        /\ \A k \in 1 .. Len(v) : w[k] = v[k]
        /\ \A k \in 1 .. Len(d) : w[Len(v) + k] = d[k]
        BY <1>1, JoinIs
  <1>3. l \in Text /\ Len(l) = Len(v) /\ \A k \in 1 .. Len(v) : l[k] = IF v[k] = "A" THEN "a" ELSE v[k]
        BY LowerIs
  <1> HIDE DEF w, l
  <1>4. x \in Text /\ Len(x) = Len(w) /\ \A k \in 1 .. Len(w) : x[k] = IF w[k] = "A" THEN "a" ELSE w[k]
        BY <1>2, LowerIs
  <1>5. /\ y \in Text /\ Len(y) = Len(l) + Len(d)
        /\ \A k \in 1 .. Len(l) : y[k] = l[k]
        /\ \A k \in 1 .. Len(d) : y[Len(l) + k] = d[k]
        BY <1>1, <1>3, JoinIs
  <1> HIDE DEF x, y
  <1>6. ASSUME NEW k \in 1 .. Len(x) PROVE x[k] = y[k]
    <2>1. CASE k <= Len(v)
      <3>1. k \in 1 .. Len(v) /\ k \in 1 .. Len(w) /\ k \in 1 .. Len(l)
            BY <1>1, <1>2, <1>3, <1>4, <2>1
      <3> QED BY <1>2, <1>3, <1>4, <1>5, <3>1
    <2>2. CASE ~ (k <= Len(v))
      <3>1. k = Len(v) + 1 /\ 1 \in 1 .. Len(d) /\ k \in 1 .. Len(w)
            BY <1>1, <1>2, <1>4, <2>2
      <3>2. y[Len(l) + 1] = d[1] /\ w[Len(v) + 1] = d[1]
            BY <1>2, <1>5, <3>1
      <3>3. w[k] = "." /\ y[k] = "."
            BY <1>1, <1>3, <3>1, <3>2
      <3>4. x[k] = w[k]
            BY <1>4, <3>1, <3>3
      <3> QED BY <3>3, <3>4
    <2> QED BY <2>1, <2>2
  <1>7. x = y
        BY <1>2, <1>3, <1>4, <1>5, <1>6, SameText
  <1> QED BY <1>7 DEF x, y, w, l, d

LEMMA SlashlessIs ==
    ASSUME NEW v \in Text
    PROVE  Slashless(v) <=> Slashes(v) = {}
  <1>1. DOMAIN v = 1 .. Len(v)
        BY TextIs
  <1> QED BY <1>1 DEF Slashes, Slashless

(* A change of case that _normalize takes back.                            *)
LEMMA FoldSame ==
    ASSUME type \in AssetTypes, NEW v \in Text,
           NEW i \in FoldsCase(v), v[i] \in {"a", "A"}
    PROVE  /\ Folded(v, i) \in Text
           /\ Normalize(type, Folded(v, i)) = Normalize(type, v)
           /\ type \in HostTypes => Name(Folded(v, i)) = Name(v)
  <1> DEFINE w == Folded(v, i)
             H == type \in HostTypes
             D == DOMAIN v
             E == Slashes(v) # {}
             M == Min(Slashes(v)) .. Len(v)
  <1>1. FoldsCase(v) = CASE type \in HostTypes \cup {"technology"} -> D
                         [] type = "service" /\ E -> M
                         [] OTHER -> {}
        BY DEF FoldsCase
  <1> HIDE DEF D, E, M
  <1>2. \/ H /\ i \in D
        \/ type = "technology" /\ i \in D
        \/ type = "service" /\ E /\ i \in M
        BY <1>1 DEF HostTypes
  <1>3. i \in 1 .. Len(v)
    <2>1. D = 1 .. Len(v) /\ Len(v) \in Nat
          BY TextIs DEF D
    <2>2. ASSUME E, i \in M PROVE i \in 1 .. Len(v)
      <3>1. PICK p \in 1 .. Len(v) : SlashAt(v, p)
            BY <2>2, SlashExists DEF E
      <3>2. Min(Slashes(v)) = p
            BY <3>1, SplitAt
      <3> QED BY <2>1, <2>2, <3>2 DEF M
    <2> QED BY <1>2, <2>1, <2>2
  <1>4. w \in Text /\ Lower(w) = Lower(v)
        BY <1>3, FoldedIs
  <1> HIDE DEF w
  <1>5. Lower(Strip(w)) = Lower(Strip(v))
        BY <1>4, StripLower
  <1>6. Strip(v) \in Text /\ Strip(w) \in Text
        BY <1>4, StripGives
  <1>7. Name(w) = Name(v)
        BY <1>4 DEF Name
  <1>8. Normalize(type, w) = Normalize(type, v)
    <2>1. CASE H
          BY <1>5, <2>1, NormalizeIs
    <2>2. CASE type = "technology"
          BY <1>5, <2>2, NormalizeIs
    <2>3. CASE type = "service" /\ E /\ i \in M
      <3>1. Normalize("service", w) = Normalize("service", v)
            BY <2>3, FoldedService DEF E, M, w
      <3> QED BY <2>3, <3>1
    <2> QED BY <1>2, <2>1, <2>2, <2>3
  <1> QED BY <1>4, <1>7, <1>8 DEF w

(* The dot of the root, behind blanks or not.                              *)
LEMMA DotSame ==
    ASSUME NEW v \in Text
    PROVE  v \o <<".">> \in Text /\ Name(v \o <<".">>) = Name(v)
  <1> DEFINE l == Lower(v)
             w == v \o <<".">>
  <1>1. "." \in Chars /\ "." \in Ends
        BY DEF Chars, Ends
  <1>2. w \in Text /\ l \in Text /\ Lower(w) = l \o <<".">>
        BY <1>1, RStripMore, LowerIs, LowerJoined
  <1>3. l \o <<".">> \in Text /\ RStrip(l \o <<".">>, Ends) = RStrip(l, Ends)
        BY <1>1, <1>2, RStripMore
  <1> HIDE DEF l, w
  <1>4. Name(w) = Strip(RStrip(l \o <<".">>, Ends)) /\ Name(v) = Strip(RStrip(l, Ends))
    <2>1. Name(v) = RStrip(Strip(l), Ends)
          BY DEF Name, l
    <2>2. Name(w) = RStrip(Strip(l \o <<".">>), Ends)
          BY <1>2 DEF Name
    <2> QED BY <1>2, <1>3, <2>1, <2>2, StripCommutes
  <1> QED BY <1>2, <1>3, <1>4 DEF w

LEMMA PairIs ==
    ASSUME NEW x, NEW y
    PROVE  <<x>> \o <<y>> = <<x, y>>
  <1> DEFINE S == {x, y}
             v == <<x>>
             w == <<y>>
             u == <<x, y>>
  <1>1. /\ v \in Seq(S) /\ Len(v) = 1 /\ v[1] = x
        /\ w \in Seq(S) /\ Len(w) = 1 /\ w[1] = y
        /\ u \in Seq(S) /\ Len(u) = 2 /\ u[1] = x /\ u[2] = y
        OBVIOUS
  <1> HIDE DEF S, v, w, u
  <1>2. /\ v \o w \in Seq(S) /\ Len(v \o w) = Len(v) + Len(w)
        /\ \A i \in 1 .. Len(v) + Len(w) : (v \o w)[i] = IF i <= Len(v) THEN v[i] ELSE w[i - Len(v)]
        BY <1>1, ConcatProperties
  <1> DEFINE t == v \o w
  <1>3. Len(t) = 2 /\ \A i \in 1 .. 2 : t[i] = u[i]
    <2>1. (v \o w)[1] = v[1] /\ (v \o w)[2] = w[1]
          BY <1>1, <1>2
    <2>2. \A i \in 1 .. 2 : i = 1 \/ i = 2
          OBVIOUS
    <2> QED BY <1>1, <1>2, <2>1, <2>2
  <1>4. t \in Seq(S)
        BY <1>2
  <1> HIDE DEF t
  <1>5. t = u
        BY <1>1, <1>3, <1>4, SeqEqual
  <1> QED BY <1>5 DEF t, v, w, u

LEMMA JoinAssociative ==
    ASSUME NEW u \in Text, NEW v \in Text, NEW w \in Text
    PROVE  (u \o v) \o w = u \o (v \o w)
  BY ConcatAssociative DEF Text

(* Blanks around the slash of a service.                                   *)
LEMMA SlashSame ==
    ASSUME NEW v \in Text, Slashes(v) # {},
           NEW b \in {<<Blank, "/">>, <<"/", Blank>>},
           NEW w, w = Before1st(v) \o b \o After1st(v)
    PROVE  w \in Text /\ Normalize("service", w) = Normalize("service", v)
  <1> DEFINE f == Before1st(v)
             a == After1st(v)
             e == <<Blank>>
             s == <<"/">>
  <1>1. f \in Text /\ Slashless(f) /\ a \in Text
        BY SplitGives
  <1>2. Normalize("service", v) = Strip(f) \o <<"/">> \o Lower(Strip(a))
        BY NormalizeService
  <1>3. e \in Text /\ s \in Text
        BY DEF Text, Chars
  <1>6. e \o s = <<Blank, "/">> /\ s \o e = <<"/", Blank>>
        BY PairIs
  <1> HIDE DEF f, a
  <1>4. CASE b = <<Blank, "/">>
    <2>1. (f \o e) \o s = f \o (e \o s)
          BY <1>1, <1>3, JoinAssociative
    <2>2. f \o e \in Text /\ Strip(f \o e) = Strip(f)
          BY <1>1, StripPadded
    <2>3. w = (f \o e) \o s \o a
      <3>1. w = f \o b \o a
            BY DEF f, a
      <3>2. b = e \o s
            BY <1>6, <1>4
      <3> HIDE DEF e, s
      <3> QED BY <2>1, <3>1, <3>2
    <2>4. Slashless(f \o e)
      <3>1. e \in Text /\ Len(e) = 1 /\ e[1] = Blank /\ Len(f) \in Nat
            BY <1>1, <1>3, TextIs
      <3> HIDE DEF e
      <3> DEFINE x == f \o e
      <3>2. /\ x \in Text /\ Len(x) = Len(f) + Len(e)
            /\ \A k \in 1 .. Len(f) : x[k] = f[k]
            /\ \A k \in 1 .. Len(e) : x[Len(f) + k] = e[k]
            BY <1>1, <3>1, JoinIs
      <3> HIDE DEF x
      <3>3. ASSUME NEW k \in 1 .. Len(x) PROVE x[k] # "/"
        <4>1. CASE k <= Len(f)
          <5>1. k \in 1 .. Len(f)
                BY <3>1, <4>1
          <5> QED BY <1>1, <3>2, <5>1 DEF Slashless
        <4>2. CASE ~ (k <= Len(f))
          <5>1. k = Len(f) + 1 /\ 1 \in 1 .. Len(e)
                BY <3>1, <3>2, <4>2
          <5>2. x[k] = e[1]
                BY <3>2, <5>1
          <5> QED BY <3>1, <5>2, NotASlash
        <4> QED BY <4>1, <4>2
      <3>4. Slashless(x)
            BY <3>3 DEF Slashless
      <3> QED BY <3>4 DEF x, e
    <2>5. w \in Text /\ Slashes(w) # {} /\ Before1st(w) = f \o e /\ After1st(w) = a
          BY <1>1, <2>2, <2>3, <2>4, SplitJoined
    <2> QED BY <1>2, <2>2, <2>5, NormalizeService
  <1>5. CASE b = <<"/", Blank>>
    <2>1. f \o s \in Text
          BY <1>1, <1>3, JoinIs
    <2>2. f \o (s \o e) = (f \o s) \o e /\ ((f \o s) \o e) \o a = (f \o s) \o (e \o a)
      <3> HIDE DEF e, s
      <3> DEFINE g == f \o s
      <3>1. g \o e = f \o (s \o e)
            BY <1>1, <1>3, JoinAssociative
      <3> HIDE DEF g
      <3>2. g \in Text
            BY <2>1 DEF g
      <3>3. (g \o e) \o a = g \o (e \o a)
            BY <1>1, <1>3, <3>2, JoinAssociative
      <3> QED BY <3>1, <3>3 DEF g
    <2>3. e \o a \in Text /\ Strip(e \o a) = Strip(a)
          BY <1>1, StripPadded
    <2>4. w = f \o s \o (e \o a)
      <3>1. w = f \o b \o a
            BY DEF f, a
      <3>2. b = s \o e
            BY <1>6, <1>5
      <3> HIDE DEF e, s
      <3> QED BY <2>2, <3>1, <3>2
    <2>5. w \in Text /\ Slashes(w) # {} /\ Before1st(w) = f /\ After1st(w) = e \o a
          BY <1>1, <2>3, <2>4, SplitJoined
    <2> QED BY <1>2, <2>3, <2>5, NormalizeService
  <1> QED BY <1>4, <1>5

(* Another text of an address.                                             *)
LEMMA AddressSame ==
    ASSUME type = "ip_address", NEW v \in Text, IsAddress(v), NEW w \in TextsOf(AddressOf[Strip(v)])
    PROVE  w \in Text /\ Normalize(type, w) = Normalize(type, v)
  <1>1. /\ w \in DOMAIN AddressOf /\ AddressOf[w] = AddressOf[Strip(v)]
        /\ Strip(v) \in DOMAIN AddressOf
        BY DEF TextsOf, IsAddress
  <1>2. w \in Text /\ \A i \in DOMAIN w : w[i] # Blank
        BY <1>1, AddressAssumption DEF Text
  <1>3. Strip(w) = w
    <2>1. Len(w) \in Nat /\ DOMAIN w = 1 .. Len(w)
          BY <1>2, TextIs
    <2>2. Bare(w)
          BY <1>2, <2>1 DEF Bare
    <2> QED BY <1>2, <2>2, StripBare
  <1>4. /\ Normalize(type, w) = TextOf[AddressOf[w]]
        /\ Normalize(type, v) = TextOf[AddressOf[Strip(v)]]
        BY <1>1, <1>3, NormalizeIs
  <1> QED BY <1>1, <1>2, <1>4

(* Every other spelling of a host name has the same name, and every other  *)
(* spelling of anything else is stored under the same value.               *)
LEMMA SpellingSame ==
    ASSUME type \in AssetTypes, NEW v \in Text, NEW w \in Respellings(v)
    PROVE  /\ w \in Text
           /\ type \in HostTypes => Name(w) = Name(v)
           /\ type \notin HostTypes => Normalize(type, w) = Normalize(type, v)
  <1> DEFINE Padded == {<<Blank>> \o v, v \o <<Blank>>}
             Cased == {Folded(v, i) : i \in {j \in FoldsCase(v) : v[j] \in {"a", "A"}}}
             Dotted == IF type \in HostTypes THEN {v \o <<".">>} ELSE {}
             Parsed == IF IsAddress(v) THEN TextsOf(AddressOf[Strip(v)]) ELSE {}
             Spaced == IF type = "service" /\ Slashes(v) # {}
                       THEN {Before1st(v) \o b \o After1st(v) : b \in {<<Blank, "/">>, <<"/", Blank>>}}
                       ELSE {}
  <1>1. Respellings(v) = Padded \cup Cased \cup Dotted \cup Parsed \cup Spaced
        BY DEF Respellings, Folded
  <1> HIDE DEF Padded, Cased, Dotted, Parsed, Spaced
  <1>2. w \in Padded \/ w \in Cased \/ w \in Dotted \/ w \in Parsed \/ w \in Spaced
        BY <1>1
  <1>3. CASE w \in Padded
    <2>1. w \in Text /\ Strip(w) = Strip(v)
          BY <1>3, StripPadded DEF Padded
    <2>2. Normalize(type, w) = Normalize(type, v)
          BY <2>1 DEF Normalize
    <2>3. Name(w) = Name(v)
      <3>1. Strip(Lower(w)) = Lower(Strip(w)) /\ Strip(Lower(v)) = Lower(Strip(v))
            BY <2>1, StripLower
      <3> QED BY <2>1, <3>1 DEF Name
    <2> QED BY <2>1, <2>2, <2>3
  <1>4. CASE w \in Cased
    <2>1. PICK i \in FoldsCase(v) : v[i] \in {"a", "A"} /\ w = Folded(v, i)
          BY <1>4 DEF Cased
    <2> QED BY <2>1, FoldSame
  <1>5. CASE w \in Dotted
    <2>1. type \in HostTypes /\ w = v \o <<".">>
          BY <1>5 DEF Dotted
    <2> QED BY <2>1, DotSame
  <1>6. CASE w \in Parsed
    <2>1. IsAddress(v) /\ w \in TextsOf(AddressOf[Strip(v)]) /\ type = "ip_address"
          BY <1>6 DEF Parsed, IsAddress
    <2> QED BY <2>1, AddressSame DEF HostTypes
  <1>7. CASE w \in Spaced
    <2>1. type = "service" /\ Slashes(v) # {}
          BY <1>7 DEF Spaced
    <2>2. PICK b \in {<<Blank, "/">>, <<"/", Blank>>} : w = Before1st(v) \o b \o After1st(v)
          BY <1>7, <2>1 DEF Spaced
    <2>3. w \in Text /\ Normalize("service", w) = Normalize("service", v)
          BY <2>1, <2>2, SlashSame
    <2> QED BY <2>1, <2>3 DEF HostTypes
  <1> QED BY <1>2, <1>3, <1>4, <1>5, <1>6, <1>7

-----------------------------------------------------------------------------
(* A stored value is stored as it is, unless it is a host name.            *)

LEMMA AddressSettled ==
    ASSUME NEW v \in Text, Strip(v) \in DOMAIN AddressOf,
           NEW n, n = Normalize("ip_address", v)
    PROVE  /\ n \in Text /\ Normalize("ip_address", n) = n
           /\ n \in DOMAIN AddressOf /\ AddressOf[n] = AddressOf[Strip(v)]
  <1>1. n = TextOf[AddressOf[Strip(v)]]
        BY NormalizeIs
  <1>2. n \in DOMAIN AddressOf /\ AddressOf[n] = AddressOf[Strip(v)]
        BY <1>1, AddressAssumption
  <1>3. n \in Text /\ \A i \in DOMAIN n : n[i] # Blank
        BY <1>2, AddressAssumption DEF Text
  <1>4. Strip(n) = n
    <2>1. Len(n) \in Nat /\ DOMAIN n = 1 .. Len(n)
          BY <1>3, TextIs
    <2>2. Bare(n)
          BY <1>3, <2>1 DEF Bare
    <2> QED BY <1>3, <2>2, StripBare
  <1>5. Normalize("ip_address", n) = TextOf[AddressOf[n]]
        BY <1>2, <1>4, NormalizeIs
  <1> QED BY <1>1, <1>2, <1>3, <1>5

LEMMA Settled ==
    ASSUME NEW t \in AssetTypes, t \notin HostTypes, NEW v \in Text, NEW n, n = Normalize(t, v)
    PROVE  n \in Text /\ Normalize(t, n) = n
  <1> DEFINE s == Strip(v)
  <1>1. s \in Text /\ Strip(s) = s
        BY StripGives
  <1>2. Lower(s) \in Text /\ Lower(Lower(s)) = Lower(s) /\ Strip(Lower(s)) = Lower(s)
        BY <1>1, LowerIs, LowerTwice, StripLower
  <1>4. CASE t = "technology"
    <2>1. n = Lower(s)
          BY <1>4, NormalizeIs
    <2>2. Normalize(t, n) = Lower(Strip(n))
          BY <1>4, NormalizeIs
    <2> HIDE DEF s
    <2> QED BY <1>2, <1>4, <2>1, <2>2
  <1>5. CASE t = "ip_address"
    <2>1. CASE s \in DOMAIN AddressOf
          BY <1>5, <2>1, AddressSettled
    <2>2. CASE s \notin DOMAIN AddressOf
      <3>1. n = s /\ Normalize(t, n) = IF Strip(n) \in DOMAIN AddressOf
                                       THEN TextOf[AddressOf[Strip(n)]] ELSE Strip(n)
            BY <1>5, <2>2, NormalizeIs
      <3> HIDE DEF s
      <3> QED BY <1>1, <2>2, <3>1
    <2> QED BY <2>1, <2>2
  <1>6. CASE t = "certificate"
    <2>1. n = s /\ Normalize(t, n) = Strip(n)
          BY <1>6, NormalizeIs
    <2> QED BY <1>1, <1>6, <2>1
  <1>7. CASE t = "service"
    <2>1. CASE Slashes(v) = {}
      <3>1. n = s
            BY <1>7, <2>1, NormalizeService
      <3>2. Slashes(s) = {}
            BY <2>1, StripSlashless
      <3>3. Normalize(t, s) = Strip(s)
            BY <1>1, <1>7, <3>2, NormalizeService
      <3> QED BY <1>1, <1>7, <3>1, <3>3
    <2>2. CASE Slashes(v) # {}
      <3> DEFINE f == Strip(Before1st(v))
                 b == Strip(After1st(v))
                 a == Lower(b)
      <3>1. n = f \o <<"/">> \o a
            BY <1>7, <2>2, NormalizeService
      <3>2. Before1st(v) \in Text /\ Slashless(Before1st(v)) /\ After1st(v) \in Text
            BY <2>2, SplitGives
      <3>3. /\ f \in Text /\ Strip(f) = f
            /\ b \in Text /\ Strip(b) = b
            BY <3>2, StripGives
      <3>4. Slashless(f)
            BY <3>2, <3>3, SlashlessIs, StripSlashless
      <3> HIDE DEF f, b
      <3>5. a \in Text /\ Strip(a) = a /\ Lower(a) = a
            BY <3>3, LowerIs, LowerTwice, StripLower
      <3> HIDE DEF a
      <3>6. n \in Text /\ Slashes(n) # {} /\ Before1st(n) = f /\ After1st(n) = a
            BY <3>1, <3>3, <3>4, <3>5, SplitJoined
      <3>7. Normalize(t, n) = Strip(f) \o <<"/">> \o Lower(Strip(a))
            BY <1>7, <3>6, NormalizeService
      <3>8. Normalize(t, n) = n
            BY <3>1, <3>3, <3>5, <3>7
      <3> QED BY <1>7, <3>6, <3>8
    <2> QED BY <2>1, <2>2
  <1>8. t \in {"technology", "ip_address", "certificate", "service"}
        BY DEF AssetTypes, HostTypes
  <1> QED BY <1>4, <1>5, <1>6, <1>7, <1>8

-----------------------------------------------------------------------------
(* The inductive invariant: of a host name, whatever is stored has the name*)
(* of the last report; of anything else the one value under which the last *)
(* report is stored.                                                       *)
SpellInv ==
    /\ type \in AssetTypes
    /\ value \in Text /\ Accepted(value)
    /\ type \in HostTypes => \A n \in stored : StoredAs(n, Name(value))
    /\ type \notin HostTypes => stored = {Normalize(type, value)}

LEMMA SpellInit == Init => SpellInv
  <1> SUFFICES ASSUME Init PROVE SpellInv
      OBVIOUS
  <1>1. value \in Values(MaxSent) /\ Accepted(value) /\ type \in AssetTypes
        BY DEF Init
  <1>2. PICK m \in 1 .. MaxSent : value \in [1 .. m -> Chars]
        BY <1>1 DEF Values
  <1>3. value \in Text
    <2>1. m \in Nat
          BY LengthAssumption
    <2> QED BY <1>2, <2>1 DEF Text
  <1>4. stored = {Normalize(type, value)}
        BY DEF Init
  <1>5. type \in HostTypes => StoredAs(Normalize(type, value), Name(value))
        BY <1>3, HostIs
  <1> QED BY <1>1, <1>3, <1>4, <1>5 DEF SpellInv

(* A report under a spelling of the same thing.                            *)
LEMMA ReportSame ==
    ASSUME SpellInv, NEW v \in Text, Report(v),
           type \in HostTypes => Name(v) = Name(value),
           type \notin HostTypes => Normalize(type, v) = Normalize(type, value)
    PROVE  SpellInv'
  <1>1. value' = v /\ type' = type /\ stored' = stored \cup {Normalize(type, v)} /\ Accepted(v)
        BY DEF Report
  <1>2. ASSUME type \in HostTypes PROVE \A n \in stored' : StoredAs(n, Name(v))
    <2>1. StoredAs(Normalize(type, v), Name(v))
          BY <1>2, HostIs
    <2> QED BY <1>1, <1>2, <2>1 DEF SpellInv
  <1>3. type \notin HostTypes => stored' = {Normalize(type, v)}
        BY <1>1 DEF SpellInv
  <1>4. type' \in AssetTypes /\ value' \in Text /\ Accepted(value')
        BY <1>1 DEF SpellInv
  <1>5. /\ type' \in HostTypes => \A n \in stored' : StoredAs(n, Name(value'))
        /\ type' \notin HostTypes => stored' = {Normalize(type', value')}
        BY <1>1, <1>2, <1>3
  <1> QED BY <1>4, <1>5 DEF SpellInv

LEMMA SpellNext == SpellInv /\ [Next]_vars => SpellInv'
  <1> SUFFICES ASSUME SpellInv, [Next]_vars PROVE SpellInv'
      OBVIOUS
  <1>1. /\ type \in AssetTypes /\ value \in Text /\ Accepted(value)
        /\ type \in HostTypes => \A n \in stored : StoredAs(n, Name(value))
        /\ type \notin HostTypes => stored = {Normalize(type, value)}
        BY DEF SpellInv
  <1>2. CASE Respell
    <2>1. PICK v \in {value} \cup Respellings(value) : Report(v)
          BY <1>2 DEF Respell
    <2>2. CASE v = value
          BY <1>1, <2>1, <2>2, ReportSame
    <2>3. CASE v \in Respellings(value)
      <3>1. /\ v \in Text
            /\ type \in HostTypes => Name(v) = Name(value)
            /\ type \notin HostTypes => Normalize(type, v) = Normalize(type, value)
            BY <1>1, <2>3, SpellingSame
      <3> QED BY <2>1, <3>1, ReportSame
    <2> QED BY <2>1, <2>2, <2>3
  <1>3. CASE Reimport
    <2>1. PICK v \in stored : Report(v)
          BY <1>3 DEF Reimport
    <2>2. CASE type \in HostTypes
      <3>1. v \in Text /\ Name(v) = Name(value)
            BY <1>1, <2>1, <2>2 DEF StoredAs
      <3> QED BY <2>1, <2>2, <3>1, ReportSame
    <2>3. CASE type \notin HostTypes
      <3>1. v = Normalize(type, value)
            BY <1>1, <2>1, <2>3
      <3>2. v \in Text /\ Normalize(type, v) = v
            BY <1>1, <2>3, <3>1, Settled
      <3> QED BY <2>1, <2>3, <3>1, <3>2, ReportSame
    <2> QED BY <2>2, <2>3
  <1>4. CASE UNCHANGED vars
    <2>1. type' = type /\ value' = value /\ stored' = stored
          BY <1>4 DEF vars
    <2> QED BY <1>1, <2>1 DEF SpellInv, Accepted
  <1> QED BY <1>2, <1>3, <1>4 DEF Next

(* However the thing is reported, the store holds the normal form of the   *)
(* last report and nothing else; of a host name it holds values of the     *)
(* name that was reported, none with a dot at its end                      *)
(* (app/services/import_pipeline.py:196-222).                              *)
THEOREM SpellInvariant == Spec => []SpellInv
  BY SpellInit, SpellNext, PTL DEF Spec

(* However often a thing is reported and in how many spellings, of texts   *)
(* of any length, it stays one asset, save for the host names that end with*)
(* a blank where the root's dots were, and those have the root in common   *)
(* (_normalize, app/services/import_pipeline.py:196-222).                  *)
THEOREM SpellingsStayOneAsset == Spec => []OneAsset
  <1>1. ASSUME SpellInv, NEW m \in stored, NEW n \in stored
        PROVE  Root(m) = Root(n) /\ (m = n \/ Loose(m) \/ Loose(n))
    <2>1. CASE type \in HostTypes
      <3>1. StoredAs(m, Name(value)) /\ StoredAs(n, Name(value))
            BY <1>1, <2>1 DEF SpellInv
      <3>2. Root(m) = Name(value) /\ Root(n) = Name(value)
            BY <2>1, <3>1 DEF StoredAs, Root, Ends
      <3>3. ASSUME ~ Loose(m), ~ Loose(n) PROVE m = n
            BY <2>1, <3>1, <3>3, TightIsRoot
      <3> QED BY <3>2, <3>3
    <2>2. CASE type \notin HostTypes
          BY <1>1, <2>2 DEF SpellInv
    <2> QED BY <2>1, <2>2
  <1>2. SpellInv => OneAsset
        BY <1>1 DEF OneAsset
  <1> QED BY <1>2, SpellInvariant, PTL

-----------------------------------------------------------------------------
(* What a spelling loses.                                                  *)

LEMMA TrimmedStrip ==
    ASSUME NEW v \in Text
    PROVE  Trimmed(v, Strip(v), {Blank})
  <1>1. PICK i, j : CutAt(v, i, j)
        BY CutExists
  <1>2. Len(v) \in Nat /\ i \in 1 .. Len(v) + 1 /\ j \in i - 1 .. Len(v)
        BY <1>1, TextIs DEF CutAt
  <1>3. j \in 0 .. Len(v)
        BY <1>2
  <1>4. Strip(v) = SubSeq(v, i, j)
        BY <1>1, StripIs
  <1>5. (\A k \in 1 .. i - 1 : v[k] = Blank) /\ (\A k \in j + 1 .. Len(v) : v[k] \in {Blank})
        BY <1>1 DEF CutAt
  <1> QED BY <1>2, <1>3, <1>4, <1>5 DEF Trimmed

LEMMA TrimmedHost ==
    ASSUME NEW v \in Text
    PROVE  Trimmed(v, RStrip(Strip(v), Ends), {Blank, "."})
  <1>1. PICK i, j : CutAt(v, i, j)
        BY CutExists
  <1>2. Len(v) \in Nat /\ i \in 1 .. Len(v) + 1 /\ j \in i - 1 .. Len(v)
        BY <1>1, TextIs DEF CutAt
  <1> DEFINE s == SubSeq(v, i, j)
             n == j - i + 1
  <1>3. Strip(v) = s
        BY <1>1, StripIs
  <1>4. s \in Text /\ Len(s) = n /\ \A k \in 1 .. n : s[k] = v[i + k - 1]
        BY <1>2, PartIs
  <1>5. PICK m \in 0 .. Len(s) : EndsAt(s, Ends, m)
        BY <1>4, EndExists
  <1>6. RStrip(s, Ends) = SubSeq(s, 1, m)
        BY <1>4, <1>5, RStripIs
  <1>7. /\ m \in 0 .. n /\ 1 \in 1 .. j - i + 2 /\ m \in 1 - 1 .. j - i + 1
        /\ i + 1 - 1 = i
        BY <1>2, <1>4
  <1>8. SubSeq(s, 1, m) = SubSeq(v, i + 1 - 1, i + m - 1)
        BY <1>2, <1>7, PartOfPart
  <1> HIDE DEF s
  <1>9. RStrip(Strip(v), Ends) = SubSeq(v, i, i + m - 1)
        BY <1>3, <1>6, <1>7, <1>8
  <1>10. i + m - 1 \in 0 .. Len(v)
         BY <1>2, <1>7
  <1>11. ASSUME NEW k \in i + m - 1 + 1 .. Len(v) PROVE v[k] \in {Blank, "."}
    <2>1. CASE j < k
      <3>1. k \in j + 1 .. Len(v)
            BY <1>2, <2>1
      <3> QED BY <1>1, <3>1 DEF CutAt
    <2>2. CASE ~ (j < k)
      <3>1. k - i + 1 \in m + 1 .. n /\ k - i + 1 \in 1 .. n /\ i + (k - i + 1) - 1 = k
            BY <1>2, <1>7, <2>2
      <3>2. s[k - i + 1] \in Ends
            BY <1>4, <1>5, <3>1 DEF EndsAt
      <3> QED BY <1>4, <3>1, <3>2 DEF Ends
    <2> QED BY <2>1, <2>2
  <1>12. \A k \in 1 .. i - 1 : v[k] = Blank
         BY <1>1 DEF CutAt
  <1> QED BY <1>2, <1>9, <1>10, <1>11, <1>12 DEF Trimmed

(* An accepted value has a character.                                      *)
LEMMA AcceptedHasOne ==
    ASSUME NEW v \in Text, Accepted(v)
    PROVE  DOMAIN v # {}
  <1>1. Len(v) \in Nat /\ DOMAIN v = 1 .. Len(v)
        BY TextIs
  <1>2. CASE Len(v) = 0
    <2>1. Bare(v)
          BY <1>2 DEF Bare
    <2>2. Strip(v) = v
          BY <2>1, StripBare
    <2>3. v = << >>
          BY <1>2, EmptySeq DEF Text
    <2> QED BY <2>2, <2>3 DEF Accepted
  <1>3. CASE Len(v) # 0
    <2>1. 1 \in 1 .. Len(v)
          BY <1>1, <1>3
    <2> QED BY <1>1, <2>1
  <1> QED BY <1>2, <1>3

(* What is stored of an accepted value is the value but for its spelling.  *)
LEMMA StoredIsTrimmed ==
    ASSUME SpellInv, NEW n \in stored, ~ IsAddress(value)
    PROVE  IF type = "service" /\ Slashes(value) # {}
           THEN /\ Slashes(n) # {}
                /\ Trimmed(Before1st(value), Before1st(n), {Blank})
                /\ Trimmed(Lower(After1st(value)), After1st(n), {Blank})
           ELSE Trimmed(IF FoldsCase(value) = {} THEN value ELSE Lower(value), Root(n),
                        IF type \in HostTypes THEN {Blank, "."} ELSE {Blank})
  <1> DEFINE v == value
             s == Strip(v)
             l == Lower(v)
             D == DOMAIN v
             E == Slashes(v) # {}
             M == Min(Slashes(v)) .. Len(v)
             F == FoldsCase(v)
  <1>1. v \in Text /\ type \in AssetTypes /\ D # {}
        BY AcceptedHasOne DEF SpellInv
  <1>2. F = CASE type \in HostTypes \cup {"technology"} -> D
              [] type = "service" /\ E -> M
              [] OTHER -> {}
        BY DEF FoldsCase
  <1>3. l \in Text /\ Strip(l) = Lower(s)
        BY <1>1, LowerIs, StripLower
  <1>4. Trimmed(v, s, {Blank}) /\ Trimmed(l, Strip(l), {Blank})
        BY <1>1, <1>3, TrimmedStrip
  <1>12. type \notin HostTypes => n = Normalize(type, v) /\ Root(n) = n
         BY DEF SpellInv, Root
  <1> HIDE DEF s, l, D, E, M, F
  <1>5. CASE type \in HostTypes
    <2>1. type # "service" /\ F # {}
          BY <1>1, <1>2, <1>5 DEF HostTypes
    <2>2. Root(n) = RStrip(Strip(l), Ends)
      <3>1. StoredAs(n, Name(v))
            BY <1>5 DEF SpellInv
      <3> QED BY <1>5, <3>1 DEF StoredAs, Root, Ends, Name, l
    <2>3. Trimmed(l, Root(n), {Blank, "."})
          BY <1>3, <2>2, TrimmedHost
    <2> QED BY <1>5, <2>1, <2>3 DEF F, l
  <1>6. CASE type = "technology"
    <2>1. type \notin HostTypes /\ F # {}
          BY <1>1, <1>2, <1>6 DEF HostTypes
    <2>2. n = Strip(l)
          BY <1>3, <1>6, <1>12, <2>1, NormalizeIs DEF s
    <2>3. Trimmed(l, n, {Blank})
          BY <1>4, <2>2
    <2> QED BY <1>6, <1>12, <2>1, <2>3 DEF F, l
  <1>7. CASE type = "ip_address"
    <2>1. type \notin HostTypes /\ F = {}
          BY <1>2, <1>7 DEF HostTypes
    <2>2. n = s
      <3>1. s \notin DOMAIN AddressOf
            BY <1>7 DEF IsAddress, s
      <3> QED BY <1>7, <1>12, <2>1, <3>1, NormalizeIs DEF s
    <2>3. Trimmed(v, n, {Blank})
          BY <1>4, <2>2
    <2> QED BY <1>7, <1>12, <2>1, <2>3 DEF F
  <1>8. CASE type = "certificate"
    <2>1. type \notin HostTypes /\ F = {}
          BY <1>2, <1>8 DEF HostTypes
    <2>2. n = s
          BY <1>8, <1>12, <2>1, NormalizeIs DEF s
    <2>3. Trimmed(v, n, {Blank})
          BY <1>4, <2>2
    <2> QED BY <1>8, <1>12, <2>1, <2>3 DEF F
  <1>9. CASE type = "service" /\ ~ E
    <2>1. type \notin HostTypes /\ F = {}
          BY <1>2, <1>9 DEF HostTypes
    <2>2. n = s
          BY <1>1, <1>9, <1>12, <2>1, NormalizeService DEF s, E
    <2>3. Trimmed(v, n, {Blank})
          BY <1>4, <2>2
    <2> QED BY <1>9, <1>12, <2>1, <2>3 DEF F, E
  <1>10. CASE type = "service" /\ E
    <2> DEFINE f == Before1st(v)
               a == After1st(v)
               g == Strip(f)
               b == Lower(Strip(a))
    <2>1. f \in Text /\ Slashless(f) /\ a \in Text
          BY <1>1, <1>10, SplitGives DEF E
    <2>2. n = g \o <<"/">> \o b
          BY <1>1, <1>10, <1>12, NormalizeService DEF E, HostTypes
    <2>3. g \in Text /\ Slashless(g)
          BY <2>1, StripGives, SlashlessIs, StripSlashless
    <2>4. b \in Text /\ Lower(a) \in Text /\ b = Strip(Lower(a))
          BY <2>1, StripGives, LowerIs, StripLower
    <2>5. Trimmed(f, g, {Blank}) /\ Trimmed(Lower(a), b, {Blank})
          BY <2>1, <2>4, TrimmedStrip
    <2> HIDE DEF f, a, g, b
    <2>6. Slashes(n) # {} /\ Before1st(n) = g /\ After1st(n) = b
          BY <2>2, <2>3, <2>4, SplitJoined
    <2>7. /\ Slashes(n) # {}
          /\ Trimmed(f, Before1st(n), {Blank}) /\ Trimmed(Lower(a), After1st(n), {Blank})
          BY <2>5, <2>6
    <2> QED BY <1>10, <2>7 DEF f, a, E
  <1>11. type \in HostTypes \cup {"technology", "ip_address", "certificate", "service"}
         BY <1>1 DEF AssetTypes, HostTypes
  <1> QED BY <1>5, <1>6, <1>7, <1>8, <1>9, <1>10, <1>11

(* And nothing is lost on the way but the spelling: what is stored of an   *)
(* address is the same address, of anything else what was reported last,   *)
(* without blanks at its ends or the root's dots, in lower case where case *)
(* means nothing (app/services/import_pipeline.py:196-222).                *)
THEOREM NothingButSpellingIsLost == Spec => []OnlySpellingIsLost
  <1>1. ASSUME SpellInv, NEW n \in stored, IsAddress(value)
        PROVE  n \in DOMAIN AddressOf /\ AddressOf[n] = AddressOf[Strip(value)]
    <2>1. type = "ip_address" /\ Strip(value) \in DOMAIN AddressOf
          BY <1>1 DEF IsAddress
    <2>2. value \in Text /\ n = Normalize("ip_address", value)
          BY <1>1, <2>1 DEF SpellInv, HostTypes
    <2> QED BY <2>1, <2>2, AddressSettled
  <1>2. SpellInv => OnlySpellingIsLost
    <2> SUFFICES ASSUME SpellInv, NEW n \in stored
                 PROVE  CASE IsAddress(value) ->
                                 n \in DOMAIN AddressOf /\ AddressOf[n] = AddressOf[Strip(value)]
                          [] type = "service" /\ Slashes(value) # {} ->
                                 /\ Slashes(n) # {}
                                 /\ Trimmed(Before1st(value), Before1st(n), {Blank})
                                 /\ Trimmed(Lower(After1st(value)), After1st(n), {Blank})
                          [] OTHER ->
                                 Trimmed(IF FoldsCase(value) = {} THEN value ELSE Lower(value), Root(n),
                                         IF type \in HostTypes THEN {Blank, "."} ELSE {Blank})
        BY DEF OnlySpellingIsLost
    <2> DEFINE A == n \in DOMAIN AddressOf /\ AddressOf[n] = AddressOf[Strip(value)]
               B == /\ Slashes(n) # {}
                    /\ Trimmed(Before1st(value), Before1st(n), {Blank})
                    /\ Trimmed(Lower(After1st(value)), After1st(n), {Blank})
               C == Trimmed(IF FoldsCase(value) = {} THEN value ELSE Lower(value), Root(n),
                            IF type \in HostTypes THEN {Blank, "."} ELSE {Blank})
               S == type = "service" /\ Slashes(value) # {}
               I == IsAddress(value)
    <2>1. I => A
          BY <1>1
    <2>2. ~ I => IF S THEN B ELSE C
          BY StoredIsTrimmed
    <2>3. I => ~ S
          BY DEF IsAddress
    <2> HIDE DEF A, B, C, S, I
    <2>4. (CASE I -> A [] S -> B [] OTHER -> C)
          BY <2>1, <2>2, <2>3
    <2> QED BY <2>4 DEF A, B, C, S, I
  <1> QED BY <1>2, SpellInvariant, PTL
=============================================================================
