---------------------------- MODULE Challenge_proofs ----------------------------
(***************************************************************************)
(* Proofs about Challenge, for challenges of any length with values of any *)
(* length: the token endpoint is asked as the challenge says, and a login  *)
(* of any length is sent in base64.                                        *)
(***************************************************************************)
EXTENDS Challenge, SequenceTheorems, WellFoundedInduction, TLAPS

LEMMA MinIs ==
    ASSUME NEW S \in SUBSET Nat, NEW m \in S, \A k \in S : m <= k
    PROVE  Min(S) = m
<1>1. \E x \in S : \A y \in S : x <= y
  OBVIOUS
<1>2. ASSUME NEW x \in S, \A y \in S : x <= y PROVE x = m
  BY <1>2
<1> QED
  BY <1>1, <1>2 DEF Min

LEMMA MaxIs ==
    ASSUME NEW S \in SUBSET Nat, NEW m \in S, \A k \in S : k <= m
    PROVE  Max(S) = m
<1>1. \E x \in S : \A y \in S : y <= x
  OBVIOUS
<1>2. ASSUME NEW x \in S, \A y \in S : y <= x PROVE x = m
  BY <1>2
<1> QED
  BY <1>1, <1>2 DEF Max

LEMMA MaxInSet ==
    ASSUME NEW k \in Nat, NEW S \in SUBSET (0..k), S # {}
    PROVE  Max(S) \in S
<1> DEFINE T == {k - i : i \in S}
<1>1. T \in SUBSET Nat /\ T # {}
  <2>1. PICK i \in S : TRUE
    OBVIOUS
  <2>2. k - i \in T
    BY <2>1
  <2>3. T \in SUBSET Nat
    OBVIOUS
  <2> QED
    BY <2>2, <2>3
<1>2. PICK t \in T : \A u \in T : ~(<<u, t>> \in OpToRel(<, Nat))
  BY <1>1, NatLessThanWellFounded, WFMin, Zenon
<1>3. \A u \in T : t <= u
  <2>1. \A u \in T : ~(u < t)
    BY <1>1, <1>2 DEF OpToRel
  <2> HIDE DEF T
  <2> QED
    BY <1>1, <2>1
<1>4. PICK x \in S : t = k - x
  OBVIOUS
<1>5. ASSUME NEW i \in S PROVE i <= x
  <2>1. k - i \in T
    OBVIOUS
  <2>2. k - x <= k - i
    BY <1>3, <1>4, <2>1
  <2> QED
    BY <2>2
<1> QED
  BY <1>5 DEF Max

(* The characters of two strings put together. *)
LEMMA ConcatIs ==
    ASSUME NEW S, NEW a \in Seq(S), NEW b \in Seq(S)
    PROVE  /\ a \o b \in Seq(S)
           /\ Len(a \o b) = Len(a) + Len(b)
           /\ \A i \in 1..Len(a) : (a \o b)[i] = a[i]
           /\ \A i \in 1..Len(b) : (a \o b)[Len(a) + i] = b[i]
  BY ConcatProperties

(* The beginning of a string. *)
LEMMA PrefixIs ==
    ASSUME NEW S, NEW s \in Seq(S), NEW j \in Nat, j <= Len(s)
    PROVE  /\ SubSeq(s, 1, j) \in Seq(S) /\ Len(SubSeq(s, 1, j)) = j
           /\ \A i \in 1..j : SubSeq(s, 1, j)[i] = s[i]
  OBVIOUS

LEMMA OneIs ==
    ASSUME NEW S, NEW s \in Seq(S), NEW j \in 1..Len(s)
    PROVE  SubSeq(s, j, j) = <<s[j]>>
<1> DEFINE q == SubSeq(s, j, j)
<1>1. s[j] \in S
  BY ElementOfSeq
<1>2. q \in Seq(S) /\ Len(q) = 1 /\ q[1] = s[j]
  OBVIOUS
<1>3. <<s[j]>> \in Seq(S) /\ Len(<<s[j]>>) = 1 /\ <<s[j]>>[1] = s[j]
  BY <1>1
<1> HIDE DEF q
<1>4. q = <<s[j]>>
  <2>1. \A i \in 1..Len(q) : q[i] = <<s[j]>>[i]
    BY <1>2, <1>3
  <2> QED
    BY <1>2, <1>3, <2>1, SeqEqual
<1> QED
  BY <1>4 DEF q

(* Where a string is cut. *)
LEMMA FirstIs ==
    ASSUME NEW S, NEW s \in Seq(S), NEW c, NEW m \in 1..Len(s), s[m] = c,
           \A i \in 1..(m - 1) : s[i] # c
    PROVE  Contains(s, c) /\ First(s, c) = m
<1> DEFINE at_c == {i \in DOMAIN s : s[i] = c}
<1>1. DOMAIN s = 1..Len(s) /\ Len(s) \in Nat
  OBVIOUS
<1>2. at_c \in SUBSET Nat /\ m \in at_c
  BY <1>1
<1>3. \A n_ \in at_c : m <= n_
  BY <1>1
<1> HIDE DEF at_c
<1>4. Min(at_c) = m
  BY <1>2, <1>3, MinIs
<1> QED
  BY <1>1, <1>4 DEF Contains, First, at_c

(* What a trimmed string is. *)
LEMMA TrimIs ==
    ASSUME NEW S, NEW s \in Seq(S), NEW c, NEW l \in 1..Len(s), NEW h \in 1..Len(s),
           s[l] # c, s[h] # c,
           \A i \in 1..(l - 1) : s[i] = c, \A i \in (h + 1)..Len(s) : s[i] = c
    PROVE  Trim(s, c) = SubSeq(s, l, h)
<1> DEFINE keep == {i \in DOMAIN s : s[i] # c}
<1>1. DOMAIN s = 1..Len(s) /\ Len(s) \in Nat
  OBVIOUS
<1>2. keep \in SUBSET Nat /\ l \in keep /\ h \in keep
  BY <1>1
<1>3. \A i \in keep : l <= i /\ i <= h
  BY <1>1
<1>4. Trim(s, c) = IF keep = {} THEN <<>> ELSE SubSeq(s, Min(keep), Max(keep))
  BY DEF Trim
<1> HIDE DEF keep
<1>5. Min(keep) = l /\ Max(keep) = h
  BY <1>2, <1>3, MinIs, MaxIs
<1> QED
  BY <1>2, <1>4, <1>5

LEMMA TrimAll ==
    ASSUME NEW S, NEW s \in Seq(S), NEW c, \A i \in 1..Len(s) : s[i] = c
    PROVE  Trim(s, c) = <<>>
  BY DEF Trim

LEMMA TrimNone ==
    ASSUME NEW S, NEW s \in Seq(S), NEW c, s # <<>> => s[1] # c /\ s[Len(s)] # c
    PROVE  Trim(s, c) = s
<1>1. CASE s = <<>>
  <2>1. \A i \in 1..Len(s) : s[i] = c
    BY <1>1
  <2> QED
    BY <1>1, <2>1, TrimAll
<1>2. CASE s # <<>>
  <2>1. Len(s) \in Nat \ {0}
    BY <1>2, EmptySeq
  <2>2. Trim(s, c) = SubSeq(s, 1, Len(s))
    BY <1>2, <2>1, TrimIs
  <2> QED
    BY <2>2
<1> QED
  BY <1>1, <1>2

--------------------------------------------------------------------------------
(* The place of the opening quote, or of a value without quotes. *)
Open(p) == p.gap + 3

Head3(p) == IF p.gap = 1 THEN <<" ", p.name, "=">> ELSE <<p.name, "=">>
Tail3(p) == IF p.form = "quoted" THEN <<"quote">> \o p.value \o <<"quote">> ELSE p.value

LEMMA ParamTypes ==
    ASSUME NEW p \in Param
    PROVE  /\ p.gap \in 0..1 /\ p.form \in {"token", "quoted"}
           /\ p.name \in Known \cup OtherName /\ p.name \notin Mark
           /\ p.value \in Text /\ p.value \in Seq(Char)
           /\ p.form = "token" => p.value \in Seq(Word)
           /\ \A i \in 1..Len(p.value) : p.value[i] # "quote"
           /\ p.form = "token" => \A i \in 1..Len(p.value) : p.value[i] \notin Mark
<1>1. /\ p.gap \in 0..1 /\ p.form \in {"token", "quoted"}
      /\ p.name \in Known \cup OtherName
      /\ p.value \in Text
      /\ p.form = "token" => p.value \in Seq(Word)
  BY DEF Param
<1>2. p.name \notin Mark
  BY <1>1, ChallengeAssumption
<1>3. p.value \in Seq(Char)
  <2>1. Word \cup (Mark \ {"quote"}) \subseteq Char
    BY DEF Char
  <2> QED
    BY <1>1, <2>1, SeqMonotonic DEF Text
<1>4. "quote" \in Mark
  BY DEF Mark
<1>5. \A i \in 1..Len(p.value) : p.value[i] # "quote"
  <2> TAKE i \in 1..Len(p.value)
  <2>1. p.value[i] \in Word \cup (Mark \ {"quote"})
    BY <1>1, ElementOfSeq DEF Text
  <2> QED
    BY <1>4, <2>1, ChallengeAssumption
<1>6. ASSUME p.form = "token", NEW i \in 1..Len(p.value) PROVE p.value[i] \notin Mark
  <2>1. p.value[i] \in Word
    BY <1>1, <1>6, ElementOfSeq
  <2> QED
    BY <2>1, ChallengeAssumption
<1> QED
  BY <1>1, <1>2, <1>3, <1>5, <1>6

LEMMA HeadIs ==
    ASSUME NEW p \in Param
    PROVE  /\ Head3(p) \in Seq(Char) /\ Len(Head3(p)) = Open(p) - 1
           /\ p.gap = 1 => Head3(p)[1] = " "
           /\ Head3(p)[Open(p) - 2] = p.name /\ Head3(p)[Open(p) - 1] = "="
<1>1. p.name \in Char /\ " " \in Char /\ "=" \in Char /\ p.gap \in 0..1
  BY ParamTypes DEF Char, Mark
<1>2. CASE p.gap = 1
  <2>1. Head3(p) = <<" ", p.name, "=">> /\ Open(p) = 4
    BY <1>2 DEF Head3, Open
  <2>2. ASSUME NEW x \in Char, NEW y \in Char, NEW z \in Char
        PROVE  /\ <<x, y, z>> \in Seq(Char) /\ Len(<<x, y, z>>) = 3
               /\ <<x, y, z>>[1] = x /\ <<x, y, z>>[2] = y /\ <<x, y, z>>[3] = z
    OBVIOUS
  <2> DEFINE h == <<" ", p.name, "=">>
  <2>3. h \in Seq(Char) /\ Len(h) = 3 /\ h[1] = " " /\ h[2] = p.name /\ h[3] = "="
    BY <1>1, <2>2
  <2> HIDE DEF h
  <2>4. Head3(p) = h
    BY <2>1 DEF h
  <2>5. Open(p) - 1 = 3 /\ Open(p) - 2 = 2
    BY <1>2 DEF Open
  <2> QED
    BY <2>3, <2>4, <2>5
<1>3. CASE p.gap = 0
  <2>1. Head3(p) = <<p.name, "=">> /\ Open(p) = 3
    BY <1>3 DEF Head3, Open
  <2>2. ASSUME NEW x \in Char, NEW y \in Char
        PROVE  /\ <<x, y>> \in Seq(Char) /\ Len(<<x, y>>) = 2
               /\ <<x, y>>[1] = x /\ <<x, y>>[2] = y
    OBVIOUS
  <2> DEFINE h == <<p.name, "=">>
  <2>3. h \in Seq(Char) /\ Len(h) = 2 /\ h[1] = p.name /\ h[2] = "="
    BY <1>1, <2>2
  <2> HIDE DEF h
  <2>4. Head3(p) = h
    BY <2>1 DEF h
  <2>5. Open(p) - 1 = 2 /\ Open(p) - 2 = 1
    BY <2>1
  <2> QED
    BY <1>3, <2>3, <2>4, <2>5
<1>4. p.gap = 0 \/ p.gap = 1
  <2>1. p.gap \in 0..1
    BY ParamTypes
  <2> QED
    BY <2>1
<1> QED
  BY <1>2, <1>3, <1>4

LEMMA TailIs ==
    ASSUME NEW p \in Param
    PROVE  LET t == Tail3(p) IN
           /\ t \in Seq(Char)
           /\ Len(t) = IF p.form = "quoted" THEN Len(p.value) + 2 ELSE Len(p.value)
           /\ p.form = "quoted" => /\ t[1] = "quote" /\ t[Len(t)] = "quote"
                                   /\ \A i \in 1..Len(p.value) : t[i + 1] = p.value[i]
           /\ p.form = "token" => t = p.value
<1>0. p.value \in Seq(Char) /\ p.form \in {"token", "quoted"}
  BY ParamTypes
<1>1. /\ p.value \in Seq(Char) /\ p.form \in {"token", "quoted"} /\ "quote" \in Char
      /\ Len(p.value) \in Nat
  BY <1>0, LenProperties DEF Char, Mark
<1>2. CASE p.form = "token"
  BY <1>1, <1>2 DEF Tail3
<1>3. CASE p.form = "quoted"
  <2> DEFINE q == <<"quote">>
             a == q \o p.value
             t == a \o q
  <2>1. q \in Seq(Char) /\ Len(q) = 1 /\ q[1] = "quote"
    BY <1>1
  <2>2. Tail3(p) = t
    BY <1>3 DEF Tail3
  <2> HIDE DEF q
  <2>3. /\ a \in Seq(Char) /\ Len(a) = Len(p.value) + 1 /\ a[1] = q[1]
        /\ \A i \in 1..Len(p.value) : a[1 + i] = p.value[i]
    BY <1>1, <2>1, ConcatIs
  <2> HIDE DEF a
  <2>4. /\ t \in Seq(Char) /\ Len(t) = Len(p.value) + 2
        /\ \A i \in 1..Len(a) : t[i] = a[i]
        /\ t[Len(a) + 1] = q[1]
    <3>1. 1 \in 1..Len(q)
      BY <2>1
    <3>2. /\ t \in Seq(Char) /\ Len(t) = Len(a) + Len(q)
          /\ \A i \in 1..Len(a) : t[i] = a[i]
          /\ \A i \in 1..Len(q) : t[Len(a) + i] = q[i]
      <4>1. a \in Seq(Char) /\ q \in Seq(Char)
        BY <2>1, <2>3
      <4> HIDE DEF t
      <4>2. t = a \o q
        BY DEF t
      <4> QED
        BY <4>1, <4>2, ConcatIs
    <3> QED
      BY <1>1, <2>1, <2>3, <3>1, <3>2
  <2> HIDE DEF t
  <2>5. t[1] = "quote" /\ t[Len(p.value) + 2] = "quote"
    BY <1>1, <2>1, <2>3, <2>4
  <2>6. \A i \in 1..Len(p.value) : t[i + 1] = p.value[i]
    BY <1>1, <2>3, <2>4
  <2> QED
    BY <1>3, <2>2, <2>4, <2>5, <2>6
<1> QED
  BY <1>1, <1>2, <1>3

(* The characters of a parameter, one by one. *)
IsSpelled(s, p) ==
    /\ s \in Seq(Char)
    /\ Len(s) = Open(p) - 1 + (IF p.form = "quoted" THEN Len(p.value) + 2 ELSE Len(p.value))
    /\ p.gap = 1 => s[1] = " "
    /\ s[Open(p) - 2] = p.name /\ s[Open(p) - 1] = "="
    /\ p.form = "quoted" => /\ s[Open(p)] = "quote" /\ s[Len(s)] = "quote"
                            /\ \A i \in 1..Len(p.value) : s[Open(p) + i] = p.value[i]
    /\ p.form = "token" => \A i \in 1..Len(p.value) : s[Open(p) - 1 + i] = p.value[i]

LEMMA SpelledIs ==
    ASSUME NEW p \in Param
    PROVE  IsSpelled(Spelled(p), p)
<1> DEFINE h == Head3(p)
           t == Tail3(p)
           s == Spelled(p)
           o == Open(p)
           v == p.value
<1>1. s = h \o t
  BY DEF Spelled, Head3, Tail3
<1>2. h \in Seq(Char) /\ t \in Seq(Char) /\ v \in Seq(Char)
  BY HeadIs, TailIs, ParamTypes
<1>3. o \in Nat /\ o >= 3 /\ (p.gap = 1 => o = 4) /\ p.form \in {"token", "quoted"}
  BY ParamTypes DEF Open
<1>4. Len(v) \in Nat /\ Len(h) = o - 1
      /\ Len(t) = IF p.form = "quoted" THEN Len(v) + 2 ELSE Len(v)
  BY <1>2, LenProperties, HeadIs, TailIs
<1>5. (p.gap = 1 => h[1] = " ") /\ h[o - 2] = p.name /\ h[o - 1] = "="
  BY HeadIs
<1>6. p.form = "quoted" => /\ t[1] = "quote" /\ t[Len(t)] = "quote"
                           /\ \A i \in 1..Len(v) : t[i + 1] = v[i]
  BY TailIs
<1>7. p.form = "token" => t = v
  BY TailIs
<1> HIDE DEF h, t, s, o, v
<1>8. s \in Seq(Char) /\ Len(s) = Len(h) + Len(t)
  BY <1>1, <1>2, ConcatIs
<1>9. \A i \in 1..Len(h) : s[i] = h[i]
  BY <1>1, <1>2, ConcatIs
<1>10. \A i \in 1..Len(t) : s[Len(h) + i] = t[i]
  BY <1>1, <1>2, ConcatIs
<1>11. (p.gap = 1 => s[1] = " ") /\ s[o - 2] = p.name /\ s[o - 1] = "="
  <2>1. 1 \in 1..Len(h) /\ o - 2 \in 1..Len(h) /\ o - 1 \in 1..Len(h)
    BY <1>3, <1>4
  <2> QED
    BY <1>5, <1>9, <2>1
<1>12. ASSUME p.form = "quoted"
       PROVE  /\ s[o] = "quote" /\ s[Len(s)] = "quote"
              /\ \A i \in 1..Len(v) : s[o + i] = v[i]
  <2>1. Len(t) = Len(v) + 2
    BY <1>4, <1>12
  <2>2. /\ 1 \in 1..Len(t) /\ Len(t) \in 1..Len(t)
        /\ Len(h) + 1 = o /\ Len(h) + Len(t) = Len(s)
    BY <1>3, <1>4, <1>8, <2>1
  <2>3. ASSUME NEW i \in 1..Len(v) PROVE s[o + i] = v[i]
    <3>1. i + 1 \in 1..Len(t) /\ Len(h) + (i + 1) = o + i
      BY <1>3, <1>4, <2>1
    <3> QED
      BY <1>6, <1>10, <1>12, <3>1
  <2> QED
    BY <1>6, <1>10, <1>12, <2>2, <2>3
<1>13. ASSUME p.form = "token", NEW i \in 1..Len(v) PROVE s[o - 1 + i] = v[i]
  BY <1>4, <1>7, <1>10, <1>13
<1>14. Len(s) = o - 1 + (IF p.form = "quoted" THEN Len(v) + 2 ELSE Len(v))
  BY <1>4, <1>8
<1> QED
  BY <1>8, <1>11, <1>12, <1>13, <1>14 DEF IsSpelled, s, o, v

(* Between the quotes of a parameter, when the characters before off are read. *)
Inside(p, off_) == p.form = "quoted" /\ off_ > Open(p) /\ off_ <= Len(Spelled(p))

(* Quotes are at the two places where Inside changes, and commas only inside. *)
LEMMA WhereMarksAre ==
    ASSUME NEW p \in Param, NEW i \in 1..Len(Spelled(p))
    PROVE  /\ Spelled(p)[i] = "quote" => (Inside(p, i + 1) <=> ~Inside(p, i))
           /\ Spelled(p)[i] # "quote" => (Inside(p, i + 1) <=> Inside(p, i))
           /\ Spelled(p)[i] = "," => Inside(p, i)
<1> DEFINE s == Spelled(p)
           o == Open(p)
           v == p.value
<1>1. IsSpelled(s, p)
  BY SpelledIs
<1>2. o \in 3..4 /\ (o = 4 <=> p.gap = 1)
  BY ParamTypes DEF Open
<1>3. p.form \in {"token", "quoted"} /\ Len(v) \in Nat /\ p.name \notin Mark
  BY ParamTypes, LenProperties
<1>11. \A j \in 1..Len(v) : v[j] # "quote"
  BY ParamTypes
<1>12. p.form = "token" => \A j \in 1..Len(v) : v[j] \notin Mark
  BY ParamTypes
<1> HIDE DEF s, o, v
<1>0. Len(s) = o - 1 + (IF p.form = "quoted" THEN Len(v) + 2 ELSE Len(v))
  BY <1>1 DEF IsSpelled, s, o, v
<1>4. /\ p.gap = 1 => s[1] = " "
      /\ s[o - 2] = p.name /\ s[o - 1] = "="
      /\ p.form = "quoted" => /\ s[o] = "quote" /\ s[Len(s)] = "quote"
                              /\ \A j \in 1..Len(v) : s[o + j] = v[j]
      /\ p.form = "token" => \A j \in 1..Len(v) : s[o - 1 + j] = v[j]
  BY <1>1 DEF IsSpelled, s, o, v
<1>5. i \in 1..Len(s)
  BY DEF s
<1>6. "quote" \in Mark /\ "," \in Mark
  BY DEF Mark
<1>7. \A k : Inside(p, k) <=> p.form = "quoted" /\ k > o /\ k <= Len(s)
  BY DEF Inside, s, o
<1>8. ASSUME i < o PROVE s[i] # "quote" /\ s[i] # ","
  <2>1. i = o - 1 \/ i = o - 2 \/ (p.gap = 1 /\ i = 1)
    BY <1>2, <1>5, <1>8
  <2>2. "=" # "quote" /\ "=" # "," /\ " " # "quote" /\ " " # ","
    OBVIOUS
  <2> QED
    BY <1>3, <1>4, <1>6, <2>1, <2>2
<1>9. CASE p.form = "token"
  <2>0. i \in Nat /\ o \in Nat
    BY <1>2, <1>5
  <2>1. ASSUME i >= o PROVE s[i] # "quote" /\ s[i] # ","
    <3>1. i - (o - 1) \in 1..Len(v) /\ o - 1 + (i - (o - 1)) = i
      BY <1>0, <1>2, <1>3, <1>5, <1>9, <2>1
    <3>2. s[i] = v[i - (o - 1)]
      BY <1>4, <1>9, <3>1
    <3> QED
      BY <1>6, <1>9, <1>12, <3>1, <3>2
  <2>2. s[i] # "quote" /\ s[i] # ","
    <3>1. i < o \/ i >= o
      BY <2>0
    <3> QED
      BY <1>8, <2>1, <3>1
  <2> QED
    BY <1>7, <1>9, <2>2 DEF s
<1>10. CASE p.form = "quoted"
  <2>1. Len(s) = o + Len(v) + 1
    BY <1>0, <1>2, <1>3, <1>10
  <2>2. CASE i < o
    <3>1. Inside(p, i) = FALSE /\ ~Inside(p, i + 1)
      BY <1>2, <1>5, <1>7, <2>2
    <3> QED
      BY <1>8, <2>2, <3>1 DEF s
  <2>3. CASE i = o
    <3>1. Inside(p, i + 1) /\ ~Inside(p, i)
      BY <1>2, <1>3, <1>5, <1>7, <1>10, <2>1, <2>3
    <3>2. s[i] = "quote" /\ "quote" # ","
      BY <1>4, <1>10, <2>3
    <3> QED
      BY <3>1, <3>2 DEF s
  <2>4. CASE i > o /\ i < Len(s)
    <3>1. Inside(p, i + 1) /\ Inside(p, i)
      BY <1>2, <1>3, <1>5, <1>7, <1>10, <2>1, <2>4
    <3>2. i - o \in 1..Len(v) /\ o + (i - o) = i
      BY <1>2, <1>3, <1>5, <2>1, <2>4
    <3>3. s[i] = v[i - o]
      BY <1>4, <1>10, <3>2
    <3> QED
      BY <1>11, <3>1, <3>2, <3>3 DEF s
  <2>5. CASE i = Len(s)
    <3>1. Inside(p, i) /\ ~Inside(p, i + 1)
      BY <1>2, <1>3, <1>5, <1>7, <1>10, <2>1, <2>5
    <3>2. s[i] = "quote" /\ "quote" # ","
      BY <1>4, <1>10, <2>5
    <3> QED
      BY <3>1, <3>2 DEF s
  <2>6. i < o \/ i = o \/ (i > o /\ i < Len(s)) \/ i = Len(s)
    BY <1>2, <1>3, <1>5, <2>1
  <2> QED
    BY <2>2, <2>3, <2>4, <2>5, <2>6
<1> QED
  BY <1>3, <1>9, <1>10

(* A part gives back the name and the value it was spelled from. *)
LEMMA PartIsRead ==
    ASSUME NEW p \in Param
    PROVE  LET s == Spelled(p) IN
           /\ Contains(s, "=") /\ Key(s) = <<p.name>> /\ Value(s) = p.value
<1> DEFINE s == Spelled(p)
           o == Open(p)
           v == p.value
           k == Before(s, o - 1)
           t == After(s, o - 1)
<1>1. IsSpelled(s, p)
  BY SpelledIs
<1>2. o \in 3..4 /\ (o = 4 <=> p.gap = 1)
  BY ParamTypes DEF Open
<1>3. /\ p.form \in {"token", "quoted"} /\ p.name \notin Mark /\ v \in Seq(Char)
      /\ Len(v) \in Nat
  BY ParamTypes, LenProperties
<1>4. \A j \in 1..Len(v) : v[j] # "quote"
  BY ParamTypes
<1>5. p.form = "token" => \A j \in 1..Len(v) : v[j] \notin Mark
  BY ParamTypes
<1>6. "quote" \in Mark /\ " " \in Mark /\ "=" \in Mark
  BY DEF Mark
<1> HIDE DEF s, o, v
<1>7. s \in Seq(Char) /\ Len(s) = o - 1 + (IF p.form = "quoted" THEN Len(v) + 2 ELSE Len(v))
  BY <1>1 DEF IsSpelled, s, o, v
<1>8. (p.gap = 1 => s[1] = " ") /\ s[o - 2] = p.name /\ s[o - 1] = "="
  BY <1>1 DEF IsSpelled, s, o, v
<1>9. p.form = "quoted" => /\ s[o] = "quote" /\ s[Len(s)] = "quote"
                           /\ \A j \in 1..Len(v) : s[o + j] = v[j]
  BY <1>1 DEF IsSpelled, s, o, v
<1>10. p.form = "token" => \A j \in 1..Len(v) : s[o - 1 + j] = v[j]
  BY <1>1 DEF IsSpelled, s, o, v
<1>11. Contains(s, "=") /\ First(s, "=") = o - 1
  <2>1. o - 1 \in 1..Len(s)
    BY <1>2, <1>3, <1>7
  <2>2. ASSUME NEW i \in 1..((o - 1) - 1) PROVE s[i] # "="
    <3>1. i = o - 2 \/ (i = 1 /\ o = 4)
      BY <1>2
    <3>2. " " # "="
      OBVIOUS
    <3> QED
      BY <1>2, <1>3, <1>6, <1>8, <3>1, <3>2
  <2> QED
    BY <1>7, <1>8, <2>1, <2>2, FirstIs
<1>12. Key(s) = <<p.name>>
  <2> DEFINE m == o - 2
  <2>1. m \in 1..2 /\ (m = 2 => p.gap = 1) /\ m = (o - 1) - 1 /\ m <= Len(s)
    BY <1>2, <1>3, <1>7
  <2>2. k = SubSeq(s, 1, m)
    BY <2>1 DEF Before, k
  <2>3. s[m] = p.name /\ (m = 2 => s[1] = " ")
    BY <1>8, <2>1
  <2>4. Key(s) = Trim(k, " ")
    BY <1>11 DEF Key, k
  <2> HIDE DEF m, k
  <2>6. k \in Seq(Char) /\ Len(k) = m /\ \A i \in 1..m : k[i] = s[i]
    <3>1. s \in Seq(Char) /\ m \in Nat /\ m <= Len(s)
      BY <1>7, <2>1
    <3> QED
      BY <2>2, <3>1, PrefixIs
  <2>12. m \in 1..m /\ m \in 1..Len(k)
    BY <2>1, <2>6
  <2>7. k[m] # " " /\ m \in 1..Len(k) /\ k[m] = p.name
    <3>1. k[m] = p.name
      BY <2>3, <2>6, <2>12
    <3> QED
      BY <1>3, <1>6, <2>12, <3>1
  <2>8. ASSUME NEW i \in 1..(m - 1) PROVE k[i] = " "
    <3>1. i = 1 /\ m = 2 /\ i \in 1..m
      BY <2>1
    <3> QED
      BY <2>3, <2>6, <3>1
  <2>9. ASSUME NEW i \in (m + 1)..Len(k) PROVE k[i] = " "
    <3>1. m \in Nat /\ Len(k) = m
      BY <2>1, <2>6
    <3>2. i \in (m + 1)..m
      BY <3>1
    <3>3. FALSE
      BY <3>1, <3>2, SMT
    <3> QED
      BY <3>3
  <2>13. k \in Seq(Char) /\ m \in 1..Len(k)
    BY <2>6, <2>12
  <2>10. Trim(k, " ") = SubSeq(k, m, m)
    BY <2>7, <2>8, <2>9, <2>13, TrimIs
  <2>11. SubSeq(k, m, m) = <<k[m]>>
    BY <2>6, <2>12, OneIs
  <2> QED
    BY <2>4, <2>7, <2>10, <2>11
<1>13. /\ t \in Seq(Char) /\ Len(t) = Len(s) - o + 1
       /\ \A i \in 1..(Len(s) - o + 1) : t[i] = s[o - 1 + i]
  <2>1. t = SubSeq(s, o, Len(s))
    BY <1>2 DEF After
  <2>2. \A i \in o..Len(s) : s[i] \in Char
    BY <1>2, <1>3, <1>7, ElementOfSeq
  <2>3. Len(s) \in Nat /\ o <= Len(s) + 1
    BY <1>2, <1>3, <1>7
  <2> DEFINE z == Len(s)
  <2>4. z \in Int /\ o \in Int /\ t = SubSeq(s, o, z) /\ \A i \in o..z : s[i] \in Char
    BY <1>2, <2>1, <2>2, <2>3
  <2>5. o <= z + 1
    BY <2>3
  <2> HIDE DEF z, t
  <2>6. t \in Seq(Char) /\ Len(t) = IF o <= z THEN z - o + 1 ELSE 0
    BY <2>4, SubSeqProperties
  <2>7. \A i \in 1..(z - o + 1) : t[i] = s[o + i - 1]
    BY <2>4, SubSeqProperties
  <2>8. \A i \in 1..(z - o + 1) : o + i - 1 = o - 1 + i
    BY <2>4
  <2>9. Len(t) = z - o + 1
    BY <2>4, <2>5, <2>6
  <2> QED
    BY <2>6, <2>7, <2>8, <2>9 DEF z
<1> HIDE DEF k, t
<1>14. Value(s) = Trim(Trim(t, " "), "quote")
  BY <1>11 DEF Value, t
<1>15. CASE p.form = "token"
  <2>1. Len(t) = Len(v) /\ \A i \in 1..Len(v) : t[i] = v[i]
    BY <1>2, <1>3, <1>7, <1>10, <1>13, <1>15
  <2>2. t = v
    BY <1>3, <1>13, <2>1, SeqEqual
  <2>3. v # <<>> => 1 \in 1..Len(v) /\ Len(v) \in 1..Len(v)
    BY <1>3, EmptySeq
  <2>4. v # <<>> => v[1] \notin Mark /\ v[Len(v)] \notin Mark
    BY <1>5, <1>15, <2>3
  <2>5. Trim(v, " ") = v /\ Trim(v, "quote") = v
    BY <1>3, <1>6, <2>4, TrimNone
  <2> QED
    BY <1>11, <1>12, <1>14, <2>2, <2>5 DEF s, v
<1>16. CASE p.form = "quoted"
  <2>1. Len(t) = Len(v) + 2
    BY <1>2, <1>3, <1>7, <1>13, <1>16
  <2>2. Len(s) = o + Len(v) + 1
    BY <1>2, <1>3, <1>7, <1>16
  <2>3. t[1] = "quote" /\ t[Len(t)] = "quote"
    <3>1. /\ 1 \in 1..(Len(s) - o + 1) /\ Len(t) \in 1..(Len(s) - o + 1)
          /\ o - 1 + 1 = o /\ o - 1 + Len(t) = Len(s)
      BY <1>2, <1>3, <2>1, <2>2
    <3> QED
      BY <1>9, <1>13, <1>16, <3>1
  <2>4. ASSUME NEW i \in 1..Len(v) PROVE t[i + 1] = v[i]
    <3>1. i + 1 \in 1..(Len(s) - o + 1) /\ o - 1 + (i + 1) = o + i
      BY <1>2, <1>3, <2>2
    <3> QED
      BY <1>9, <1>13, <1>16, <3>1
  <2>5. Trim(t, " ") = t
    <3>1. "quote" # " "
      OBVIOUS
    <3> QED
      BY <1>13, <2>3, <3>1, TrimNone
  <2>6. Trim(t, "quote") = v
    <3>1. CASE v = <<>>
      <4>1. Len(v) = 0
        BY <3>1
      <4>2. \A i \in 1..Len(t) : i = 1 \/ i = Len(t)
        BY <2>1, <4>1
      <4>3. \A i \in 1..Len(t) : t[i] = "quote"
        BY <2>3, <4>2
      <4> QED
        BY <1>13, <3>1, <4>3, TrimAll
    <3>2. CASE v # <<>>
      <4>1. Len(v) \in Nat \ {0}
        BY <1>3, <3>2, EmptySeq
      <4>2. 2 \in 1..Len(t) /\ Len(v) + 1 \in 1..Len(t)
        BY <2>1, <4>1
      <4>3. t[2] # "quote" /\ t[Len(v) + 1] # "quote"
        <5>1. 1 \in 1..Len(v) /\ Len(v) \in 1..Len(v) /\ 1 + 1 = 2
          BY <4>1
        <5> QED
          BY <1>4, <2>4, <5>1
      <4>4. \A i \in 1..(2 - 1) : t[i] = "quote"
        BY <2>3
      <4>5. \A i \in ((Len(v) + 1) + 1)..Len(t) : t[i] = "quote"
        <5>1. \A i \in ((Len(v) + 1) + 1)..Len(t) : i = Len(t)
          BY <2>1, <4>1
        <5> QED
          BY <2>3, <5>1
      <4> DEFINE l == 2
                 h == Len(v) + 1
      <4>9. /\ l \in 1..Len(t) /\ h \in 1..Len(t) /\ t[l] # "quote" /\ t[h] # "quote"
            /\ \A i \in 1..(l - 1) : t[i] = "quote"
            /\ \A i \in (h + 1)..Len(t) : t[i] = "quote"
        BY <4>2, <4>3, <4>4, <4>5
      <4>10. t \in Seq(Char)
        BY <1>13
      <4> HIDE DEF l, h
      <4>11. Trim(t, "quote") = SubSeq(t, l, h)
        BY <4>9, <4>10, TrimIs
      <4>6. Trim(t, "quote") = SubSeq(t, 2, Len(v) + 1)
        BY <4>11 DEF l, h
      <4>7. \A i \in 2..(Len(v) + 1) : t[i] \in Char
        BY <1>13, <2>1, <4>1, ElementOfSeq
      <4>8. /\ SubSeq(t, 2, Len(v) + 1) \in Seq(Char)
            /\ Len(SubSeq(t, 2, Len(v) + 1)) = Len(v)
            /\ \A i \in 1..Len(v) : SubSeq(t, 2, Len(v) + 1)[i] = t[i + 1]
        BY <4>1, <4>7, SubSeqProperties
      <4> QED
        BY <1>3, <2>4, <4>6, <4>8, SeqEqual
    <3> QED
      BY <3>1, <3>2
  <2> QED
    BY <1>11, <1>12, <1>14, <2>5, <2>6 DEF s, v
<1> QED
  BY <1>3, <1>15, <1>16

--------------------------------------------------------------------------------
(* The value of the last of the first m parameters that is called k. *)
Seen(k, m) ==
    LET all == {i \in 1..m : Given[i].name = k}
    IN  IF all = {} THEN None ELSE Given[Max(all)].value

(* The inductive invariant: while the text is split, the parts found are the
   parameters before at, the part begun is the beginning of that parameter, and
   the quotes are open exactly inside its value; while the parts are read, what
   is known are the values of those before n. *)
Splitting ==
    phase = "split" =>
      /\ n = 1 /\ params = [k \in Known |-> None]
      /\ out = [i \in 1..(at - 1) |-> Spelled(Given[i])]
      /\ Given = <<>> => at = 1 /\ cur = <<>>
      /\ Given # <<>> =>
           /\ at \in 1..Len(Given)
           /\ off \in 1..(Len(Spelled(Given[at])) + 1)
           /\ cur = SubSeq(Spelled(Given[at]), 1, off - 1)
           /\ in_quotes <=> Inside(Given[at], off)

Reading ==
    phase = "read" =>
      /\ out = [i \in 1..Len(Given) |-> Spelled(Given[i])]
      /\ n \in 1..(Len(Given) + 1)
      /\ params = [k \in Known |-> Seen(k, n - 1)]

ChallengeInv == TypeOK /\ Splitting /\ Reading /\ AsksAsChallenged

LEMMA GivenTypes ==
    ASSUME challenge \in Challenges
    PROVE  Given \in Seq(Param) /\ Len(Given) \in Nat /\ DOMAIN Given = 1..Len(Given)
<1>1. challenge \in [scheme : Scheme, params : Seq(Param)]
  BY ChallengeAssumption
<1>2. Given \in Seq(Param)
  BY <1>1 DEF Given
<1> QED
  BY <1>2, LenProperties

LEMMA SeenTypes ==
    ASSUME challenge \in Challenges, NEW k, NEW m \in Nat, m <= Len(Given)
    PROVE  Seen(k, m) \in Text \cup {None}
<1> DEFINE all == {i \in 1..m : Given[i].name = k}
<1>1. Given \in Seq(Param) /\ Len(Given) \in Nat
  BY GivenTypes
<1>2. CASE all = {}
  BY <1>2 DEF Seen
<1>3. CASE all # {}
  <2>1. all \in SUBSET (0..m)
    OBVIOUS
  <2>3. Max(all) \in all
    <3> HIDE DEF all
    <3> QED
      BY <1>3, <2>1, MaxInSet
  <2> DEFINE x == Max(all)
  <2>4. x \in 1..Len(Given)
    <3>1. x \in 1..m
      BY <2>3
    <3> HIDE DEF x
    <3> QED
      BY <1>1, <3>1
  <2>5. Given[x] \in Param
    <3> HIDE DEF x
    <3> QED
      BY <1>1, <2>4, ElementOfSeq
  <2>6. Given[x].value \in Text
    <3> HIDE DEF x
    <3> QED
      BY <2>5, ParamTypes
  <2> QED
    BY <1>3, <2>6 DEF Seen
<1> QED
  BY <1>2, <1>3

LEMMA SeenNext ==
    ASSUME challenge \in Challenges, NEW k, NEW m \in 1..Len(Given)
    PROVE  Seen(k, m) = IF Given[m].name = k THEN Given[m].value ELSE Seen(k, m - 1)
<1> DEFINE all == {i \in 1..m : Given[i].name = k}
           old == {i \in 1..(m - 1) : Given[i].name = k}
<1>1. m \in Nat \ {0}
  BY GivenTypes
<1>2. CASE Given[m].name = k
  <2>1. all \in SUBSET Nat /\ m \in all /\ \A i \in all : i <= m
    BY <1>1, <1>2
  <2>2. Max(all) = m
    <3> HIDE DEF all
    <3> QED
      BY <2>1, MaxIs
  <2> QED
    BY <1>2, <2>1, <2>2 DEF Seen
<1>3. CASE Given[m].name # k
  <2>1. all = old
    <3>1. \A i \in 1..m : i = m \/ i \in 1..(m - 1)
      BY <1>1
    <3>2. \A i \in 1..(m - 1) : i \in 1..m
      BY <1>1
    <3> QED
      BY <1>3, <3>1, <3>2
  <2> QED
    BY <1>3, <2>1 DEF Seen
<1> QED
  BY <1>2, <1>3

(* All parameters seen, that is what was given. *)
LEMMA AllSeen ==
    ASSUME challenge \in Challenges, NEW k
    PROVE  Seen(k, Len(Given)) = LastGiven(k)
  BY GivenTypes DEF Seen, LastGiven

(* Where the scanner is when there is more text. *)
LEMMA Here ==
    ASSUME ChallengeInv, phase = "split", Given # <<>>
    PROVE  LET p == Given[at] IN
           /\ p \in Param /\ at \in 1..Len(Given) /\ Len(Given) \in Nat
           /\ Spelled(p) \in Seq(Char) /\ Len(Spelled(p)) \in Nat
           /\ Spelled(p) # <<>>
           /\ off \in 1..(Len(Spelled(p)) + 1)
           /\ cur = SubSeq(Spelled(p), 1, off - 1)
           /\ in_quotes <=> Inside(p, off)
<1>1. Given \in Seq(Param) /\ Len(Given) \in Nat
  BY GivenTypes DEF ChallengeInv, TypeOK
<1>2. /\ at \in 1..Len(Given) /\ off \in 1..(Len(Spelled(Given[at])) + 1)
      /\ cur = SubSeq(Spelled(Given[at]), 1, off - 1)
  BY DEF ChallengeInv, Splitting
<1>7. in_quotes <=> Inside(Given[at], off)
  BY Zenon DEF ChallengeInv, Splitting
<1>3. Given[at] \in Param
  BY <1>1, <1>2, ElementOfSeq
<1>4. IsSpelled(Spelled(Given[at]), Given[at])
  BY <1>3, SpelledIs
<1>5. Spelled(Given[at]) \in Seq(Char) /\ Len(Spelled(Given[at])) \in Nat
  BY <1>4, LenProperties DEF IsSpelled
<1>6. Spelled(Given[at]) # <<>>
  <2> DEFINE s == Spelled(Given[at])
             z == Len(Given[at].value)
             o == Open(Given[at])
  <2>1. Len(s) = o - 1 + (IF Given[at].form = "quoted" THEN z + 2 ELSE z)
    BY <1>4 DEF IsSpelled
  <2>2. o \in 3..4
    BY <1>3, ParamTypes DEF Open
  <2>3. z \in Nat
    BY <1>3, ParamTypes, LenProperties
  <2> HIDE DEF s, z, o
  <2>4. Len(s) # 0
    BY <2>1, <2>2, <2>3
  <2> QED
    BY <2>4 DEF s
<1> QED
  BY <1>1, <1>2, <1>3, <1>5, <1>6, <1>7

(* A character that is kept: what was begun goes on. *)
LEMMA Kept ==
    ASSUME NEW s \in Seq(Char), NEW j \in 1..Len(s)
    PROVE  /\ SubSeq(s, 1, j) = Append(SubSeq(s, 1, j - 1), s[j])
           /\ SubSeq(s, 1, j) \in Seq(Char)
<1> DEFINE a == SubSeq(s, 1, j - 1)
           b == SubSeq(s, 1, j)
<1>1. /\ a \in Seq(Char) /\ Len(a) = j - 1 /\ \A i \in 1..(j - 1) : a[i] = s[i]
  <2>1. j - 1 \in Nat /\ j - 1 <= Len(s)
    OBVIOUS
  <2> QED
    BY <2>1, PrefixIs
<1>2. /\ b \in Seq(Char) /\ Len(b) = j /\ \A i \in 1..j : b[i] = s[i]
  <2>1. j \in Nat /\ j <= Len(s)
    OBVIOUS
  <2> QED
    BY <2>1, PrefixIs
<1>3. s[j] \in Char
  BY ElementOfSeq
<1> HIDE DEF a, b
<1>4. /\ Append(a, s[j]) \in Seq(Char) /\ Len(Append(a, s[j])) = j
      /\ \A i \in 1..j : Append(a, s[j])[i] = s[i]
  BY <1>1, <1>3
<1>5. b = Append(a, s[j])
  <2>1. \A i \in 1..Len(b) : b[i] = Append(a, s[j])[i]
    BY <1>2, <1>4
  <2> QED
    BY <1>2, <1>4, <2>1, SeqEqual
<1> QED
  BY <1>2, <1>5 DEF a, b

(* The characters inside a parameter. *)
LEMMA CharacterKept ==
    ASSUME ChallengeInv, phase = "split", Given # <<>>,
           off <= Len(Spelled(Given[at])), off' = off + 1, at' = at,
           cur' = Append(cur, Spelled(Given[at])[off]),
           in_quotes' \in BOOLEAN, in_quotes' <=> Inside(Given[at], off + 1),
           UNCHANGED <<challenge, login, phase, out, n, params, request>>
    PROVE  ChallengeInv'
<1> DEFINE p == Given[at]
           s == Spelled(Given[at])
<1>1. /\ p \in Param /\ at \in 1..Len(Given) /\ s \in Seq(Char) /\ Len(s) \in Nat
      /\ off \in 1..(Len(s) + 1) /\ cur = SubSeq(s, 1, off - 1)
  BY Here
<1>2. Given' = Given
  BY DEF Given
<1>3. off \in 1..Len(s) /\ off' \in 1..(Len(s) + 1) /\ off' - 1 = off /\ off' \in Nat \ {0}
  <2> HIDE DEF s
  <2>1. off <= Len(s)
    BY DEF s
  <2> QED
    BY <1>1, <2>1
<1>4. cur' = SubSeq(s, 1, off) /\ cur' \in Seq(Char)
  BY <1>1, <1>3, Kept
<1>5. TypeOK'
  BY <1>3, <1>4 DEF ChallengeInv, TypeOK
<1>6. Splitting'
  <2>1. /\ n = 1 /\ params = [k \in Known |-> None]
        /\ out = [i \in 1..(at - 1) |-> Spelled(Given[i])]
    BY DEF ChallengeInv, Splitting
  <2>2. n' = 1 /\ params' = [k \in Known |-> None]
        /\ out' = [i \in 1..(at' - 1) |-> Spelled(Given'[i])]
    BY <1>2, <2>1
  <2>3. /\ at' \in 1..Len(Given') /\ off' \in 1..(Len(Spelled(Given'[at'])) + 1)
        /\ cur' = SubSeq(Spelled(Given'[at']), 1, off' - 1)
    BY <1>1, <1>2, <1>3, <1>4
  <2>4. in_quotes' <=> Inside(Given'[at'], off')
    BY <1>2
  <2> QED
    BY <1>2, <2>2, <2>3, <2>4 DEF Splitting
<1>7. Reading' /\ AsksAsChallenged'
  BY DEF Reading, AsksAsChallenged
<1> QED
  BY <1>5, <1>6, <1>7 DEF ChallengeInv

LEMMA SomethingGiven ==
    ASSUME ChallengeInv, More
    PROVE  Given # <<>>
<1>1. at <= Len(Given) /\ at \in Nat \ {0}
  BY DEF More, ChallengeInv, TypeOK
<1> QED
  BY <1>1

LEMMA ScanQuote == ChallengeInv /\ Quote => ChallengeInv'
<1> SUFFICES ASSUME ChallengeInv, Quote PROVE ChallengeInv'
  OBVIOUS
<1>1. phase = "split" /\ More /\ NextChar = "quote" /\ Given # <<>>
  BY SomethingGiven DEF Quote
<1> DEFINE p == Given[at]
           s == Spelled(Given[at])
<1>2. /\ p \in Param /\ Len(s) \in Nat /\ off \in 1..(Len(s) + 1)
  BY <1>1, Here
<1>3. off <= Len(s) /\ s[off] = "quote"
  BY <1>1 DEF NextChar
<1>4. off' = off + 1 /\ at' = at
  BY <1>3 DEF Quote, Advance
<1>5. Inside(p, off + 1) <=> ~Inside(p, off)
  <2>1. off \in 1..Len(s)
    <3> HIDE DEF s
    <3> QED
      BY <1>2, <1>3
  <2> QED
    BY <1>2, <1>3, <2>1, WhereMarksAre
<1>6. in_quotes' = ~in_quotes
  BY DEF Quote
<1>7. in_quotes <=> Inside(p, off)
  BY <1>1, Here
<1>8. in_quotes' \in BOOLEAN /\ (in_quotes' <=> Inside(p, off + 1))
  BY <1>5, <1>6, <1>7, Zenon
<1>9. /\ cur' = Append(cur, s[off])
      /\ UNCHANGED <<challenge, login, phase, out, n, params, request>>
  BY <1>3 DEF Quote
<1> QED
  BY <1>1, <1>3, <1>4, <1>8, <1>9, CharacterKept

LEMMA ScanKeep == ChallengeInv /\ Keep => ChallengeInv'
<1> SUFFICES ASSUME ChallengeInv, Keep PROVE ChallengeInv'
  OBVIOUS
<1>1. phase = "split" /\ More /\ NextChar # "quote" /\ Given # <<>>
  BY SomethingGiven DEF Keep
<1> DEFINE p == Given[at]
           s == Spelled(Given[at])
<1>2. /\ p \in Param /\ Len(s) \in Nat /\ off \in 1..(Len(s) + 1)
  BY <1>1, Here
<1>3. in_quotes <=> Inside(p, off)
  BY <1>1, Here
<1>4. off <= Len(s)
  <2> SUFFICES ASSUME ~(off <= Len(s)) PROVE FALSE
    OBVIOUS
  <2>1. NextChar = ","
    BY DEF NextChar
  <2>2. in_quotes
    BY <1>1, <2>1 DEF Keep, Separator
  <2> QED
    BY <1>3, <2>2 DEF Inside
<1>5. NextChar = s[off]
  BY <1>4 DEF NextChar
<1>6. off' = off + 1 /\ at' = at
  BY <1>4 DEF Keep, Advance
<1>7. Inside(p, off + 1) <=> Inside(p, off)
  <2>1. off \in 1..Len(s)
    <3> HIDE DEF s
    <3> QED
      BY <1>2, <1>4
  <2> QED
    BY <1>1, <1>2, <1>5, <2>1, WhereMarksAre
<1>8. in_quotes' = in_quotes /\ in_quotes \in BOOLEAN
  BY DEF Keep, ChallengeInv, TypeOK
<1>9. in_quotes' \in BOOLEAN /\ (in_quotes' <=> Inside(p, off + 1))
  BY <1>3, <1>7, <1>8, Zenon
<1>10. /\ cur' = Append(cur, s[off])
       /\ UNCHANGED <<challenge, login, phase, out, n, params, request>>
  BY <1>5 DEF Keep
<1> QED
  BY <1>1, <1>4, <1>6, <1>9, <1>10, CharacterKept

(* One part more. *)
LEMMA PartEnds ==
    ASSUME ChallengeInv, phase = "split", Given # <<>>, off > Len(Spelled(Given[at]))
    PROVE  /\ cur = Spelled(Given[at]) /\ cur # <<>>
           /\ ~in_quotes
           /\ Append(out, cur) = [i \in 1..at |-> Spelled(Given[i])]
           /\ Append(out, cur) \in Seq(Seq(Char))
<1> DEFINE s == Spelled(Given[at])
           old == [i \in 1..(at - 1) |-> Spelled(Given[i])]
           new == [i \in 1..at |-> Spelled(Given[i])]
<1>1. /\ at \in 1..Len(Given) /\ s \in Seq(Char) /\ Len(s) \in Nat /\ s # <<>>
      /\ off \in 1..(Len(s) + 1) /\ cur = SubSeq(s, 1, off - 1) /\ Len(Given) \in Nat
  BY Here
<1>2. ~in_quotes
  <2>1. in_quotes <=> Inside(Given[at], off)
    BY Here
  <2>2. ~(off <= Len(s))
    <3> HIDE DEF s
    <3>1. off > Len(s)
      BY DEF s
    <3> QED
      BY <1>1, <3>1
  <2> QED
    BY <2>1, <2>2 DEF Inside
<1>3. cur = s
  <2>1. off > Len(s)
    OBVIOUS
  <2> HIDE DEF s
  <2>2. off - 1 = Len(s)
    BY <1>1, <2>1
  <2> QED
    BY <1>1, <2>2
<1>4. out = old
  BY DEF ChallengeInv, Splitting
<1>5. \A i \in 1..at : Spelled(Given[i]) \in Seq(Char)
  <2> TAKE i \in 1..at
  <2>1. i \in 1..Len(Given)
    BY <1>1
  <2>2. Given[i] \in Param
    BY <2>1, GivenTypes, ElementOfSeq DEF ChallengeInv, TypeOK
  <2> QED
    BY <2>2, SpelledIs DEF IsSpelled
<1>6. new \in Seq(Seq(Char)) /\ Len(new) = at
  BY <1>1, <1>5
<1>7. old \in Seq(Seq(Char)) /\ Len(old) = at - 1
  BY <1>1, <1>5
<1>8. Append(old, s) = new
  <2>1. Append(old, s) \in Seq(Seq(Char)) /\ Len(Append(old, s)) = at
    BY <1>1, <1>7
  <2>2. ASSUME NEW i \in 1..at PROVE Append(old, s)[i] = new[i]
    <3>1. CASE i = at
      <4>1. Append(old, s)[Len(old) + 1] = s
        BY <1>1, <1>7
      <4> QED
        BY <1>1, <1>7, <3>1, <4>1
    <3>2. CASE i # at
      <4>1. i \in 1..(at - 1)
        BY <1>1, <3>2
      <4>2. Append(old, s)[i] = old[i]
        BY <1>1, <1>7, <4>1
      <4> QED
        BY <4>1, <4>2
    <3> QED
      BY <3>1, <3>2
  <2> HIDE DEF old, new
  <2> QED
    BY <1>6, <2>1, <2>2, SeqEqual
<1> QED
  BY <1>1, <1>2, <1>3, <1>4, <1>6, <1>8

LEMMA ScanEndParam == ChallengeInv /\ EndParam => ChallengeInv'
<1> SUFFICES ASSUME ChallengeInv, EndParam PROVE ChallengeInv'
  OBVIOUS
<1>1. phase = "split" /\ More /\ NextChar = "," /\ ~in_quotes /\ Given # <<>>
  BY SomethingGiven DEF EndParam, Separator
<1> DEFINE p == Given[at]
           s == Spelled(Given[at])
<1>2. /\ p \in Param /\ Len(s) \in Nat /\ off \in 1..(Len(s) + 1)
      /\ at \in 1..Len(Given) /\ Len(Given) \in Nat
  BY <1>1, Here
<1>3. in_quotes <=> Inside(p, off)
  BY <1>1, Here
<1>4. ~(off <= Len(s))
  <2> SUFFICES ASSUME off <= Len(s) PROVE FALSE
    OBVIOUS
  <2>1. s[off] = ","
    BY <1>1 DEF NextChar
  <2>2. off \in 1..Len(s)
    <3>1. off <= Len(s)
      OBVIOUS
    <3> HIDE DEF s
    <3> QED
      BY <1>2, <3>1
  <2>3. Inside(p, off)
    BY <1>2, <2>1, <2>2, WhereMarksAre
  <2> QED
    BY <1>1, <1>3, <2>3
<1>5. off > Len(s)
  <2>1. ~(off <= Len(s))
    BY <1>4
  <2> HIDE DEF s
  <2> QED
    BY <1>2, <2>1
<1>6. at < Len(Given)
  BY <1>1, <1>4 DEF More
<1>7. off' = 1 /\ at' = at + 1
  BY <1>4 DEF EndParam, Advance
<1>8. /\ Append(out, cur) = [i \in 1..at |-> Spelled(Given[i])]
      /\ Append(out, cur) \in Seq(Seq(Char))
  BY <1>1, <1>5, PartEnds
<1>9. /\ out' = Append(out, cur) /\ cur' = <<>>
      /\ UNCHANGED <<challenge, login, phase, in_quotes, n, params, request>>
  BY DEF EndParam
<1>10. Given' = Given
  BY <1>9 DEF Given
<1>11. at' \in 1..Len(Given) /\ at' - 1 = at /\ at' \in Nat \ {0}
  BY <1>2, <1>6, <1>7
<1>12. TypeOK'
  BY <1>7, <1>8, <1>9, <1>11 DEF ChallengeInv, TypeOK
<1>13. Splitting'
  <2>1. n' = 1 /\ params' = [k \in Known |-> None]
    BY <1>1, <1>9 DEF ChallengeInv, Splitting
  <2>2. out' = [i \in 1..(at' - 1) |-> Spelled(Given'[i])]
    BY <1>8, <1>9, <1>10, <1>11
  <2>3. IsSpelled(Spelled(Given[at']), Given[at']) /\ Given[at'] \in Param
    <3>1. Given[at'] \in Param
      BY <1>11, GivenTypes, ElementOfSeq DEF ChallengeInv, TypeOK
    <3> QED
      BY <3>1, SpelledIs
  <2>4. Len(Spelled(Given[at'])) \in Nat
    BY <2>3, LenProperties DEF IsSpelled
  <2>5. /\ at' \in 1..Len(Given') /\ off' \in 1..(Len(Spelled(Given'[at'])) + 1)
        /\ cur' = SubSeq(Spelled(Given'[at']), 1, off' - 1)
    <3> DEFINE z == Len(Spelled(Given[at']))
    <3>1. 1 \in 1..(z + 1)
      <4> HIDE DEF z
      <4>1. z \in Nat
        BY <2>4 DEF z
      <4> QED
        BY <4>1
    <3>2. SubSeq(Spelled(Given[at']), 1, 0) = <<>>
      OBVIOUS
    <3>3. off' - 1 = 0
      BY <1>7
    <3> QED
      BY <1>7, <1>9, <1>10, <1>11, <3>1, <3>2, <3>3
  <2>6. ~Inside(Given[at'], off')
    <3>1. Open(Given[at']) >= 3 /\ Open(Given[at']) \in Nat
      BY <2>3, ParamTypes DEF Open
    <3>2. ~(off' > Open(Given[at']))
      BY <1>7, <3>1
    <3> QED
      BY <3>2 DEF Inside
  <2>7. in_quotes' <=> Inside(Given'[at'], off')
    BY <1>1, <1>9, <1>10, <2>6
  <2> QED
    BY <1>1, <1>10, <2>1, <2>2, <2>5, <2>7 DEF Splitting
<1>14. Reading' /\ AsksAsChallenged'
  BY <1>1, <1>9 DEF Reading, AsksAsChallenged
<1> QED
  BY <1>12, <1>13, <1>14 DEF ChallengeInv

LEMMA ScanEnds == ChallengeInv /\ EndText => ChallengeInv'
<1> SUFFICES ASSUME ChallengeInv, EndText PROVE ChallengeInv'
  OBVIOUS
<1>1. /\ phase = "split" /\ ~More
      /\ out' = (IF cur = <<>> THEN out ELSE Append(out, cur))
      /\ phase' = "read"
      /\ UNCHANGED <<challenge, login, at, off, in_quotes, cur, n, params, request>>
  BY DEF EndText
<1> DEFINE all == [i \in 1..Len(Given) |-> Spelled(Given[i])]
<1>2. Given' = Given
  BY <1>1 DEF Given
<1>3. Len(Given) \in Nat
  BY GivenTypes DEF ChallengeInv, TypeOK
<1>4. out' = all /\ out' \in Seq(Seq(Char))
  <2>1. CASE Given = <<>>
    <3>1. at = 1 /\ cur = <<>> /\ out = [i \in 1..(at - 1) |-> Spelled(Given[i])]
      BY <1>1, <2>1 DEF ChallengeInv, Splitting
    <3>2. Len(Given) = 0 /\ at - 1 = 0
      BY <2>1, <3>1
    <3>3. out = all
      BY <3>1, <3>2
    <3> QED
      BY <1>1, <3>1, <3>3 DEF ChallengeInv, TypeOK
  <2>2. CASE Given # <<>>
    <3> DEFINE z == Len(Spelled(Given[at]))
    <3>1. at \in 1..Len(Given) /\ z \in Nat /\ off \in 1..(z + 1)
      BY <1>1, <2>2, Here
    <3>2. ~(off <= z \/ at < Len(Given))
      BY <1>1, <3>1 DEF More
    <3>3. off > z /\ at = Len(Given)
      <4> HIDE DEF z
      <4> QED
        BY <1>3, <3>1, <3>2
    <3>4. /\ cur # <<>> /\ Append(out, cur) = [i \in 1..at |-> Spelled(Given[i])]
          /\ Append(out, cur) \in Seq(Seq(Char))
      BY <1>1, <2>2, <3>3, PartEnds
    <3> QED
      BY <1>1, <3>3, <3>4
  <2> QED
    BY <2>1, <2>2
<1>5. TypeOK'
  BY <1>1, <1>4 DEF ChallengeInv, TypeOK
<1>6. Reading'
  <2>1. n = 1 /\ params = [k \in Known |-> None]
    BY <1>1 DEF ChallengeInv, Splitting
  <2>2. n' \in 1..(Len(Given') + 1) /\ n' - 1 = 0
    BY <1>1, <1>2, <1>3, <2>1
  <2>3. \A k : Seen(k, 0)' = None
    <3>1. \A k : {i \in 1..0 : Given'[i].name = k} = {}
      OBVIOUS
    <3> QED
      BY <3>1 DEF Seen
  <2>4. params' = [k \in Known |-> Seen(k, n - 1)']
    BY <1>1, <2>1, <2>2, <2>3
  <2> QED
    BY <1>1, <1>2, <1>4, <2>2, <2>4 DEF Reading
<1>7. Splitting' /\ AsksAsChallenged'
  BY <1>1 DEF Splitting, AsksAsChallenged
<1> QED
  BY <1>5, <1>6, <1>7 DEF ChallengeInv

LEMMA ReadsPart == ChallengeInv /\ Read => ChallengeInv'
<1> SUFFICES ASSUME ChallengeInv, Read PROVE ChallengeInv'
  OBVIOUS
<1>1. /\ phase = "read" /\ n <= Len(out) /\ n' = n + 1
      /\ params' = [k \in Known |-> IF Contains(out[n], "=") /\ Key(out[n]) = <<k>>
                                    THEN Value(out[n]) ELSE params[k]]
      /\ UNCHANGED <<challenge, login, phase, scanner, request>>
  BY DEF Read
<1>2. /\ out = [i \in 1..Len(Given) |-> Spelled(Given[i])]
      /\ n \in 1..(Len(Given) + 1)
      /\ params = [k \in Known |-> Seen(k, n - 1)]
  BY <1>1 DEF ChallengeInv, Reading
<1>3. Given' = Given /\ Len(Given) \in Nat /\ challenge \in Challenges
  BY <1>1, GivenTypes DEF Given, ChallengeInv, TypeOK
<1>4. n \in 1..Len(Given)
  <2>1. Len(out) = Len(Given)
    BY <1>2, <1>3
  <2> QED
    BY <1>1, <1>2, <1>3, <2>1
<1>5. Given[n] \in Param
  BY <1>3, <1>4, GivenTypes, ElementOfSeq
<1>6. out[n] = Spelled(Given[n])
  BY <1>2, <1>4
<1>7. Contains(out[n], "=") /\ Key(out[n]) = <<Given[n].name>> /\ Value(out[n]) = Given[n].value
  BY <1>5, <1>6, PartIsRead
<1>8. \A k \in Known : params'[k] = Seen(k, n)
  <2> TAKE k \in Known
  <2>1. <<Given[n].name>> = <<k>> <=> Given[n].name = k
    OBVIOUS
  <2>2. params'[k] = IF Given[n].name = k THEN Given[n].value ELSE params[k]
    BY <1>1, <1>7, <2>1
  <2>3. params[k] = Seen(k, n - 1)
    BY <1>2
  <2> QED
    BY <1>3, <1>4, <2>2, <2>3, SeenNext
<1>9. \A k \in Known : Seen(k, n) \in Text \cup {None}
  BY <1>3, <1>4, SeenTypes
<1>10. params' = [k \in Known |-> Seen(k, n)]
  BY <1>1, <1>8
<1>11. n' \in 1..(Len(Given) + 1) /\ n' - 1 = n /\ n' \in Nat \ {0}
  BY <1>1, <1>3, <1>4
<1>12. TypeOK'
  BY <1>1, <1>9, <1>10, <1>11 DEF ChallengeInv, TypeOK, scanner
<1>13. Reading'
  <2>1. \A k : Seen(k, n - 1)' = Seen(k, n)
    BY <1>3, <1>11 DEF Seen
  <2>2. params' = [k \in Known |-> Seen(k, n - 1)']
    BY <1>10, <2>1
  <2>3. out' = [i \in 1..Len(Given) |-> Spelled(Given[i])]
    BY <1>1, <1>2 DEF scanner
  <2>4. out' = [i \in 1..Len(Given') |-> Spelled(Given'[i])]
    BY <1>3, <2>3
  <2>5. n' \in 1..(Len(Given') + 1)
    BY <1>3, <1>11
  <2> QED
    BY <2>2, <2>4, <2>5 DEF Reading, Spelled
<1>14. Splitting' /\ AsksAsChallenged'
  BY <1>1 DEF Splitting, AsksAsChallenged
<1> QED
  BY <1>12, <1>13, <1>14 DEF ChallengeInv

LEMMA Asks == ChallengeInv /\ Ask => ChallengeInv'
<1> SUFFICES ASSUME ChallengeInv, Ask PROVE ChallengeInv'
  OBVIOUS
<1>1. /\ phase = "read" /\ n > Len(out)
      /\ UNCHANGED <<challenge, login, scanner, n, params>>
      /\ phase' \in {"asked", "failed"}
  BY DEF Ask
<1>2. /\ out = [i \in 1..Len(Given) |-> Spelled(Given[i])]
      /\ n \in 1..(Len(Given) + 1)
      /\ params = [k \in Known |-> Seen(k, n - 1)]
  BY <1>1 DEF ChallengeInv, Reading
<1>3. Len(Given) \in Nat /\ challenge \in Challenges /\ Given' = Given
  BY <1>1, GivenTypes DEF Given, ChallengeInv, TypeOK
<1>4. n - 1 = Len(Given)
  <2>1. Len(out) = Len(Given)
    BY <1>2, <1>3
  <2> QED
    BY <1>1, <1>2, <1>3, <2>1
<1>5. \A k \in Known : params[k] = LastGiven(k)
  BY <1>2, <1>3, <1>4, AllSeen
<1>6. \A k : LastGiven(k)' = LastGiven(k)
  BY <1>3 DEF LastGiven
<1>7. "realm" \in Known /\ "service" \in Known /\ "scope" \in Known
  BY DEF Known
<1>8. AsksAsChallenged'
  <2>1. CASE params["realm"] = None
    <3>1. phase' = "failed"
      BY <2>1 DEF Ask
    <3> QED
      BY <1>5, <1>6, <1>7, <2>1, <3>1 DEF AsksAsChallenged
  <2>2. CASE params["realm"] # None
    <3>1. /\ phase' = "asked"
          /\ request'.realm = params["realm"] /\ request'.service = params["service"]
          /\ request'.scope = IF params["scope"] = None THEN Implied ELSE params["scope"]
      BY <2>2 DEF Ask
    <3> QED
      BY <1>5, <1>6, <1>7, <2>2, <3>1 DEF AsksAsChallenged
  <2> QED
    BY <2>1, <2>2
<1>9. TypeOK'
  BY <1>1 DEF ChallengeInv, TypeOK, scanner
<1>10. Splitting' /\ Reading'
  BY <1>1 DEF Splitting, Reading
<1> QED
  BY <1>8, <1>9, <1>10 DEF ChallengeInv

LEMMA Starts == Init => ChallengeInv
<1> SUFFICES ASSUME Init PROVE ChallengeInv
  OBVIOUS
<1>1. /\ challenge \in Challenges /\ login \in Logins \cup {None}
      /\ phase = (IF challenge.scheme = "Other" THEN "failed" ELSE "split")
      /\ at = 1 /\ off = 1 /\ in_quotes = FALSE /\ cur = <<>> /\ out = <<>> /\ n = 1
      /\ params = [k \in Known |-> None]
  BY DEF Init
<1>2. TypeOK
  <2>1. cur \in Seq(Char) /\ out \in Seq(Seq(Char))
    BY <1>1
  <2>2. params \in [Known -> Text \cup {None}]
    BY <1>1
  <2>3. in_quotes \in BOOLEAN
    BY <1>1, Zenon
  <2>4. phase \in {"split", "read", "asked", "failed"}
    BY <1>1
  <2>5. at \in Nat \ {0} /\ off \in Nat \ {0} /\ n \in Nat \ {0}
    BY <1>1
  <2> QED
    BY <1>1, <2>1, <2>2, <2>3, <2>4, <2>5, Zenon DEF TypeOK
<1>3. Splitting
  <2>1. out = [i \in 1..(at - 1) |-> Spelled(Given[i])]
    BY <1>1
  <2>2. ASSUME Given # <<>>
        PROVE  /\ at \in 1..Len(Given)
               /\ off \in 1..(Len(Spelled(Given[at])) + 1)
               /\ cur = SubSeq(Spelled(Given[at]), 1, off - 1)
               /\ in_quotes <=> Inside(Given[at], off)
    <3>1. Given \in Seq(Param) /\ Len(Given) \in Nat \ {0}
      BY <1>1, <2>2, GivenTypes, EmptySeq
    <3>2. at \in 1..Len(Given)
      BY <1>1, <3>1
    <3>3. Given[at] \in Param
      BY <3>1, <3>2, ElementOfSeq
    <3>4. IsSpelled(Spelled(Given[at]), Given[at])
      BY <3>3, SpelledIs
    <3> DEFINE z == Len(Spelled(Given[at]))
    <3>5. z \in Nat
      BY <3>4, LenProperties DEF IsSpelled
    <3>6. Open(Given[at]) >= 3 /\ Open(Given[at]) \in Nat
      BY <3>3, ParamTypes DEF Open
    <3>7. ~(off > Open(Given[at]))
      BY <1>1, <3>6
    <3>8. ~Inside(Given[at], off)
      BY <3>7 DEF Inside
    <3>9. SubSeq(Spelled(Given[at]), 1, 0) = <<>> /\ off - 1 = 0
      BY <1>1
    <3>10. off \in 1..(z + 1)
      <4> HIDE DEF z
      <4> QED
        BY <1>1, <3>5
    <3>11. cur = SubSeq(Spelled(Given[at]), 1, off - 1)
      BY <1>1, <3>9
    <3>12. in_quotes <=> Inside(Given[at], off)
      BY <1>1, <3>8
    <3> QED
      BY <3>2, <3>10, <3>11, <3>12
  <2> QED
    BY <1>1, <2>1, <2>2 DEF Splitting
<1>4. Reading /\ AsksAsChallenged
  BY <1>1 DEF Reading, AsksAsChallenged
<1> QED
  BY <1>2, <1>3, <1>4 DEF ChallengeInv

LEMMA ChallengeInvariant == Spec => []ChallengeInv
<1>1. ChallengeInv /\ UNCHANGED vars => ChallengeInv'
  <2> SUFFICES ASSUME ChallengeInv, UNCHANGED vars PROVE ChallengeInv'
    OBVIOUS
  <2>1. UNCHANGED <<challenge, login, phase, at, off, in_quotes, cur, out, n, params, request>>
    BY DEF vars
  <2>2. TypeOK' /\ AsksAsChallenged'
    BY <2>1 DEF ChallengeInv, TypeOK, AsksAsChallenged, LastGiven, Given
  <2>3. Splitting'
    BY <2>1 DEF ChallengeInv, Splitting, Given
  <2>4. Reading'
    <3>1. Given' = Given
      BY <2>1 DEF Given
    <3>2. \A k \in Known : Seen(k, n - 1)' = Seen(k, n - 1)
      BY <2>1, <3>1 DEF Seen
    <3> QED
      BY <2>1, <3>1, <3>2 DEF ChallengeInv, Reading
  <2> QED
    BY <2>2, <2>3, <2>4 DEF ChallengeInv
<1>2. ChallengeInv /\ [Next]_vars => ChallengeInv'
  BY <1>1, ScanQuote, ScanKeep, ScanEndParam, ScanEnds, ReadsPart, Asks DEF Next
<1> QED
  BY <1>2, Starts, PTL DEF Spec

(* The types, for challenges of any length: the values that are read have no
   quotes left (registry.rs, trim_matches). *)
THEOREM TypeCorrect == Spec => []TypeOK
<1>1. ChallengeInv => TypeOK
  BY DEF ChallengeInv
<1> QED
  BY <1>1, ChallengeInvariant, PTL

(* For challenges of any length, with any values: the token endpoint is asked
   as the challenge says (registry.rs, obtain_token). *)
THEOREM ChallengeIsFollowed == Spec => []AsksAsChallenged
<1>1. ChallengeInv => AsksAsChallenged
  BY DEF ChallengeInv
<1> QED
  BY <1>1, ChallengeInvariant, PTL

--------------------------------------------------------------------------------
(* The j-th byte of a text, zero after its end. *)
ByteAt(b, j) == IF j <= Len(b) THEN b[j] ELSE 0

LEMMA ByteAtType ==
    ASSUME NEW b \in Seq(Byte), NEW j \in Nat \ {0}
    PROVE  ByteAt(b, j) \in Byte
<1>1. CASE j <= Len(b)
  <2>1. j \in 1..Len(b)
    BY <1>1
  <2>2. b[j] \in Byte
    BY <2>1, ElementOfSeq
  <2> QED
    BY <1>1, <2>2 DEF ByteAt
<1>2. CASE ~(j <= Len(b))
  BY <1>2 DEF ByteAt, Byte
<1> QED
  BY <1>1, <1>2

(* The four digits of three bytes. *)
LEMMA DigitsOf ==
    ASSUME NEW x \in Byte, NEW y \in Byte, NEW z \in Byte
    PROVE  LET g == 65536 * x + 256 * y + z IN
           /\ (g \div 64^3) % 64 = x \div 4
           /\ (g \div 64^2) % 64 = 16 * (x % 4) + (y \div 16)
           /\ (g \div 64^1) % 64 = 4 * (y % 16) + (z \div 64)
           /\ (g \div 64^0) % 64 = z % 64
<1> DEFINE g == 65536 * x + 256 * y + z
<1>1. x \in 0..255 /\ y \in 0..255 /\ z \in 0..255
  BY DEF Byte
<1>2. /\ g \div 262144 = x \div 4
      /\ g \div 4096 = 16 * x + (y \div 16)
      /\ g \div 64 = 1024 * x + 4 * y + (z \div 64)
      /\ g \div 1 = g
  BY <1>1
<1>3. /\ (x \div 4) % 64 = x \div 4
      /\ (16 * x + (y \div 16)) % 64 = 16 * (x % 4) + (y \div 16)
      /\ (1024 * x + 4 * y + (z \div 64)) % 64 = 4 * (y % 16) + (z \div 64)
      /\ g % 64 = z % 64
  BY <1>1
<1>4. 64^3 = 262144 /\ 64^2 = 4096 /\ 64^1 = 64 /\ 64^0 = 1
  OBVIOUS
<1> QED
  BY <1>2, <1>3, <1>4

(* A digit of base64 spelled in its six bits. *)
HasBits(d, b5, b4, b3, b2, b1, b0) ==
    /\ (d \div 32) % 2 = b5
    /\ (d \div 16) % 2 = b4
    /\ (d \div 8) % 2 = b3
    /\ (d \div 4) % 2 = b2
    /\ (d \div 2) % 2 = b1
    /\ (d \div 1) % 2 = b0

(* The bits of the four digits are those of the bytes. *)
LEMMA FirstDigit ==
    ASSUME NEW x \in 0..255, NEW d, d = x \div 4
    PROVE  HasBits(d, (x \div 128) % 2, (x \div 64) % 2, (x \div 32) % 2,
                      (x \div 16) % 2, (x \div 8) % 2, (x \div 4) % 2)
<1>1. /\ d \div 32 = x \div 128 /\ d \div 16 = x \div 64 /\ d \div 8 = x \div 32
      /\ d \div 4 = x \div 16 /\ d \div 2 = x \div 8 /\ d \div 1 = x \div 4
  BY SMTT(30)
<1> QED
  BY <1>1 DEF HasBits

LEMMA SecondDigit ==
    ASSUME NEW x \in 0..255, NEW y \in 0..255, NEW d, d = 16 * (x % 4) + (y \div 16)
    PROVE  HasBits(d, (x \div 2) % 2, (x \div 1) % 2, (y \div 128) % 2,
                      (y \div 64) % 2, (y \div 32) % 2, (y \div 16) % 2)
<1> DEFINE u == x % 4  v == y \div 16
<1>1. /\ u \in 0..3 /\ (u \div 2) % 2 = (x \div 2) % 2 /\ u % 2 = (x \div 1) % 2
  OBVIOUS
<1>2. /\ v \in 0..15
      /\ (v \div 8) % 2 = (y \div 128) % 2 /\ (v \div 4) % 2 = (y \div 64) % 2
      /\ (v \div 2) % 2 = (y \div 32) % 2 /\ (v \div 1) % 2 = (y \div 16) % 2
  OBVIOUS
<1>3. d = 16 * u + v
  OBVIOUS
<1> HIDE DEF u, v
<1>4. (d \div 32) % 2 = (u \div 2) % 2 /\ (d \div 16) % 2 = u % 2
  <2>1. d \div 16 = u
    BY <1>1, <1>2, <1>3, SMTT(30)
  <2>2. d \div 32 = u \div 2
    BY <1>1, <1>2, <1>3, SMTT(30)
  <2> QED
    BY <2>1, <2>2
<1>5. (d \div 8) % 2 = (v \div 8) % 2
  <2>1. d \div 8 = 2 * u + (v \div 8)
    BY <1>1, <1>2, <1>3, SMTT(30)
  <2> QED
    BY <1>1, <1>2, <2>1, SMTT(30)
<1>6. (d \div 4) % 2 = (v \div 4) % 2
  <2>1. d \div 4 = 4 * u + (v \div 4)
    BY <1>1, <1>2, <1>3, SMTT(30)
  <2> QED
    BY <1>1, <1>2, <2>1, SMTT(30)
<1>7. (d \div 2) % 2 = (v \div 2) % 2 /\ (d \div 1) % 2 = (v \div 1) % 2
  <2>1. d \div 2 = 8 * u + (v \div 2)
    BY <1>1, <1>2, <1>3, SMTT(30)
  <2>2. (d \div 2) % 2 = (v \div 2) % 2
    BY <1>1, <1>2, <2>1, SMTT(30)
  <2>3. (d \div 1) % 2 = (v \div 1) % 2
    BY <1>1, <1>2, <1>3, SMTT(30)
  <2> QED
    BY <2>2, <2>3
<1> QED
  BY <1>1, <1>2, <1>4, <1>5, <1>6, <1>7 DEF HasBits

LEMMA ThirdDigit ==
    ASSUME NEW y \in 0..255, NEW z \in 0..255, NEW d, d = 4 * (y % 16) + (z \div 64)
    PROVE  HasBits(d, (y \div 8) % 2, (y \div 4) % 2, (y \div 2) % 2,
                      (y \div 1) % 2, (z \div 128) % 2, (z \div 64) % 2)
<1> DEFINE u == y % 16  v == z \div 64
<1>1. /\ u \in 0..15
      /\ (u \div 8) % 2 = (y \div 8) % 2 /\ (u \div 4) % 2 = (y \div 4) % 2
      /\ (u \div 2) % 2 = (y \div 2) % 2 /\ u % 2 = (y \div 1) % 2
  OBVIOUS
<1>2. /\ v \in 0..3 /\ (v \div 2) % 2 = (z \div 128) % 2 /\ v % 2 = (z \div 64) % 2
  OBVIOUS
<1>3. d = 4 * u + v
  OBVIOUS
<1> HIDE DEF u, v
<1>4. d \div 32 = u \div 8
  BY <1>1, <1>2, <1>3, SMTT(30)
<1>5. d \div 16 = u \div 4
  BY <1>1, <1>2, <1>3, SMTT(30)
<1>6. d \div 8 = u \div 2
  BY <1>1, <1>2, <1>3, SMTT(30)
<1>7. d \div 4 = u
  BY <1>1, <1>2, <1>3, SMTT(30)
<1>8. (d \div 2) % 2 = (v \div 2) % 2 /\ (d \div 1) % 2 = v % 2
  <2>1. d \div 2 = 2 * u + (v \div 2)
    BY <1>1, <1>2, <1>3, SMTT(30)
  <2>2. (d \div 2) % 2 = (v \div 2) % 2
    BY <1>1, <1>2, <2>1, SMTT(30)
  <2>3. (d \div 1) % 2 = v % 2
    BY <1>1, <1>2, <1>3, SMTT(30)
  <2> QED
    BY <2>2, <2>3
<1> QED
  BY <1>1, <1>2, <1>4, <1>5, <1>6, <1>7, <1>8 DEF HasBits

LEMMA FourthDigit ==
    ASSUME NEW z \in 0..255, NEW d, d = z % 64
    PROVE  HasBits(d, (z \div 32) % 2, (z \div 16) % 2, (z \div 8) % 2,
                      (z \div 4) % 2, (z \div 2) % 2, (z \div 1) % 2)
<1> DEFINE h == z \div 64
<1>1. h \in 0..3 /\ d \in 0..63 /\ z = 64 * h + d
  OBVIOUS
<1> HIDE DEF h
<1>2. (d \div 32) % 2 = (z \div 32) % 2
  <2>1. z \div 32 = 2 * h + (d \div 32)
    BY <1>1, SMTT(30)
  <2> QED
    BY <1>1, <2>1, SMTT(30)
<1>3. (d \div 16) % 2 = (z \div 16) % 2
  <2>1. z \div 16 = 4 * h + (d \div 16)
    BY <1>1, SMTT(30)
  <2> QED
    BY <1>1, <2>1, SMTT(30)
<1>4. (d \div 8) % 2 = (z \div 8) % 2
  <2>1. z \div 8 = 8 * h + (d \div 8)
    BY <1>1, SMTT(30)
  <2> QED
    BY <1>1, <2>1, SMTT(30)
<1>5. (d \div 4) % 2 = (z \div 4) % 2
  <2>1. z \div 4 = 16 * h + (d \div 4)
    BY <1>1, SMTT(30)
  <2> QED
    BY <1>1, <2>1, SMTT(30)
<1>6. (d \div 2) % 2 = (z \div 2) % 2
  <2>1. z \div 2 = 32 * h + (d \div 2)
    BY <1>1, SMTT(30)
  <2> QED
    BY <1>1, <2>1, SMTT(30)
<1>7. (d \div 1) % 2 = (z \div 1) % 2
  <2>1. z \div 1 = 64 * h + (d \div 1)
    BY <1>1, SMTT(30)
  <2> QED
    BY <1>1, <2>1, SMTT(30)
<1> QED
  BY <1>2, <1>3, <1>4, <1>5, <1>6, <1>7 DEF HasBits

(* A digit of a group is less than 64. *)
LEMMA DigitType ==
    ASSUME NEW b \in Seq(Byte), NEW k \in Nat, NEW i \in 0..3
    PROVE  (Group(b, k) \div 64^(3 - i)) % 64 \in 0..63
<1>1. ByteAt(b, 3 * k + 1) \in Byte
  BY ByteAtType, 3 * k + 1 \in Nat \ {0}, Zenon
<1>2. ByteAt(b, 3 * k + 2) \in Byte
  BY ByteAtType, 3 * k + 2 \in Nat \ {0}, Zenon
<1>3. ByteAt(b, 3 * k + 3) \in Byte
  BY ByteAtType, 3 * k + 3 \in Nat \ {0}, Zenon
<1> DEFINE x == ByteAt(b, 3 * k + 1)
           y == ByteAt(b, 3 * k + 2)
           z == ByteAt(b, 3 * k + 3)
           g == Group(b, k)
<1>4. g = 65536 * x + 256 * y + z
  BY DEF Group, ByteAt
<1>5. x \in 0..255 /\ y \in 0..255 /\ z \in 0..255
  BY <1>1, <1>2, <1>3 DEF Byte
<1> HIDE DEF x, y, z, g
<1>6. g \in Nat
  BY <1>4, <1>5
<1>7. /\ (g \div 262144) % 64 \in 0..63 /\ (g \div 4096) % 64 \in 0..63
      /\ (g \div 64) % 64 \in 0..63 /\ (g \div 1) % 64 \in 0..63
  BY <1>6
<1>8. 64^3 = 262144 /\ 64^2 = 4096 /\ 64^1 = 64 /\ 64^0 = 1
  OBVIOUS
<1>9. CASE i = 0
  BY <1>7, <1>8, <1>9 DEF g
<1>10. CASE i = 1
  BY <1>7, <1>8, <1>10 DEF g
<1>11. CASE i = 2
  BY <1>7, <1>8, <1>11 DEF g
<1>12. CASE i = 3
  BY <1>7, <1>8, <1>12 DEF g
<1> QED
  BY <1>9, <1>10, <1>11, <1>12

(* The r-th bit of the k-th group of digits is the r-th bit of its bytes. *)
LEMMA DigitBit ==
    ASSUME NEW b \in Seq(Byte), NEW k \in Nat, NEW r \in 0..23
    PROVE  (((Group(b, k) \div 64^(3 - (r \div 6))) % 64) \div 2^(5 - (r % 6))) % 2
             = (ByteAt(b, 3 * k + (r \div 8) + 1) \div 2^(7 - (r % 8))) % 2
<1> DEFINE x == ByteAt(b, 3 * k + 1)
           y == ByteAt(b, 3 * k + 2)
           z == ByteAt(b, 3 * k + 3)
           g == Group(b, k)
<1>1. x \in Byte /\ y \in Byte /\ z \in Byte /\ g = 65536 * x + 256 * y + z
  <2>1. 3 * k + 1 \in Nat \ {0} /\ 3 * k + 2 \in Nat \ {0} /\ 3 * k + 3 \in Nat \ {0}
    OBVIOUS
  <2>2. x \in Byte
    BY <2>1, ByteAtType, Zenon
  <2>3. y \in Byte
    BY <2>1, ByteAtType, Zenon
  <2>4. z \in Byte
    BY <2>1, ByteAtType, Zenon
  <2>5. g = 65536 * x + 256 * y + z
    BY DEF Group, ByteAt
  <2> QED
    BY <2>2, <2>3, <2>4, <2>5
<1>2. /\ (g \div 64^3) % 64 = x \div 4
      /\ (g \div 64^2) % 64 = 16 * (x % 4) + (y \div 16)
      /\ (g \div 64^1) % 64 = 4 * (y % 16) + (z \div 64)
      /\ (g \div 64^0) % 64 = z % 64
  BY <1>1, DigitsOf
<1>3. /\ 2^0 = 1 /\ 2^1 = 2 /\ 2^2 = 4 /\ 2^3 = 8 /\ 2^4 = 16 /\ 2^5 = 32 /\ 2^6 = 64 /\ 2^7 = 128
  OBVIOUS
<1>4. x \in 0..255 /\ y \in 0..255 /\ z \in 0..255
  BY <1>1 DEF Byte
<1>5. r \in 0..5 \/ r \in 6..11 \/ r \in 12..17 \/ r \in 18..23
  OBVIOUS
<1> HIDE DEF x, y, z, g
<1>11. HasBits((g \div 64^3) % 64,
               (x \div 128) % 2, (x \div 64) % 2, (x \div 32) % 2,
               (x \div 16) % 2, (x \div 8) % 2, (x \div 4) % 2)
  BY <1>2, <1>4, FirstDigit, Zenon
<1>12. HasBits((g \div 64^2) % 64,
               (x \div 2) % 2, (x \div 1) % 2, (y \div 128) % 2,
               (y \div 64) % 2, (y \div 32) % 2, (y \div 16) % 2)
  BY <1>2, <1>4, SecondDigit, Zenon
<1>13. HasBits((g \div 64^1) % 64,
               (y \div 8) % 2, (y \div 4) % 2, (y \div 2) % 2,
               (y \div 1) % 2, (z \div 128) % 2, (z \div 64) % 2)
  BY <1>2, <1>4, ThirdDigit, Zenon
<1>14. HasBits((g \div 64^0) % 64,
               (z \div 32) % 2, (z \div 16) % 2, (z \div 8) % 2,
               (z \div 4) % 2, (z \div 2) % 2, (z \div 1) % 2)
  BY <1>2, <1>4, FourthDigit, Zenon
<1>7. CASE r \in 0..5
  <2>1. CASE r = 0
    BY <2>1, <1>3, <1>11 DEF HasBits, x, g
  <2>2. CASE r = 1
    BY <2>2, <1>3, <1>11 DEF HasBits, x, g
  <2>3. CASE r = 2
    BY <2>3, <1>3, <1>11 DEF HasBits, x, g
  <2>4. CASE r = 3
    BY <2>4, <1>3, <1>11 DEF HasBits, x, g
  <2>5. CASE r = 4
    BY <2>5, <1>3, <1>11 DEF HasBits, x, g
  <2>6. CASE r = 5
    BY <2>6, <1>3, <1>11 DEF HasBits, x, g
  <2> QED
    BY <1>7, <2>1, <2>2, <2>3, <2>4, <2>5, <2>6
<1>8. CASE r \in 6..11
  <2>1. CASE r = 6
    BY <2>1, <1>3, <1>12 DEF HasBits, x, g
  <2>2. CASE r = 7
    BY <2>2, <1>3, <1>12 DEF HasBits, x, g
  <2>3. CASE r = 8
    BY <2>3, <1>3, <1>12 DEF HasBits, y, g
  <2>4. CASE r = 9
    BY <2>4, <1>3, <1>12 DEF HasBits, y, g
  <2>5. CASE r = 10
    BY <2>5, <1>3, <1>12 DEF HasBits, y, g
  <2>6. CASE r = 11
    BY <2>6, <1>3, <1>12 DEF HasBits, y, g
  <2> QED
    BY <1>8, <2>1, <2>2, <2>3, <2>4, <2>5, <2>6
<1>9. CASE r \in 12..17
  <2>1. CASE r = 12
    BY <2>1, <1>3, <1>13 DEF HasBits, y, g
  <2>2. CASE r = 13
    BY <2>2, <1>3, <1>13 DEF HasBits, y, g
  <2>3. CASE r = 14
    BY <2>3, <1>3, <1>13 DEF HasBits, y, g
  <2>4. CASE r = 15
    BY <2>4, <1>3, <1>13 DEF HasBits, y, g
  <2>5. CASE r = 16
    BY <2>5, <1>3, <1>13 DEF HasBits, z, g
  <2>6. CASE r = 17
    BY <2>6, <1>3, <1>13 DEF HasBits, z, g
  <2> QED
    BY <1>9, <2>1, <2>2, <2>3, <2>4, <2>5, <2>6
<1>10. CASE r \in 18..23
  <2>1. CASE r = 18
    BY <2>1, <1>3, <1>14 DEF HasBits, z, g
  <2>2. CASE r = 19
    BY <2>2, <1>3, <1>14 DEF HasBits, z, g
  <2>3. CASE r = 20
    BY <2>3, <1>3, <1>14 DEF HasBits, z, g
  <2>4. CASE r = 21
    BY <2>4, <1>3, <1>14 DEF HasBits, z, g
  <2>5. CASE r = 22
    BY <2>5, <1>3, <1>14 DEF HasBits, z, g
  <2>6. CASE r = 23
    BY <2>6, <1>3, <1>14 DEF HasBits, z, g
  <2> QED
    BY <1>10, <2>1, <2>2, <2>3, <2>4, <2>5, <2>6
<1> QED
  BY <1>5, <1>7, <1>8, <1>9, <1>10

(* The number of digits that hold bits of the text. *)
Digits(b) == Len(b) + ((Len(b) + 2) \div 3)

(* The length of what is encoded, and which of it is padding. *)
LEMMA Base64Shape ==
    ASSUME NEW b \in Seq(Byte)
    PROVE  /\ Base64(b) \in Seq(0..64)
           /\ Len(Base64(b)) = 4 * ((Len(b) + 2) \div 3)
           /\ \A j \in 1..Len(Base64(b)) :
                Base64(b)[j] = IF j > Digits(b) THEN 64
                               ELSE (Group(b, (j - 1) \div 4) \div 64^(3 - ((j - 1) % 4))) % 64
<1> DEFINE size == 4 * ((Len(b) + 2) \div 3)
           digit(j) == IF 3 * ((j - 1) \div 4) + ((j - 1) % 4) > Len(b) THEN 64
                       ELSE (Group(b, (j - 1) \div 4) \div 64^(3 - ((j - 1) % 4))) % 64
<1>1. size \in Nat
  OBVIOUS
<1>2. Base64(b) = [j \in 1..size |-> digit(j)]
  BY DEF Base64
<1>3. ASSUME NEW j \in 1..size
      PROVE  digit(j) \in 0..64
  <2>1. (j - 1) \div 4 \in Nat /\ (j - 1) % 4 \in 0..3
    OBVIOUS
  <2>2. (Group(b, (j - 1) \div 4) \div 64^(3 - ((j - 1) % 4))) % 64 \in 0..63
    BY <2>1, DigitType, Zenon
  <2> QED
    BY <2>2
<1>4. ASSUME NEW j \in 1..size
      PROVE  3 * ((j - 1) \div 4) + ((j - 1) % 4) > Len(b) <=> j > Digits(b)
  BY DEF Digits
<1> HIDE DEF size, digit
<1>5. Base64(b) \in Seq(0..64) /\ Len(Base64(b)) = size
  BY <1>1, <1>2, <1>3
<1>6. \A j \in 1..size : Base64(b)[j] = digit(j)
  BY <1>2
<1> QED
  BY <1>4, <1>5, <1>6 DEF size, digit

LEMMA NoBits ==
    ASSUME NEW e \in 0..7
    PROVE  (0 \div 2^(7 - e)) % 2 = 0
<1>1. /\ 2^0 = 1 /\ 2^1 = 2 /\ 2^2 = 4 /\ 2^3 = 8 /\ 2^4 = 16 /\ 2^5 = 32 /\ 2^6 = 64 /\ 2^7 = 128
  OBVIOUS
<1>2. CASE e = 0
  BY <1>1, <1>2
<1>3. CASE e = 1
  BY <1>1, <1>3
<1>4. CASE e = 2
  BY <1>1, <1>4
<1>5. CASE e = 3
  BY <1>1, <1>5
<1>6. CASE e = 4
  BY <1>1, <1>6
<1>7. CASE e = 5
  BY <1>1, <1>7
<1>8. CASE e = 6
  BY <1>1, <1>8
<1>9. CASE e = 7
  BY <1>1, <1>9
<1> QED
  BY <1>2, <1>3, <1>4, <1>5, <1>6, <1>7, <1>8, <1>9

(* The m-th bit of the digits is the m-th bit of the text, zero after its end. *)
LEMMA Base64Bits ==
    ASSUME NEW b \in Seq(Byte), NEW m \in 0..(6 * Digits(b) - 1)
    PROVE  Bit(Base64(b), 6, m) = IF m < 8 * Len(b) THEN Bit(b, 8, m) ELSE 0
<1> DEFINE k == m \div 24
           r == m % 24
           j == (m \div 6) + 1
<1>1. m \in Nat /\ k \in Nat /\ r \in 0..23
  BY DEF Digits
<1>2. j \in 1..Digits(b)
  BY DEF Digits
<1>3. j \in 1..Len(Base64(b))
  BY <1>2, Base64Shape DEF Digits
<1>4. (j - 1) \div 4 = k /\ (j - 1) % 4 = r \div 6
  BY <1>1
<1>5. m % 6 = r % 6 /\ m % 8 = r % 8 /\ (m \div 8) + 1 = 3 * k + (r \div 8) + 1
  BY <1>1
<1> HIDE DEF k, r, j
<1>6. Base64(b)[j] = (Group(b, k) \div 64^(3 - (r \div 6))) % 64
  <2>1. ~(j > Digits(b))
    BY <1>2 DEF Digits
  <2> QED
    BY <1>3, <1>4, <2>1, Base64Shape, Zenon
<1>7. Bit(Base64(b), 6, m) = (Base64(b)[j] \div 2^(5 - (r % 6))) % 2
  BY <1>1, <1>5 DEF Bit, j
<1>8. (Base64(b)[j] \div 2^(5 - (r % 6))) % 2
        = (ByteAt(b, 3 * k + (r \div 8) + 1) \div 2^(7 - (r % 8))) % 2
  BY <1>1, <1>6, DigitBit, Zenon
<1>9. CASE m < 8 * Len(b)
  <2>1. (m \div 8) + 1 <= Len(b)
    BY <1>1, <1>9
  <2>2. ByteAt(b, 3 * k + (r \div 8) + 1) = b[(m \div 8) + 1]
    BY <1>5, <2>1 DEF ByteAt
  <2>3. Bit(b, 8, m) = (b[(m \div 8) + 1] \div 2^(7 - (r % 8))) % 2
    BY <1>1, <1>5 DEF Bit
  <2> QED
    BY <1>7, <1>8, <1>9, <2>2, <2>3
<1>10. CASE ~(m < 8 * Len(b))
  <2>1. ~((m \div 8) + 1 <= Len(b))
    BY <1>1, <1>10
  <2>2. ByteAt(b, 3 * k + (r \div 8) + 1) = 0
    BY <1>5, <2>1 DEF ByteAt
  <2>3. r % 8 \in 0..7
    BY <1>1
  <2>4. (0 \div 2^(7 - (r % 8))) % 2 = 0
    BY <2>3, NoBits, Zenon
  <2> QED
    BY <1>7, <1>8, <1>10, <2>2, <2>4
<1> QED
  BY <1>9, <1>10

(* What is said of the login, of any text and any digits. *)
Encodes(s, b) ==
    \E count \in 0..Len(s) :
        /\ Len(s) % 4 = 0 /\ Len(s) < count + 4
        /\ \A j \in DOMAIN s : IF j <= count THEN s[j] \in 0..63 ELSE s[j] = 64
        /\ 6 * (count - 1) < 8 * Len(b) /\ 8 * Len(b) <= 6 * count
        /\ \A m \in 0..(6 * count - 1) :
             Bit(s, 6, m) = IF m < 8 * Len(b) THEN Bit(b, 8, m) ELSE 0

LEMMA IsBase64 ==
    ASSUME NEW b \in Seq(Byte)
    PROVE  Encodes(Base64(b), b)
<1>1. Len(Base64(b)) = 4 * ((Len(b) + 2) \div 3) /\ Len(b) \in Nat
  BY Base64Shape
<1>2. /\ Digits(b) \in 0..Len(Base64(b))
      /\ Len(Base64(b)) % 4 = 0 /\ Len(Base64(b)) < Digits(b) + 4
      /\ 6 * (Digits(b) - 1) < 8 * Len(b) /\ 8 * Len(b) <= 6 * Digits(b)
  BY <1>1 DEF Digits
<1>3. ASSUME NEW j \in DOMAIN Base64(b)
      PROVE  IF j <= Digits(b) THEN Base64(b)[j] \in 0..63 ELSE Base64(b)[j] = 64
  <2>1. j \in 1..Len(Base64(b))
    BY Base64Shape
  <2>2. CASE j <= Digits(b)
    <3>1. (j - 1) \div 4 \in Nat /\ (j - 1) % 4 \in 0..3 /\ ~(j > Digits(b))
      <4>1. j \in Nat \ {0} /\ Digits(b) \in Nat
        BY <1>1, <1>2, <2>1
      <4> QED
        BY <2>2, <4>1
    <3>2. Base64(b)[j] = (Group(b, (j - 1) \div 4) \div 64^(3 - ((j - 1) % 4))) % 64
      BY <2>1, <3>1, Base64Shape, Zenon
    <3> QED
      BY <2>2, <3>1, <3>2, DigitType, Zenon
  <2>3. CASE ~(j <= Digits(b))
    <3>1. j > Digits(b)
      BY <1>2, <2>1, <2>3
    <3> QED
      BY <2>1, <2>3, <3>1, Base64Shape, Zenon
  <2> QED
    BY <2>2, <2>3
<1>4. \A m \in 0..(6 * Digits(b) - 1) :
        Bit(Base64(b), 6, m) = IF m < 8 * Len(b) THEN Bit(b, 8, m) ELSE 0
  BY Base64Bits, Zenon
<1> QED
  BY <1>2, <1>3, <1>4, Zenon DEF Encodes

(* What is asked carries the login that was given. *)
Asked ==
    /\ login \in Logins \cup {None}
    /\ phase = "asked" => request.basic = IF login = None THEN None ELSE Base64(login)

LEMMA AskedInvariant == Spec => []Asked
<1>1. Init => Asked
  BY DEF Init, Asked
<1>2. Asked /\ [Next]_vars => Asked'
  <2> SUFFICES ASSUME Asked, [Next]_vars PROVE Asked'
    OBVIOUS
  <2>1. CASE Quote
    BY <2>1 DEF Asked, Quote
  <2>2. CASE EndParam
    BY <2>2 DEF Asked, EndParam
  <2>3. CASE Keep
    BY <2>3 DEF Asked, Keep
  <2>4. CASE EndText
    BY <2>4 DEF Asked, EndText
  <2>5. CASE Read
    BY <2>5 DEF Asked, Read
  <2>6. CASE Ask
    BY <2>6 DEF Asked, Ask
  <2>7. CASE UNCHANGED vars
    BY <2>7 DEF Asked, vars
  <2> QED
    BY <2>1, <2>2, <2>3, <2>4, <2>5, <2>6, <2>7 DEF Next
<1> QED
  BY <1>1, <1>2, PTL DEF Spec

(* For users and passwords of any length: what stands for them is base64, bit
   for bit (registry.rs, base64_encode). *)
THEOREM LoginIsEncoded == Spec => []LoginIsBase64
<1>1. Asked => LoginIsBase64
  <2> SUFFICES ASSUME Asked, phase = "asked" PROVE LoginIsBase64
    BY DEF LoginIsBase64
  <2>1. CASE login = None
    BY <2>1 DEF Asked, LoginIsBase64
  <2>2. CASE login # None
    <3>1. login \in Seq(Byte)
      BY <2>2, ChallengeAssumption DEF Asked
    <3>2. request.basic = Base64(login)
      BY <2>2 DEF Asked
    <3>3. Encodes(request.basic, login)
      BY <3>1, <3>2, IsBase64, Zenon
    <3> QED
      BY <2>2, <3>3, Zenon DEF LoginIsBase64, Encodes
  <2> QED
    BY <2>1, <2>2
<1> QED
  BY <1>1, AskedInvariant, PTL
================================================================================
