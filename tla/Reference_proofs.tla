---------------------------- MODULE Reference_proofs ----------------------------
(***************************************************************************)
(* Proofs about Reference, for strings of any length over any words: the   *)
(* canonical name of a reference determines what it asks the registry for. *)
(***************************************************************************)
EXTENDS Reference, SequenceTheorems, WellFoundedInduction, TLAPS

(* Strings around a separator. *)
Join(a, c, b) == a \o <<c>> \o b

LEMMA MinIsLeast ==
    ASSUME NEW S \in SUBSET Nat, S # {}
    PROVE  Min(S) \in S /\ \A n \in S : Min(S) <= n
<1> DEFINE R == OpToRel(<, Nat)
<1>1. PICK x \in S : \A y \in S : ~(<<y, x>> \in R)
  BY NatLessThanWellFounded, WFMin, Zenon
<1>2. ASSUME NEW y \in S PROVE x <= y
  <2>1. ~(y < x)
    BY <1>1 DEF OpToRel
  <2> QED
    BY <2>1
<1> QED
  BY <1>2 DEF Min

LEMMA MaxIsGreatest ==
    ASSUME NEW k \in Nat, NEW S \in SUBSET (0..k), S # {}
    PROVE  Max(S) \in S /\ \A n \in S : n <= Max(S)
<1> DEFINE T == {k - n : n \in S}
<1>1. T \in SUBSET Nat
  OBVIOUS
<1>0. T # {}
  <2>1. PICK n \in S : TRUE
    OBVIOUS
  <2>2. k - n \in T
    BY <2>1
  <2> QED
    BY <2>2
<1>2. Min(T) \in T /\ \A m \in T : Min(T) <= m
  BY <1>0, <1>1, MinIsLeast
<1>3. PICK x \in S : Min(T) = k - x
  BY <1>2
<1>4. \A n \in S : n <= x
  <2> TAKE n \in S
  <2>1. k - n \in T
    OBVIOUS
  <2>2. k - x <= k - n
    BY <1>2, <1>3, <2>1
  <2> QED
    BY <2>2
<1> QED
  BY <1>4 DEF Max

LEMMA JoinProperties ==
    ASSUME NEW a \in Seq(Token), NEW b \in Seq(Token), NEW c \in Token
    PROVE  /\ Join(a, c, b) \in Seq(Token)
           /\ Len(Join(a, c, b)) = Len(a) + 1 + Len(b)
           /\ \A i \in 1..Len(a) : Join(a, c, b)[i] = a[i]
           /\ Join(a, c, b)[Len(a) + 1] = c
           /\ \A i \in 1..Len(b) : Join(a, c, b)[Len(a) + 1 + i] = b[i]
<1>1. <<c>> \in Seq(Token) /\ Len(<<c>>) = 1 /\ <<c>>[1] = c
  OBVIOUS
<1>2. /\ a \o <<c>> \in Seq(Token) /\ Len(a \o <<c>>) = Len(a) + 1
      /\ \A i \in 1..Len(a) : (a \o <<c>>)[i] = a[i]
      /\ (a \o <<c>>)[Len(a) + 1] = c
  BY <1>1, ConcatProperties
<1> QED
  BY <1>1, <1>2, ConcatProperties DEF Join

(* The same, token by token. *)
IsJoin(s, a, c, b) ==
    /\ s \in Seq(Token) /\ a \in Seq(Token) /\ b \in Seq(Token) /\ c \in Token
    /\ Len(s) = Len(a) + 1 + Len(b)
    /\ \A i \in 1..Len(a) : s[i] = a[i]
    /\ s[Len(a) + 1] = c
    /\ \A i \in 1..Len(b) : s[Len(a) + 1 + i] = b[i]

LEMMA JoinIs ==
    ASSUME NEW a \in Seq(Token), NEW b \in Seq(Token), NEW c \in Token
    PROVE  IsJoin(Join(a, c, b), a, c, b)
  BY JoinProperties DEF IsJoin

LEMMA JoinContains ==
    ASSUME NEW a \in Seq(Token), NEW b \in Seq(Token), NEW c \in Token, NEW d
    PROVE  Contains(Join(a, c, b), d) <=> Contains(a, d) \/ c = d \/ Contains(b, d)
<1> DEFINE s == Join(a, c, b)
<1>1. /\ s \in Seq(Token) /\ Len(s) = Len(a) + 1 + Len(b)
      /\ \A i \in 1..Len(a) : s[i] = a[i]
      /\ s[Len(a) + 1] = c
      /\ \A i \in 1..Len(b) : s[Len(a) + 1 + i] = b[i]
  BY JoinProperties
<1>2. DOMAIN s = 1..(Len(a) + 1 + Len(b)) /\ DOMAIN a = 1..Len(a) /\ DOMAIN b = 1..Len(b)
      /\ Len(a) \in Nat /\ Len(b) \in Nat
  BY <1>1
<1> HIDE DEF s
<1>3. ASSUME NEW i \in DOMAIN s, s[i] = d
      PROVE  Contains(a, d) \/ c = d \/ Contains(b, d)
  <2>1. CASE i <= Len(a)
    BY <1>1, <1>2, <1>3, <2>1 DEF Contains
  <2>2. CASE i = Len(a) + 1
    BY <1>1, <1>2, <1>3, <2>2
  <2>3. CASE i > Len(a) + 1
    <3>1. i - Len(a) - 1 \in 1..Len(b) /\ i = Len(a) + 1 + (i - Len(a) - 1)
      BY <1>2, <2>3
    <3> QED
      BY <1>1, <1>2, <1>3, <3>1 DEF Contains
  <2> QED
    BY <1>2, <2>1, <2>2, <2>3
<1>4. ASSUME Contains(a, d) PROVE Contains(s, d)
  BY <1>1, <1>2, <1>4 DEF Contains
<1>5. ASSUME Contains(b, d) PROVE Contains(s, d)
  <2>1. PICK j \in 1..Len(b) : b[j] = d
    BY <1>2, <1>5 DEF Contains
  <2>2. Len(a) + 1 + j \in DOMAIN s
    BY <1>2
  <2> QED
    BY <1>1, <2>1, <2>2 DEF Contains
<1>6. ASSUME c = d PROVE Contains(s, d)
  BY <1>1, <1>2, <1>6 DEF Contains
<1> QED
  BY <1>3, <1>4, <1>5, <1>6 DEF s, Contains

LEMMA IsJoinInjective ==
    ASSUME NEW s, NEW a, NEW b, NEW a2, NEW b2, NEW c,
           IsJoin(s, a, c, b), IsJoin(s, a2, c, b2),
           \/ ~Contains(a, c) /\ ~Contains(a2, c)
           \/ ~Contains(b, c) /\ ~Contains(b2, c)
    PROVE  a = a2 /\ b = b2
<1>0. a \in Seq(Token) /\ b \in Seq(Token) /\ a2 \in Seq(Token) /\ b2 \in Seq(Token)
  BY DEF IsJoin
<1>1. /\ Len(s) = Len(a) + 1 + Len(b)
      /\ \A i \in 1..Len(a) : s[i] = a[i]
      /\ s[Len(a) + 1] = c
      /\ \A i \in 1..Len(b) : s[Len(a) + 1 + i] = b[i]
  BY DEF IsJoin
<1>2. /\ Len(s) = Len(a2) + 1 + Len(b2)
      /\ \A i \in 1..Len(a2) : s[i] = a2[i]
      /\ s[Len(a2) + 1] = c
      /\ \A i \in 1..Len(b2) : s[Len(a2) + 1 + i] = b2[i]
  BY DEF IsJoin
<1>3. /\ Len(a) \in Nat /\ Len(b) \in Nat /\ Len(a2) \in Nat /\ Len(b2) \in Nat
      /\ DOMAIN a = 1..Len(a) /\ DOMAIN b = 1..Len(b)
      /\ DOMAIN a2 = 1..Len(a2) /\ DOMAIN b2 = 1..Len(b2)
  BY <1>0
<1>4. ASSUME Len(a) < Len(a2) PROVE FALSE
  <2>1. Len(a) + 1 \in 1..Len(a2) /\ a2[Len(a) + 1] = c
    BY <1>1, <1>2, <1>3, <1>4
  <2>2. Contains(a2, c)
    BY <1>3, <2>1 DEF Contains
  <2>3. Len(a2) - Len(a) \in 1..Len(b) /\ Len(a) + 1 + (Len(a2) - Len(a)) = Len(a2) + 1
    BY <1>1, <1>2, <1>3, <1>4
  <2>4. b[Len(a2) - Len(a)] = c
    BY <1>1, <1>2, <2>3
  <2>5. Contains(b, c)
    BY <1>3, <2>3, <2>4 DEF Contains
  <2> QED
    BY <2>2, <2>5
<1>5. ASSUME Len(a2) < Len(a) PROVE FALSE
  <2>1. Len(a2) + 1 \in 1..Len(a) /\ a[Len(a2) + 1] = c
    BY <1>1, <1>2, <1>3, <1>5
  <2>2. Contains(a, c)
    BY <1>3, <2>1 DEF Contains
  <2>3. Len(a) - Len(a2) \in 1..Len(b2) /\ Len(a2) + 1 + (Len(a) - Len(a2)) = Len(a) + 1
    BY <1>1, <1>2, <1>3, <1>5
  <2>4. b2[Len(a) - Len(a2)] = c
    BY <1>1, <1>2, <2>3
  <2>5. Contains(b2, c)
    BY <1>3, <2>3, <2>4 DEF Contains
  <2> QED
    BY <2>2, <2>5
<1>6. Len(a) = Len(a2) /\ Len(b) = Len(b2)
  <2>1. Len(a) = Len(a2)
    BY <1>0, <1>4, <1>5
  <2>2. Len(a) + 1 + Len(b) = Len(a2) + 1 + Len(b2)
    BY <1>1, <1>2
  <2> QED
    BY <1>0, <2>1, <2>2
<1>7. \A i \in 1..Len(a) : a[i] = a2[i]
  BY <1>1, <1>2, <1>6
<1>8. \A i \in 1..Len(b) : b[i] = b2[i]
  BY <1>1, <1>2, <1>6
<1> QED
  BY <1>0, <1>6, <1>7, <1>8, SeqEqual

(* A string is cut at a separator in one way only, if the part on one side is
   known not to have it. *)
LEMMA JoinInjective ==
    ASSUME NEW a \in Seq(Token), NEW b \in Seq(Token),
           NEW a2 \in Seq(Token), NEW b2 \in Seq(Token),
           NEW c \in Token, Join(a, c, b) = Join(a2, c, b2),
           \/ ~Contains(a, c) /\ ~Contains(a2, c)
           \/ ~Contains(b, c) /\ ~Contains(b2, c)
    PROVE  a = a2 /\ b = b2
<1>1. IsJoin(Join(a, c, b), a, c, b) /\ IsJoin(Join(a2, c, b2), a2, c, b2)
  BY JoinIs
<1> QED
  BY <1>1, IsJoinInjective

(* What Before and After are. *)
LEMMA CutAt ==
    ASSUME NEW s \in Seq(Token), NEW i \in 1..Len(s)
    PROVE  /\ Before(s, i) \in Seq(Token) /\ Len(Before(s, i)) = i - 1
           /\ \A j \in 1..(i - 1) : Before(s, i)[j] = s[j]
           /\ After(s, i) \in Seq(Token) /\ Len(After(s, i)) = Len(s) - i
           /\ \A j \in 1..(Len(s) - i) : After(s, i)[j] = s[i + j]
           /\ s[i] \in Token /\ s = Join(Before(s, i), s[i], After(s, i))
<1>1. Len(s) \in Nat /\ DOMAIN s = 1..Len(s) /\ \A j \in 1..Len(s) : s[j] \in Token
  OBVIOUS
<1>2. /\ Before(s, i) \in Seq(Token) /\ Len(Before(s, i)) = i - 1
      /\ \A j \in 1..(i - 1) : Before(s, i)[j] = s[j]
  <2>1. \A j \in 1..(i - 1) : s[j] \in Token
    BY <1>1
  <2> QED
    BY <1>1, <2>1, SubSeqProperties DEF Before
<1>3. /\ After(s, i) \in Seq(Token) /\ Len(After(s, i)) = Len(s) - i
      /\ \A j \in 1..(Len(s) - i) : After(s, i)[j] = s[i + j]
  <2>1. \A j \in (i + 1)..Len(s) : s[j] \in Token
    BY <1>1
  <2>2. /\ SubSeq(s, i + 1, Len(s)) \in Seq(Token)
        /\ Len(SubSeq(s, i + 1, Len(s))) = IF i + 1 <= Len(s) THEN Len(s) - (i + 1) + 1 ELSE 0
        /\ \A j \in 1..(Len(s) - (i + 1) + 1) :
              SubSeq(s, i + 1, Len(s))[j] = s[i + 1 + j - 1]
    <3>1. i + 1 \in Int /\ Len(s) \in Int
      BY <1>1
    <3> QED
      BY <2>1, <3>1, SubSeqProperties
  <2>3. Len(s) - (i + 1) + 1 = Len(s) - i /\ (i + 1 <= Len(s) \/ Len(s) - i = 0)
    OBVIOUS
  <2>4. Len(SubSeq(s, i + 1, Len(s))) = Len(s) - i
    BY <1>1, <2>2, <2>3
  <2>5. ASSUME NEW j \in 1..(Len(s) - i) PROVE SubSeq(s, i + 1, Len(s))[j] = s[i + j]
    <3>1. i + 1 + j - 1 = i + j
      BY <1>1
    <3> QED
      BY <2>2, <2>3, <3>1
  <2> QED
    BY <2>2, <2>4, <2>5 DEF After
<1>4. s[i] \in Token
  BY <1>1
<1> DEFINE a == Before(s, i)
           b == After(s, i)
           t == Join(a, s[i], b)
<1>5. IsJoin(t, a, s[i], b)
  BY <1>2, <1>3, <1>4, JoinIs
<1> HIDE DEF a, b, t
<1>6. Len(a) = i - 1 /\ Len(b) = Len(s) - i
  BY <1>2, <1>3 DEF a, b
<1>7. Len(t) = Len(s)
  <2>1. Len(t) = (i - 1) + 1 + (Len(s) - i)
    BY <1>5, <1>6 DEF IsJoin
  <2> QED
    BY <2>1
<1>8. ASSUME NEW j \in 1..Len(s) PROVE s[j] = t[j]
  <2>1. CASE j < i
    <3>1. j \in 1..(i - 1)
      BY <2>1
    <3> QED
      BY <1>2, <1>5, <1>6, <3>1 DEF a, IsJoin
  <2>2. CASE j = i
    <3>1. (i - 1) + 1 = i
      OBVIOUS
    <3> QED
      BY <1>5, <1>6, <2>2, <3>1 DEF IsJoin
  <2>3. CASE j > i
    <3>1. j - i \in 1..(Len(s) - i) /\ i + (j - i) = j /\ Len(a) + 1 + (j - i) = j
      BY <1>6, <2>3
    <3>2. b[j - i] = s[j]
      BY <1>3, <3>1 DEF b
    <3> QED
      BY <1>5, <1>6, <3>1, <3>2 DEF IsJoin
  <2> QED
    BY <1>1, <2>1, <2>2, <2>3
<1>9. s = t
  BY <1>5, <1>7, <1>8, SeqEqual DEF IsJoin
<1> QED
  BY <1>2, <1>3, <1>4, <1>9 DEF a, b, t

LEMMA CutFirst ==
    ASSUME NEW s \in Seq(Token), NEW c, Contains(s, c)
    PROVE  /\ c \in Token
           /\ Before(s, First(s, c)) \in Seq(Token) /\ After(s, First(s, c)) \in Seq(Token)
           /\ s = Join(Before(s, First(s, c)), c, After(s, First(s, c)))
           /\ ~Contains(Before(s, First(s, c)), c)
<1> DEFINE S == {j \in DOMAIN s : s[j] = c}
<1>1. DOMAIN s = 1..Len(s)
  OBVIOUS
<1>2. S \in SUBSET Nat /\ S # {}
  BY <1>1 DEF Contains
<1>3. First(s, c) \in S /\ \A n \in S : First(s, c) <= n
  BY <1>2, MinIsLeast DEF First
<1> HIDE DEF S
<1>4. PICK i \in 1..Len(s) : i = First(s, c) /\ s[i] = c /\ \A n \in S : i <= n
  BY <1>1, <1>3 DEF S
<1>5. \A j \in 1..(i - 1) : s[j] # c
  <2> TAKE j \in 1..(i - 1)
  <2>1. j \in 1..Len(s) /\ ~(i <= j)
    OBVIOUS
  <2> QED
    BY <1>1, <1>4, <2>1 DEF S
<1>6. /\ Before(s, i) \in Seq(Token) /\ Len(Before(s, i)) = i - 1
      /\ \A j \in 1..(i - 1) : Before(s, i)[j] = s[j]
      /\ After(s, i) \in Seq(Token) /\ s[i] \in Token
      /\ s = Join(Before(s, i), s[i], After(s, i))
  BY CutAt
<1>7. ~Contains(Before(s, i), c)
  <2>1. DOMAIN Before(s, i) = 1..(i - 1)
    BY <1>6
  <2> QED
    BY <1>5, <1>6, <2>1 DEF Contains
<1> QED
  BY <1>4, <1>6, <1>7

LEMMA CutLast ==
    ASSUME NEW s \in Seq(Token), NEW c, Contains(s, c)
    PROVE  /\ c \in Token
           /\ Before(s, Last(s, c)) \in Seq(Token) /\ After(s, Last(s, c)) \in Seq(Token)
           /\ s = Join(Before(s, Last(s, c)), c, After(s, Last(s, c)))
           /\ ~Contains(After(s, Last(s, c)), c)
<1> DEFINE S == {j \in DOMAIN s : s[j] = c}
<1>1. DOMAIN s = 1..Len(s) /\ Len(s) \in Nat
  OBVIOUS
<1>2. S \in SUBSET (0..Len(s)) /\ S # {}
  BY <1>1 DEF Contains
<1>3. Last(s, c) \in S /\ \A n \in S : n <= Last(s, c)
  BY <1>1, <1>2, MaxIsGreatest DEF Last
<1> HIDE DEF S
<1>4. PICK i \in 1..Len(s) : i = Last(s, c) /\ s[i] = c /\ \A n \in S : n <= i
  BY <1>1, <1>3 DEF S
<1>5. \A j \in 1..(Len(s) - i) : s[i + j] # c
  <2> TAKE j \in 1..(Len(s) - i)
  <2>1. i + j \in 1..Len(s) /\ ~(i + j <= i)
    OBVIOUS
  <2> QED
    BY <1>1, <1>4, <2>1 DEF S
<1>6. /\ Before(s, i) \in Seq(Token) /\ After(s, i) \in Seq(Token)
      /\ Len(After(s, i)) = Len(s) - i
      /\ \A j \in 1..(Len(s) - i) : After(s, i)[j] = s[i + j]
      /\ s[i] \in Token /\ s = Join(Before(s, i), s[i], After(s, i))
  BY CutAt
<1>7. ~Contains(After(s, i), c)
  <2>1. DOMAIN After(s, i) = 1..(Len(s) - i)
    BY <1>6
  <2> QED
    BY <1>5, <1>6, <2>1 DEF Contains
<1> QED
  BY <1>4, <1>6, <1>7

(* Where a string that was put together is cut. *)
LEMMA FirstOfJoin ==
    ASSUME NEW a \in Seq(Token), NEW b \in Seq(Token), NEW c \in Token, ~Contains(a, c),
           NEW s, s = Join(a, c, b)
    PROVE  /\ s \in Seq(Token) /\ Contains(s, c)
           /\ Before(s, First(s, c)) = a /\ After(s, First(s, c)) = b
<1>1. s \in Seq(Token) /\ Contains(s, c)
  BY JoinProperties, JoinContains
<1>2. /\ Before(s, First(s, c)) \in Seq(Token) /\ After(s, First(s, c)) \in Seq(Token)
      /\ s = Join(Before(s, First(s, c)), c, After(s, First(s, c)))
      /\ ~Contains(Before(s, First(s, c)), c)
  BY <1>1, CutFirst
<1>3. IsJoin(s, Before(s, First(s, c)), c, After(s, First(s, c))) /\ IsJoin(s, a, c, b)
  BY <1>2, JoinIs
<1> QED
  BY <1>1, <1>2, <1>3, IsJoinInjective

LEMMA LastOfJoin ==
    ASSUME NEW a \in Seq(Token), NEW b \in Seq(Token), NEW c \in Token, ~Contains(b, c),
           NEW s, s = Join(a, c, b)
    PROVE  /\ s \in Seq(Token) /\ Contains(s, c)
           /\ Before(s, Last(s, c)) = a /\ After(s, Last(s, c)) = b
<1>1. s \in Seq(Token) /\ Contains(s, c)
  BY JoinProperties, JoinContains
<1>2. /\ Before(s, Last(s, c)) \in Seq(Token) /\ After(s, Last(s, c)) \in Seq(Token)
      /\ s = Join(Before(s, Last(s, c)), c, After(s, Last(s, c)))
      /\ ~Contains(After(s, Last(s, c)), c)
  BY <1>1, CutLast
<1>3. IsJoin(s, Before(s, Last(s, c)), c, After(s, Last(s, c))) /\ IsJoin(s, a, c, b)
  BY <1>2, JoinIs
<1> QED
  BY <1>1, <1>2, <1>3, IsJoinInjective

LEMMA JoinAssociative ==
    ASSUME NEW a \in Seq(Token), NEW b \in Seq(Token), NEW d \in Seq(Token),
           NEW c \in Token, NEW e \in Token
    PROVE  Join(a, c, Join(b, e, d)) = Join(Join(a, c, b), e, d)
<1>1. <<c>> \in Seq(Token) /\ <<e>> \in Seq(Token)
  OBVIOUS
<1>2. a \o <<c>> \in Seq(Token) /\ b \o <<e>> \in Seq(Token) /\ <<e>> \o d \in Seq(Token)
  BY <1>1, ConcatProperties
<1>3. (b \o <<e>>) \o d = b \o (<<e>> \o d)
  BY <1>1, ConcatAssociative
<1>4. (a \o <<c>>) \o (b \o (<<e>> \o d)) = ((a \o <<c>>) \o b) \o (<<e>> \o d)
  BY <1>2, ConcatAssociative
<1>5. ((a \o <<c>>) \o b) \o (<<e>> \o d) = (((a \o <<c>>) \o b) \o <<e>>) \o d
  <2>1. (a \o <<c>>) \o b \in Seq(Token)
    BY <1>2, ConcatProperties
  <2> QED
    BY <1>1, <2>1, ConcatAssociative
<1> QED
  BY <1>3, <1>4, <1>5 DEF Join

--------------------------------------------------------------------------------
LEMMA Separators ==
    /\ "/" \in Token /\ ":" \in Token /\ "@" \in Token
    /\ {"docker.io", "registry-1.docker.io", "library", "latest"} \subseteq Token
  BY DEF Token, Separator, Dotted

LEMMA OneWord ==
    ASSUME NEW w \in Token, NEW c
    PROVE  <<w>> \in Seq(Token) /\ (Contains(<<w>>, c) <=> w = c)
<1>1. DOMAIN <<w>> = {1} /\ <<w>>[1] = w
  OBVIOUS
<1> QED
  BY <1>1 DEF Contains

(* What registry and repository of a name are made of. *)
LEMMA NameParts ==
    ASSUME NEW n \in Seq(Token)
    PROVE  /\ Registry(n) \in Seq(Token) /\ Repository(n) \in Seq(Token)
           /\ ~Contains(Registry(n), "/") /\ IsHost(Registry(n))
           /\ Registry(n) # <<"docker.io">>
           /\ ~Contains(n, "@") =>
                ~Contains(Registry(n), "@") /\ ~Contains(Repository(n), "@")
           /\ Remainder(n) \in Seq(Token) /\ Path(Remainder(n)) \in Seq(Token)
           /\ ~Contains(n, "@") => ~Contains(Remainder(n), "@")
<1>1. /\ RegistryRaw(n) \in Seq(Token) /\ ~Contains(RegistryRaw(n), "/")
      /\ IsHost(RegistryRaw(n)) /\ Remainder(n) \in Seq(Token)
      /\ ~Contains(n, "@") =>
            ~Contains(RegistryRaw(n), "@") /\ ~Contains(Remainder(n), "@")
  <2>1. CASE Hosted(n)
    <3>1. /\ Before(n, First(n, "/")) \in Seq(Token) /\ After(n, First(n, "/")) \in Seq(Token)
          /\ n = Join(Before(n, First(n, "/")), "/", After(n, First(n, "/")))
          /\ ~Contains(Before(n, First(n, "/")), "/")
      BY <2>1, CutFirst DEF Hosted
    <3>2. /\ Contains(Before(n, First(n, "/")), "@") => Contains(n, "@")
          /\ Contains(After(n, First(n, "/")), "@") => Contains(n, "@")
      BY <3>1, JoinContains, Separators
    <3> QED
      BY <2>1, <3>1, <3>2 DEF Hosted, RegistryRaw, Remainder
  <2>2. CASE ~Hosted(n)
    <3>1. IsHost(<<"docker.io">>)
      <4>1. DOMAIN <<"docker.io">> = {1} /\ <<"docker.io">>[1] = "docker.io"
        OBVIOUS
      <4> QED
        BY <4>1 DEF IsHost, Dotted
    <3> QED
      BY <2>2, <3>1, OneWord, Separators DEF RegistryRaw, Remainder
  <2> QED
    BY <2>1, <2>2
<1>2. /\ Registry(n) \in Seq(Token) /\ ~Contains(Registry(n), "/")
      /\ IsHost(Registry(n)) /\ Registry(n) # <<"docker.io">>
      /\ ~Contains(n, "@") => ~Contains(Registry(n), "@")
  <2>1. CASE OnHub(n)
    <3>1. IsHost(<<"registry-1.docker.io">>)
      <4>1. /\ DOMAIN <<"registry-1.docker.io">> = {1}
            /\ <<"registry-1.docker.io">>[1] = "registry-1.docker.io"
        OBVIOUS
      <4> QED
        BY <4>1 DEF IsHost, Dotted
    <3>2. <<"registry-1.docker.io">> # <<"docker.io">>
      OBVIOUS
    <3> QED
      BY <2>1, <3>1, <3>2, OneWord, Separators DEF Registry
  <2>2. CASE ~OnHub(n)
    BY <1>1, <2>2 DEF Registry, OnHub
  <2> QED
    BY <2>1, <2>2
<1>3. /\ Path(Remainder(n)) \in Seq(Token)
      /\ ~Contains(n, "@") => ~Contains(Path(Remainder(n)), "@")
  <2> DEFINE m == Remainder(n)
  <2>1. CASE Tagged(m)
    <3>1. /\ Before(m, Last(m, ":")) \in Seq(Token) /\ After(m, Last(m, ":")) \in Seq(Token)
          /\ m = Join(Before(m, Last(m, ":")), ":", After(m, Last(m, ":")))
      BY <1>1, <2>1, CutLast DEF Tagged
    <3>2. Contains(Before(m, Last(m, ":")), "@") => Contains(m, "@")
      BY <3>1, JoinContains, Separators
    <3> QED
      BY <1>1, <2>1, <3>1, <3>2 DEF Path
  <2>2. CASE ~Tagged(m)
    BY <1>1, <2>2 DEF Path
  <2> QED
    BY <2>1, <2>2
<1>4. /\ Repository(n) \in Seq(Token)
      /\ ~Contains(n, "@") => ~Contains(Repository(n), "@")
  <2> DEFINE p == Path(Remainder(n))
  <2>1. <<"library", "/">> \o p = Join(<<"library">>, "/", p)
    <3>1. <<"library", "/">> = <<"library">> \o <<"/">>
      OBVIOUS
    <3> QED
      BY <3>1 DEF Join
  <2>2. /\ Join(<<"library">>, "/", p) \in Seq(Token)
        /\ Contains(Join(<<"library">>, "/", p), "@") => Contains(p, "@")
    <3>1. <<"library">> \in Seq(Token) /\ ~Contains(<<"library">>, "@") /\ "/" # "@"
      BY OneWord, Separators
    <3> HIDE DEF p
    <3>2. p \in Seq(Token)
      BY <1>3 DEF p
    <3> QED
      BY <3>1, <3>2, JoinProperties, JoinContains, Separators
  <2> QED
    BY <1>3, <2>1, <2>2 DEF Repository
<1> QED
  BY <1>1, <1>2, <1>3, <1>4

(* What digest and tag of a reference are made of. *)
LEMMA ReferenceParts ==
    ASSUME NEW s \in Seq(Token)
    PROVE  /\ NameAndTag(s) \in Seq(Token) /\ ~Contains(NameAndTag(s), "@")
           /\ Pinned(s) => /\ DigestOf(s) \in Seq(Token)
                           /\ s = Join(NameAndTag(s), "@", DigestOf(s))
           /\ ~Pinned(s) => /\ NameAndTag(s) = s
                            /\ TagOf(s) \in Seq(Token)
                            /\ ~Contains(TagOf(s), "/") /\ ~Contains(TagOf(s), ":")
                            /\ ~Contains(TagOf(s), "@")
<1>1. /\ NameAndTag(s) \in Seq(Token) /\ ~Contains(NameAndTag(s), "@")
      /\ Pinned(s) => DigestOf(s) \in Seq(Token) /\ s = Join(NameAndTag(s), "@", DigestOf(s))
      /\ ~Pinned(s) => NameAndTag(s) = s
  BY CutFirst DEF NameAndTag, Pinned, DigestOf
<1>2. ASSUME ~Pinned(s)
      PROVE  /\ TagOf(s) \in Seq(Token) /\ ~Contains(TagOf(s), "/")
             /\ ~Contains(TagOf(s), ":") /\ ~Contains(TagOf(s), "@")
  <2> DEFINE m == Remainder(NameAndTag(s))
  <2>0. m \in Seq(Token) /\ ~Contains(m, "@")
    BY <1>1, NameParts
  <2>1. CASE Tagged(m)
    <3>1. /\ Before(m, Last(m, ":")) \in Seq(Token) /\ After(m, Last(m, ":")) \in Seq(Token)
          /\ m = Join(Before(m, Last(m, ":")), ":", After(m, Last(m, ":")))
          /\ ~Contains(After(m, Last(m, ":")), ":")
      BY <2>0, <2>1, CutLast DEF Tagged
    <3>2. Contains(After(m, Last(m, ":")), "@") => Contains(m, "@")
      BY <3>1, JoinContains, Separators
    <3>3. TagOf(s) = After(m, Last(m, ":")) /\ ~Contains(After(m, Last(m, ":")), "/")
      BY <2>1 DEF TagOf, Tagged
    <3> QED
      BY <2>0, <3>1, <3>2, <3>3
  <2>2. CASE ~Tagged(m)
    <3>1. TagOf(s) = <<"latest">>
      BY <1>2, <2>2 DEF TagOf
    <3>2. "latest" # "/" /\ "latest" # ":" /\ "latest" # "@"
      OBVIOUS
    <3> QED
      BY <3>1, <3>2, OneWord, Separators
  <2> QED
    BY <2>1, <2>2
<1> QED
  BY <1>1, <1>2

(* The canonical name is registry, path, and digest or tag. *)
LEMMA CanonicalParts ==
    ASSUME NEW s \in Seq(Token)
    PROVE  LET R == Registry(NameAndTag(s))
               P == Repository(NameAndTag(s))
           IN  /\ Canonical(s) = IF Pinned(s) THEN Join(Join(R, "/", P), "@", DigestOf(s))
                                 ELSE Join(Join(R, "/", P), ":", TagOf(s))
               /\ Join(R, "/", P) \in Seq(Token) /\ ~Contains(Join(R, "/", P), "@")
               /\ Canonical(s) \in Seq(Token)
<1> DEFINE R == Registry(NameAndTag(s))
           P == Repository(NameAndTag(s))
           D == DigestOf(s)
           T == TagOf(s)
<1>1. /\ R \in Seq(Token) /\ P \in Seq(Token) /\ ~Contains(R, "@") /\ ~Contains(P, "@")
      /\ Pinned(s) => D \in Seq(Token)
      /\ ~Pinned(s) => T \in Seq(Token)
  BY ReferenceParts, NameParts
<1>2. Canonical(s) = IF Pinned(s) THEN Join(R, "/", P) \o (<<"@">> \o D)
                     ELSE Join(R, "/", P) \o (<<":">> \o T)
  BY DEF Canonical, Join
<1> HIDE DEF R, P, D, T
<1>3. Join(R, "/", P) \in Seq(Token) /\ ~Contains(Join(R, "/", P), "@")
  <2>1. "/" # "@"
    OBVIOUS
  <2> QED
    BY <1>1, <2>1, JoinProperties, JoinContains, Separators
<1>4. <<"@">> \in Seq(Token) /\ <<":">> \in Seq(Token)
  BY OneWord, Separators
<1>5. ASSUME NEW a \in Seq(Token), NEW b \in Seq(Token), NEW c \in Token
      PROVE  a \o (<<c>> \o b) = Join(a, c, b)
  <2>1. <<c>> \in Seq(Token)
    OBVIOUS
  <2> QED
    BY <2>1, ConcatAssociative DEF Join
<1>6. CASE Pinned(s)
  <2>1. Canonical(s) = Join(Join(R, "/", P), "@", D)
    <3>1. Canonical(s) = Join(R, "/", P) \o (<<"@">> \o D) /\ D \in Seq(Token)
      BY <1>1, <1>2, <1>6
    <3> QED
      BY <1>3, <1>5, <3>1, Separators
  <2> QED
    BY <1>1, <1>3, <1>6, <2>1, JoinProperties, Separators DEF R, P, D
<1>7. CASE ~Pinned(s)
  <2>1. Canonical(s) = Join(Join(R, "/", P), ":", T)
    <3>1. Canonical(s) = Join(R, "/", P) \o (<<":">> \o T) /\ T \in Seq(Token)
      BY <1>1, <1>2, <1>7
    <3> QED
      BY <1>3, <1>5, <3>1, Separators
  <2> QED
    BY <1>1, <1>3, <1>7, <2>1, JoinProperties, Separators DEF R, P, T
<1> QED
  BY <1>6, <1>7

(* A canonical name says what is asked of the registry: references that share
   it ask for the same thing. *)
LEMMA CanonicalInjective ==
    ASSUME NEW s \in Seq(Token), NEW t \in Seq(Token), Canonical(s) = Canonical(t)
    PROVE  ManifestUrl(s) = ManifestUrl(t)
<1> DEFINE Reg(x)  == Registry(NameAndTag(x))
           Repo(x) == Repository(NameAndTag(x))
           Nm(x)   == Join(Reg(x), "/", Repo(x))
<1>1. ASSUME NEW x \in Seq(Token)
      PROVE  /\ Reg(x) \in Seq(Token) /\ Repo(x) \in Seq(Token) /\ ~Contains(Reg(x), "/")
             /\ Nm(x) \in Seq(Token) /\ ~Contains(Nm(x), "@")
             /\ Pinned(x) => /\ DigestOf(x) \in Seq(Token)
                             /\ Canonical(x) = Join(Nm(x), "@", DigestOf(x))
             /\ ~Pinned(x) => /\ TagOf(x) \in Seq(Token)
                              /\ ~Contains(TagOf(x), ":") /\ ~Contains(TagOf(x), "@")
                              /\ Canonical(x) = Join(Nm(x), ":", TagOf(x))
  BY ReferenceParts, NameParts, CanonicalParts
<1> HIDE DEF Nm
<1>2. ASSUME NEW x \in Seq(Token) PROVE Contains(Canonical(x), "@") <=> Pinned(x)
  <2>1. CASE Pinned(x)
    BY <1>1, <2>1, JoinContains, Separators
  <2>2. CASE ~Pinned(x)
    <3>1. ":" # "@"
      OBVIOUS
    <3> QED
      BY <1>1, <2>2, <3>1, JoinContains, Separators
  <2> QED
    BY <2>1, <2>2
<1>3. Pinned(s) <=> Pinned(t)
  BY <1>2
<1>4. Nm(s) = Nm(t) /\ ManifestRef(s) = ManifestRef(t)
  <2>1. CASE Pinned(s)
    <3>1. Nm(s) = Nm(t) /\ DigestOf(s) = DigestOf(t)
      <4>1. Join(Nm(s), "@", DigestOf(s)) = Join(Nm(t), "@", DigestOf(t))
        BY <1>1, <1>3, <2>1
      <4> QED
        BY <1>1, <1>3, <2>1, <4>1, JoinInjective, Separators
    <3> QED
      BY <1>3, <2>1, <3>1 DEF ManifestRef
  <2>2. CASE ~Pinned(s)
    <3>1. Nm(s) = Nm(t) /\ TagOf(s) = TagOf(t)
      <4>1. Join(Nm(s), ":", TagOf(s)) = Join(Nm(t), ":", TagOf(t))
        BY <1>1, <1>3, <2>2
      <4> QED
        BY <1>1, <1>3, <2>2, <4>1, JoinInjective, Separators
    <3> QED
      BY <1>3, <2>2, <3>1 DEF ManifestRef
  <2> QED
    BY <2>1, <2>2
<1>5. Reg(s) = Reg(t) /\ Repo(s) = Repo(t)
  <2>1. Join(Reg(s), "/", Repo(s)) = Join(Reg(t), "/", Repo(t))
    BY <1>4 DEF Nm
  <2> QED
    BY <1>1, <2>1, JoinInjective, Separators
<1> QED
  BY <1>4, <1>5 DEF ManifestUrl

(* References that could be pulled and ask for the same thing share it. *)
LEMMA UrlDeterminesCanonical ==
    ASSUME NEW s \in Seq(Token), NEW t \in Seq(Token), Pullable(s), Pullable(t),
           ManifestUrl(s) = ManifestUrl(t)
    PROVE  Canonical(s) = Canonical(t)
<1>1. /\ Registry(NameAndTag(s)) = Registry(NameAndTag(t))
      /\ Repository(NameAndTag(s)) = Repository(NameAndTag(t))
      /\ ManifestRef(s) = ManifestRef(t)
  BY DEF ManifestUrl
<1>2. ASSUME NEW x \in Seq(Token), Pullable(x)
      PROVE  Contains(ManifestRef(x), ":") <=> Pinned(x)
  <2>1. CASE Pinned(x)
    <3>1. DigestParses(ManifestRef(x))
      BY <1>2, <2>1 DEF Pullable, ManifestRef
    <3>2. Contains(ManifestRef(x), ":")
      <4>1. PICK a, h : ManifestRef(x) = <<a, ":", h>>
        BY <3>1 DEF DigestParses
      <4>2. 2 \in DOMAIN <<a, ":", h>> /\ <<a, ":", h>>[2] = ":"
        OBVIOUS
      <4> QED
        BY <4>1, <4>2 DEF Contains
    <3> QED
      BY <2>1, <3>2
  <2>2. CASE ~Pinned(x)
    BY <2>2, ReferenceParts DEF ManifestRef
  <2> QED
    BY <2>1, <2>2
<1>3. Pinned(s) <=> Pinned(t)
  BY <1>1, <1>2
<1> QED
  BY <1>1, <1>3 DEF Canonical, ManifestRef

(* How a name is read whose first component is a registry. *)
LEMMA HostedParts ==
    ASSUME NEW r \in Seq(Token), NEW m \in Seq(Token), ~Contains(r, "/"), IsHost(r),
           NEW n, n = Join(r, "/", m)
    PROVE  n \in Seq(Token) /\ Hosted(n) /\ RegistryRaw(n) = r /\ Remainder(n) = m
  BY FirstOfJoin, Separators DEF Hosted, RegistryRaw, Remainder

(* The canonical name is its own canonical name, except where a pinned
   repository looks as if it had a tag. *)
LEMMA CanonicalStable ==
    ASSUME NEW s \in Seq(Token), Parses(s),
           ~(Pinned(s) /\ Tagged(Repository(NameAndTag(s))))
    PROVE  Parses(Canonical(s)) /\ Canonical(Canonical(s)) = Canonical(s)
<1> DEFINE R == Registry(NameAndTag(s))
           P == Repository(NameAndTag(s))
           N == Join(R, "/", P)
           D == DigestOf(s)
           T == TagOf(s)
           t == Canonical(s)
<1>1. /\ R \in Seq(Token) /\ P \in Seq(Token) /\ ~Contains(R, "/") /\ IsHost(R)
      /\ R # <<"docker.io">>
  BY ReferenceParts, NameParts
<1>2. /\ N \in Seq(Token) /\ ~Contains(N, "@") /\ t \in Seq(Token)
      /\ t = IF Pinned(s) THEN Join(N, "@", D) ELSE Join(N, ":", T)
  BY CanonicalParts
<1>3. P # <<>>
  BY DEF Parses
<1>4. ASSUME NEW n \in Seq(Token), NEW m \in Seq(Token), n = Join(R, "/", m), Path(m) = P
      PROVE  Registry(n) = R /\ Repository(n) = P /\ Remainder(n) = m
  <2>1. RegistryRaw(n) = R /\ Remainder(n) = m
    <3> HIDE DEF R
    <3> QED
      BY <1>1, <1>4, HostedParts
  <2>2. ~OnHub(n)
    BY <1>1, <2>1 DEF OnHub
  <2> QED
    BY <1>4, <2>1, <2>2 DEF Registry, Repository
<1>5. CASE Pinned(s)
  <2>1. D \in Seq(Token) /\ t = Join(N, "@", D)
    BY <1>2, <1>5, ReferenceParts
  <2> HIDE DEF R, P, N, D, t
  <2>2. Pinned(t) /\ NameAndTag(t) = N /\ DigestOf(t) = D
    BY <1>2, <2>1, FirstOfJoin, Separators DEF Pinned, NameAndTag, DigestOf
  <2>3. Path(P) = P
    BY <1>5 DEF P, Path
  <2>4. N = Join(R, "/", P)
    BY DEF N
  <2>5. Registry(N) = R /\ Repository(N) = P
    BY <1>1, <1>2, <1>4, <2>3, <2>4
  <2>6. t # <<>>
    <3>1. Contains(t, "@")
      BY <2>2 DEF Pinned
    <3> QED
      BY <3>1 DEF Contains
  <2>7. Parses(t)
    BY <1>3, <2>2, <2>5, <2>6 DEF Parses
  <2>8. Canonical(t) = Canonical(s)
    BY <1>5, <2>2, <2>5 DEF Canonical, R, P, D
  <2> QED
    BY <2>7, <2>8 DEF t
<1>6. CASE ~Pinned(s)
  <2>1. /\ T \in Seq(Token) /\ ~Contains(T, "/") /\ ~Contains(T, ":") /\ ~Contains(T, "@")
        /\ t = Join(N, ":", T) /\ N = Join(R, "/", P)
    BY <1>2, <1>6, ReferenceParts
  <2> HIDE DEF R, P, N, T, t
  <2>2. ~Pinned(t) /\ NameAndTag(t) = t
    <3>1. ":" # "@"
      OBVIOUS
    <3> QED
      BY <1>2, <2>1, <3>1, JoinContains, Separators DEF Pinned, NameAndTag
  <2> DEFINE m == Join(P, ":", T)
  <2>3. m \in Seq(Token) /\ t = Join(R, "/", m)
    <3>1. m \in Seq(Token)
      BY <1>1, <2>1, JoinProperties, Separators
    <3>2. Join(R, "/", Join(P, ":", T)) = Join(Join(R, "/", P), ":", T)
      BY <1>1, <2>1, JoinAssociative, Separators
    <3> QED
      BY <2>1, <3>1, <3>2
  <2>4. Tagged(m) /\ Path(m) = P /\ After(m, Last(m, ":")) = T
    <3>1. m = Join(P, ":", T)
      OBVIOUS
    <3> HIDE DEF m
    <3> QED
      BY <1>1, <2>1, <3>1, LastOfJoin, Separators DEF Tagged, Path
  <2> HIDE DEF m
  <2>5. Registry(t) = R /\ Repository(t) = P /\ Remainder(t) = m
    BY <1>2, <1>4, <2>3, <2>4
  <2>6. TagOf(t) = T
    BY <2>2, <2>4, <2>5 DEF TagOf
  <2>7. t # <<>>
    <3>1. Contains(t, ":")
      BY <1>2, <2>1, JoinContains, Separators
    <3> QED
      BY <3>1 DEF Contains
  <2>8. Parses(t)
    BY <1>3, <2>2, <2>5, <2>7 DEF Parses
  <2>9. Canonical(t) = Canonical(s)
    BY <1>6, <2>2, <2>5, <2>6 DEF Canonical, R, P, T
  <2> QED
    BY <2>8, <2>9 DEF t
<1> QED
  BY <1>5, <1>6

(* What goes before a reference stays before its name. *)
LEMMA PrefixKept ==
    ASSUME NEW r \in Seq(Token), ~Contains(r, "@"), NEW s \in Seq(Token),
           NEW t, t = Join(r, "/", s)
    PROVE  /\ t \in Seq(Token) /\ t # <<>> /\ (Pinned(t) <=> Pinned(s))
           /\ NameAndTag(t) = Join(r, "/", NameAndTag(s))
           /\ Pinned(s) => DigestOf(t) = DigestOf(s)
<1>0. "/" # "@"
  OBVIOUS
<1>1. /\ t \in Seq(Token) /\ (Pinned(t) <=> Pinned(s)) /\ Contains(t, "/")
  BY <1>0, JoinProperties, JoinContains, Separators DEF Pinned
<1>2. t # <<>>
  BY <1>1 DEF Contains
<1>3. CASE Pinned(s)
  <2>1. /\ NameAndTag(s) \in Seq(Token) /\ ~Contains(NameAndTag(s), "@")
        /\ DigestOf(s) \in Seq(Token) /\ s = Join(NameAndTag(s), "@", DigestOf(s))
    BY <1>3, ReferenceParts
  <2> DEFINE a == Join(r, "/", NameAndTag(s))
  <2>2. a \in Seq(Token) /\ ~Contains(a, "@")
    BY <1>0, <2>1, JoinProperties, JoinContains, Separators
  <2>3. t = Join(a, "@", DigestOf(s))
    BY <2>1, JoinAssociative, Separators
  <2> HIDE DEF a
  <2>4. Before(t, First(t, "@")) = a /\ After(t, First(t, "@")) = DigestOf(s)
    BY <2>1, <2>2, <2>3, FirstOfJoin, Separators
  <2>5. NameAndTag(t) = a /\ DigestOf(t) = DigestOf(s)
    BY <1>1, <1>3, <2>4 DEF NameAndTag, DigestOf, Pinned
  <2> QED
    BY <1>1, <1>2, <2>5 DEF a
<1>4. CASE ~Pinned(s)
  BY <1>1, <1>2, <1>4 DEF NameAndTag, Pinned
<1> QED
  BY <1>3, <1>4

(* Names that are both on the hub. *)
LEMMA SameOnHub ==
    ASSUME NEW s, NEW t, OnHub(NameAndTag(s)), OnHub(NameAndTag(t)),
           Repository(NameAndTag(s)) = Repository(NameAndTag(t)),
           ManifestRef(s) = ManifestRef(t), t # <<>>
    PROVE  ManifestUrl(t) = ManifestUrl(s) /\ (Parses(s) => Parses(t))
<1>1. Registry(NameAndTag(s)) = Registry(NameAndTag(t))
  BY DEF Registry
<1> QED
  BY <1>1 DEF ManifestUrl, Parses

LEMMA UnderHub ==
    ASSUME NEW m \in Seq(Token), NEW n, n = Join(<<"docker.io">>, "/", m)
    PROVE  n \in Seq(Token) /\ Hosted(n) /\ OnHub(n) /\ Remainder(n) = m
<1>1. IsHost(<<"docker.io">>)
  <2>1. DOMAIN <<"docker.io">> = {1} /\ <<"docker.io">>[1] = "docker.io"
    OBVIOUS
  <2> QED
    BY <2>1 DEF IsHost, Dotted
<1>2. <<"docker.io">> \in Seq(Token) /\ ~Contains(<<"docker.io">>, "/")
  <2>1. "docker.io" # "/"
    OBVIOUS
  <2> QED
    BY <2>1, OneWord, Separators
<1>3. Hosted(n) /\ RegistryRaw(n) = <<"docker.io">> /\ Remainder(n) = m /\ n \in Seq(Token)
  BY <1>1, <1>2, HostedParts
<1> QED
  BY <1>3 DEF OnHub

(* The first component of a reference is that of its name. *)
LEMMA FirstComponent ==
    ASSUME NEW s \in Seq(Token), Contains(NameAndTag(s), "/")
    PROVE  /\ Contains(s, "/")
           /\ Before(s, First(s, "/")) = Before(NameAndTag(s), First(NameAndTag(s), "/"))
<1>1. CASE ~Pinned(s)
  BY <1>1, ReferenceParts
<1>2. CASE Pinned(s)
  <2> DEFINE n == NameAndTag(s)
             a == Before(n, First(n, "/"))
             b == After(n, First(n, "/"))
             d == DigestOf(s)
  <2>1. /\ n \in Seq(Token) /\ d \in Seq(Token) /\ s = Join(n, "@", d)
    BY <1>2, ReferenceParts
  <2>2. /\ a \in Seq(Token) /\ b \in Seq(Token) /\ n = Join(a, "/", b) /\ ~Contains(a, "/")
    BY <2>1, CutFirst
  <2> HIDE DEF n, a, b, d
  <2>3. Join(b, "@", d) \in Seq(Token) /\ s = Join(a, "/", Join(b, "@", d))
    <3>1. Join(b, "@", d) \in Seq(Token)
      BY <2>1, <2>2, JoinProperties, Separators
    <3>2. Join(a, "/", Join(b, "@", d)) = Join(Join(a, "/", b), "@", d)
      BY <2>1, <2>2, JoinAssociative, Separators
    <3> QED
      BY <2>1, <2>2, <3>1, <3>2
  <2>4. Contains(s, "/") /\ Before(s, First(s, "/")) = a
    BY <2>2, <2>3, FirstOfJoin, Separators
  <2> QED
    BY <2>4 DEF a, n
<1> QED
  BY <1>1, <1>2

(* A name without a slash, and the same under library/. *)
LEMMA LibraryName ==
    ASSUME NEW n \in Seq(Token), ~Contains(n, "/"),
           NEW m, m = Join(<<"library">>, "/", n)
    PROVE  /\ ~Hosted(n) /\ OnHub(n) /\ Remainder(n) = n
           /\ (Tagged(m) <=> Tagged(n))
           /\ Tagged(n) => After(m, Last(m, ":")) = After(n, Last(n, ":"))
           /\ Contains(Path(m), "/") /\ Path(m) = Repository(n)
<1> DEFINE lib == <<"library">>
<1>1. lib \in Seq(Token) /\ ~Contains(lib, ":")
  <2>1. "library" # ":"
    OBVIOUS
  <2> QED
    BY <2>1, OneWord, Separators
<1>2. ~Hosted(n) /\ OnHub(n) /\ Remainder(n) = n
  BY DEF Hosted, OnHub, RegistryRaw, Remainder
<1>3. ASSUME NEW x \in Seq(Token)
      PROVE  <<"library", "/">> \o x = Join(lib, "/", x)
  <2>1. <<"library", "/">> = <<"library">> \o <<"/">>
    OBVIOUS
  <2> QED
    BY <2>1 DEF Join
<1> HIDE DEF lib
<1>4. CASE Contains(n, ":")
  <2> DEFINE x == Before(n, Last(n, ":"))
             y == After(n, Last(n, ":"))
  <2>1. /\ x \in Seq(Token) /\ y \in Seq(Token) /\ n = Join(x, ":", y) /\ ~Contains(y, ":")
    BY <1>4, CutLast
  <2> HIDE DEF x, y
  <2>2. ~Contains(x, "/") /\ ~Contains(y, "/")
    BY <2>1, JoinContains, Separators
  <2>3. Tagged(n) /\ Path(n) = x
    BY <1>4, <2>2 DEF Tagged, Path, x, y
  <2>4. Join(lib, "/", x) \in Seq(Token) /\ Contains(Join(lib, "/", x), "/")
    BY <1>1, <2>1, JoinProperties, JoinContains, Separators
  <2>5. m = Join(Join(lib, "/", x), ":", y)
    <3>1. Join(lib, "/", Join(x, ":", y)) = Join(Join(lib, "/", x), ":", y)
      BY <1>1, <2>1, JoinAssociative, Separators
    <3> QED
      BY <2>1, <3>1 DEF lib
  <2>6. /\ Contains(m, ":") /\ Before(m, Last(m, ":")) = Join(lib, "/", x)
        /\ After(m, Last(m, ":")) = y
    BY <2>1, <2>4, <2>5, LastOfJoin, Separators
  <2>7. Tagged(m) /\ Path(m) = Join(lib, "/", x)
    BY <2>2, <2>6 DEF Tagged, Path
  <2>8. Repository(n) = Join(lib, "/", x)
    BY <1>2, <1>3, <2>1, <2>2, <2>3 DEF Repository
  <2> QED
    BY <1>2, <2>3, <2>4, <2>6, <2>7, <2>8 DEF y
<1>5. CASE ~Contains(n, ":")
  <2>0. "/" # ":"
    OBVIOUS
  <2>1. ~Contains(m, ":") /\ Contains(m, "/")
    BY <1>1, <1>5, <2>0, JoinContains, Separators DEF lib
  <2>2. ~Tagged(m) /\ ~Tagged(n) /\ Path(m) = m /\ Path(n) = n
    BY <1>5, <2>1 DEF Tagged, Path
  <2>3. Repository(n) = m
    BY <1>2, <1>3, <2>2 DEF Repository, lib
  <2> QED
    BY <1>2, <2>1, <2>2, <2>3
<1> QED
  BY <1>4, <1>5

(* The shell's shorthand stands for what the reference stands for. *)
LEMMA NormalizeKeeps ==
    ASSUME NEW s \in Seq(Token)
    PROVE  /\ ManifestUrl(Normalize(s)) = ManifestUrl(s)
           /\ Parses(s) => Parses(Normalize(s))
           /\ Pullable(s) => Hosted(NameAndTag(Normalize(s)))
<1> DEFINE hub == <<"docker.io">>
           lib == <<"library">>
           n == NameAndTag(s)
           t == Normalize(s)
<1>1. /\ hub \in Seq(Token) /\ ~Contains(hub, "@") /\ lib \in Seq(Token) /\ ~Contains(lib, "@")
  <2>1. "docker.io" # "@" /\ "library" # "@"
    OBVIOUS
  <2> QED
    BY <2>1, OneWord, Separators
<1>2. n \in Seq(Token)
  BY ReferenceParts
<1>3. ASSUME NEW x \in Seq(Token)
      PROVE  /\ <<"docker.io", "/">> \o x = Join(hub, "/", x)
             /\ <<"docker.io", "/", "library", "/">> \o x = Join(hub, "/", Join(lib, "/", x))
  <2>1. /\ <<"docker.io", "/">> = <<"docker.io">> \o <<"/">>
        /\ <<"library", "/">> = <<"library">> \o <<"/">>
        /\ <<"docker.io", "/", "library", "/">> = <<"docker.io", "/">> \o <<"library", "/">>
    OBVIOUS
  <2>2. <<"docker.io", "/">> \in Seq(Token) /\ <<"library", "/">> \in Seq(Token)
    BY Separators
  <2>3. (<<"docker.io", "/">> \o <<"library", "/">>) \o x
          = <<"docker.io", "/">> \o (<<"library", "/">> \o x)
    BY <2>2, ConcatAssociative
  <2> QED
    BY <2>1, <2>3 DEF Join
<1> HIDE DEF hub, lib
<1>4. CASE ~Contains(s, "/")
  <2>1. ~Contains(n, "/")
    BY <1>4, FirstComponent
  <2> DEFINE u == Join(lib, "/", s)
             m == Join(lib, "/", n)
  <2>2. t = Join(hub, "/", u)
    BY <1>3, <1>4 DEF Normalize
  <2>3. /\ u \in Seq(Token) /\ (Pinned(u) <=> Pinned(s)) /\ NameAndTag(u) = m
        /\ Pinned(s) => DigestOf(u) = DigestOf(s)
    BY <1>1, PrefixKept
  <2>4. /\ t \in Seq(Token) /\ t # <<>> /\ (Pinned(t) <=> Pinned(s))
        /\ NameAndTag(t) = Join(hub, "/", m)
        /\ Pinned(s) => DigestOf(t) = DigestOf(s)
    <3> HIDE DEF u, m, t
    <3> QED
      BY <1>1, <2>2, <2>3, PrefixKept
  <2>5. m \in Seq(Token)
    BY <1>1, <1>2, JoinProperties, Separators
  <2>6. /\ OnHub(n) /\ Remainder(n) = n
        /\ (Tagged(m) <=> Tagged(n))
        /\ Tagged(n) => After(m, Last(m, ":")) = After(n, Last(n, ":"))
        /\ Contains(Path(m), "/") /\ Path(m) = Repository(n)
    BY <1>2, <2>1, LibraryName DEF lib
  <2> HIDE DEF m, n, t
  <2>7. Hosted(NameAndTag(t)) /\ OnHub(NameAndTag(t)) /\ Remainder(NameAndTag(t)) = m
    BY <2>4, <2>5, UnderHub DEF hub
  <2>8. Repository(NameAndTag(t)) = Repository(n)
    BY <2>6, <2>7 DEF Repository
  <2>9. ManifestRef(t) = ManifestRef(s)
    BY <2>4, <2>6, <2>7 DEF ManifestRef, TagOf, n
  <2> QED
    BY <2>4, <2>6, <2>7, <2>8, <2>9, SameOnHub DEF n, t
<1>5. CASE Contains(s, "/") /\ ~IsHost(Before(s, First(s, "/")))
  <2>1. t = Join(hub, "/", s)
    BY <1>3, <1>5 DEF Normalize
  <2>2. /\ t \in Seq(Token) /\ t # <<>> /\ (Pinned(t) <=> Pinned(s))
        /\ NameAndTag(t) = Join(hub, "/", n)
        /\ Pinned(s) => DigestOf(t) = DigestOf(s)
    <3> HIDE DEF t
    <3> QED
      BY <1>1, <2>1, PrefixKept
  <2>3. ~Hosted(n)
    BY <1>5, FirstComponent DEF Hosted
  <2>4. OnHub(n) /\ Remainder(n) = n
    BY <2>3 DEF OnHub, RegistryRaw, Remainder
  <2> HIDE DEF n, t
  <2>5. Hosted(NameAndTag(t)) /\ OnHub(NameAndTag(t)) /\ Remainder(NameAndTag(t)) = n
    BY <1>2, <2>2, UnderHub DEF hub
  <2>6. Repository(NameAndTag(t)) = Repository(n)
    BY <2>4, <2>5 DEF Repository
  <2>7. ManifestRef(t) = ManifestRef(s)
    BY <2>2, <2>4, <2>5 DEF ManifestRef, TagOf, n
  <2> QED
    BY <2>2, <2>4, <2>5, <2>6, <2>7, SameOnHub DEF n, t
<1>6. CASE Contains(s, "/") /\ IsHost(Before(s, First(s, "/")))
  <2>1. t = s
    BY <1>6 DEF Normalize
  <2>2. ASSUME Pullable(s) PROVE Contains(n, "/")
    <3>1. CASE ~Pinned(s)
      BY <1>6, <3>1, ReferenceParts
    <3>2. CASE Pinned(s)
      <4>1. DigestOf(s) \in Seq(Token) /\ s = Join(n, "@", DigestOf(s)) /\ DigestParses(DigestOf(s))
        BY <2>2, <3>2, ReferenceParts DEF Pullable
      <4>2. ~Contains(DigestOf(s), "/")
        <5>1. PICK a, h : /\ DigestOf(s) = <<a, ":", h>> /\ a \in {"sha256", "sha512"}
                          /\ h \in Hex \cup Hex128
          BY <4>1 DEF DigestParses
        <5>2. a # "/" /\ h # "/"
          BY <5>1, ReferenceAssumption DEF Separator
        <5>3. DOMAIN <<a, ":", h>> = 1..3 /\ <<a, ":", h>>[1] = a /\ <<a, ":", h>>[2] = ":"
              /\ <<a, ":", h>>[3] = h
          OBVIOUS
        <5>4. \A i \in 1..3 : i = 1 \/ i = 2 \/ i = 3
          OBVIOUS
        <5> QED
          BY <5>1, <5>2, <5>3, <5>4 DEF Contains
      <4>3. Contains(n, "/") \/ "@" = "/" \/ Contains(DigestOf(s), "/")
        <5> HIDE DEF n
        <5> QED
          BY <1>2, <1>6, <4>1, JoinContains, Separators
      <4> QED
        BY <4>2, <4>3
    <3> QED
      BY <3>1, <3>2
  <2>3. Pullable(s) => Hosted(n)
    BY <1>6, <2>2, FirstComponent DEF Hosted
  <2> QED
    BY <2>1, <2>3
<1> QED
  BY <1>4, <1>5, <1>6

--------------------------------------------------------------------------------
(* The inductive invariant: an entry is filed under the canonical name of a
   reference that could be pulled, and no two under one name. *)
Filed(e) ==
    /\ e \in ImageEntry
    /\ e.reference \in Seq(Token)
    /\ Pullable(e.reference)
    /\ e.canonical = Canonical(e.reference)

CatalogInv ==
    /\ \A e \in catalog : Filed(e)
    /\ \A e, f \in catalog : e.canonical = f.canonical => e = f

(* A pull of s puts one entry in place of the one of that name. *)
LEMMA SavedIsFiled ==
    ASSUME NEW s \in Inputs, Pullable(s)
    PROVE  LET e == [reference |-> s, canonical |-> Canonical(s)]
           IN  Filed(e) /\ e.canonical = Canonical(s)
<1>1. s \in Seq(Token)
  BY ReferenceAssumption DEF String
<1>2. Canonical(s) \in Seq(Token)
  BY <1>1, CanonicalParts
<1> QED
  BY <1>1, <1>2 DEF Filed, ImageEntry, String

(* Pulls and removals keep the invariant. *)
LEMMA CatalogInvariant == Spec => []CatalogInv
<1>1. Init => CatalogInv
  BY DEF Init, CatalogInv
<1>2. CatalogInv /\ [Next]_catalog => CatalogInv'
  <2> SUFFICES ASSUME CatalogInv, [Next]_catalog PROVE CatalogInv'
    OBVIOUS
  <2>1. CASE UNCHANGED catalog
    BY <2>1 DEF CatalogInv
  <2>2. ASSUME NEW s \in Inputs, Pull(s) PROVE CatalogInv'
    <3> DEFINE e == [reference |-> s, canonical |-> Canonical(s)]
    <3>1. Filed(e) /\ e.canonical = Canonical(s)
      BY <2>2, SavedIsFiled DEF Pull
    <3>2. catalog' = {f \in catalog : f.canonical # Canonical(s)} \cup {e}
      BY <2>2 DEF Pull, Save
    <3> HIDE DEF e
    <3>3. \A f \in catalog' : Filed(f)
      BY <3>1, <3>2 DEF CatalogInv
    <3>4. \A f, g \in catalog' : f.canonical = g.canonical => f = g
      BY <3>1, <3>2 DEF CatalogInv
    <3> QED
      BY <3>3, <3>4 DEF CatalogInv
  <2>3. ASSUME NEW s \in Inputs, Rmi(s) PROVE CatalogInv'
    <3>1. catalog' \subseteq catalog
      BY <2>3 DEF Rmi
    <3> QED
      BY <3>1 DEF CatalogInv
  <2> QED
    BY <2>1, <2>2, <2>3 DEF Next
<1> QED
  BY <1>1, <1>2, PTL DEF Spec

(* The catalog holds entries, one to a canonical name, whatever is typed
   (catalog.rs, entry_path: the file is named after the canonical form). *)
THEOREM TypeCorrect == Spec => []TypeOK
<1>1. CatalogInv => TypeOK
  BY DEF CatalogInv, Filed, TypeOK
<1> QED
  BY <1>1, CatalogInvariant, PTL

(* Whatever image inspect and rmi find for a reference was asked of the place
   the reference stands for (catalog.rs, find and remove). *)
THEOREM FoundIsTheImage == Spec => []FindsItsImage
<1>1. CatalogInv => FindsItsImage
  <2> SUFFICES ASSUME CatalogInv, NEW s \in Inputs, NEW e \in Found(s)
               PROVE  ManifestUrl(s) = ManifestUrl(e.reference)
    BY DEF FindsItsImage
  <2>1. e \in catalog /\ e.canonical = Canonical(s)
    BY DEF Found
  <2>2. e.reference \in Seq(Token) /\ e.canonical = Canonical(e.reference)
    BY <2>1 DEF CatalogInv, Filed
  <2>3. s \in Seq(Token)
    BY ReferenceAssumption DEF String
  <2> QED
    BY <2>1, <2>2, <2>3, CanonicalInjective
<1> QED
  BY <1>1, CatalogInvariant, PTL

(* Every spelling of what is asked for at one place shares one entry
   (catalog.rs, canonicalize). *)
THEOREM FiledOnce == Spec => []OneEntryPerImage
<1>1. CatalogInv => OneEntryPerImage
  <2> SUFFICES ASSUME CatalogInv, NEW e \in catalog, NEW f \in catalog,
                      ManifestUrl(e.reference) = ManifestUrl(f.reference)
               PROVE  e = f
    BY DEF OneEntryPerImage
  <2>1. Filed(e) /\ Filed(f)
    BY DEF CatalogInv
  <2>2. Canonical(e.reference) = Canonical(f.reference)
    BY <2>1, UrlDeterminesCanonical DEF Filed
  <2> QED
    BY <2>1, <2>2 DEF CatalogInv, Filed
<1> QED
  BY <1>1, CatalogInvariant, PTL

(* The name images prints finds its entry again (main.rs, Command::Images;
   catalog.rs, find). *)
THEOREM ListedNamesFind == Spec => []ListedNameFinds
<1>1. CatalogInv => ListedNameFinds
  <2> SUFFICES ASSUME CatalogInv, NEW e \in catalog,
                      ~(Pinned(e.reference) /\ Tagged(Repository(NameAndTag(e.reference))))
               PROVE  Found(e.canonical) = {e}
    BY DEF ListedNameFinds
  <2>1. Filed(e)
    BY DEF CatalogInv
  <2>2. Parses(e.canonical) /\ Canonical(e.canonical) = e.canonical
    BY <2>1, CanonicalStable DEF Filed, Pullable
  <2> QED
    BY <2>2 DEF Found, CatalogInv
<1> QED
  BY <1>1, CatalogInvariant, PTL

(* What container run asks for is what container pull of the same reference
   pulled (container-cli.nix, the normalization before wwn-containerd-run). *)
THEOREM RunAgreesWithPull == Spec => []RunsWhatWasPulled
<1>1. CatalogInv => RunsWhatWasPulled
  <2> SUFFICES ASSUME CatalogInv, NEW s \in Inputs, NEW e \in Found(s)
               PROVE  /\ Parses(Normalize(s))
                      /\ ManifestUrl(Normalize(s)) = ManifestUrl(e.reference)
                      /\ Pullable(s) => Hosted(NameAndTag(Normalize(s)))
    BY DEF RunsWhatWasPulled
  <2>1. e \in catalog /\ e.canonical = Canonical(s) /\ Parses(s)
    BY DEF Found
  <2>2. e.reference \in Seq(Token) /\ e.canonical = Canonical(e.reference)
    BY <2>1 DEF CatalogInv, Filed
  <2>3. s \in Seq(Token)
    BY ReferenceAssumption DEF String
  <2>4. ManifestUrl(s) = ManifestUrl(e.reference)
    BY <2>1, <2>2, <2>3, CanonicalInjective
  <2> QED
    BY <2>1, <2>3, <2>4, NormalizeKeeps
<1> QED
  BY <1>1, CatalogInvariant, PTL
================================================================================
