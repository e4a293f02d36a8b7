-------------------------- MODULE RunFolder_proofs --------------------------
(***************************************************************************)
(* Theorems about RunFolder: an extract holds nothing of rows it does not show, *)
(* a partial run leaves the full reports as they are, the reports of a folder    *)
(* link to pages that are there, and no Android report is made from half an       *)
(* extraction.                                                                   *)
(***************************************************************************)
EXTENDS RunFolder, SequenceTheorems, TLAPS

(* A function on 1 .. n is a sequence of that length. *)
LEMMA Listed ==
  ASSUME NEW S, NEW n \in Nat, NEW f \in [1 .. n -> S]
  PROVE  f \in Seq(S) /\ Len(f) = n
  <1>1. f \in Seq(S)
    BY SeqDef
  <1>2. DOMAIN f = 1 .. n
    OBVIOUS
  <1>3. Len(f) \in Nat /\ DOMAIN f = 1 .. Len(f)
    BY <1>1, LenProperties
  <1> QED
    BY <1>1, <1>2, <1>3

(* The names a plan is made of. *)
Word == {"-", "extract", "extracting", "settings", "check", "stage", "report", "rows",
         "resolve", "render", "tidy", "index"} \cup Report

LEMMA Words ==
  /\ "-" \in Word /\ "extract" \in Word /\ "extracting" \in Word /\ "settings" \in Word
  /\ "check" \in Word /\ "stage" \in Word /\ "report" \in Word /\ "rows" \in Word
  /\ "resolve" \in Word /\ "render" \in Word /\ "tidy" \in Word /\ "index" \in Word
  BY DEF Word

(* Short lists, one length at a time. *)
LEMMA Two ==
  ASSUME NEW S, NEW a \in S, NEW b \in S
  PROVE  <<a, b>> \in [1 .. 2 -> S]
  OBVIOUS

LEMMA Three ==
  ASSUME NEW S, NEW a \in S, NEW b \in S, NEW c \in S
  PROVE  <<a, b, c>> \in [1 .. 3 -> S]
  OBVIOUS

LEMMA Four ==
  ASSUME NEW S, NEW a \in S, NEW b \in S, NEW c \in S, NEW d \in S
  PROVE  <<a, b, c, d>> \in [1 .. 4 -> S]
  OBVIOUS

LEMMA Five ==
  ASSUME NEW S, NEW a \in S, NEW b \in S, NEW c \in S, NEW d \in S, NEW e \in S
  PROVE  <<a, b, c, d, e>> \in [1 .. 5 -> S]
  <1> DEFINE t == <<a, b, c, d, e>>
  <1>1. DOMAIN t = 1 .. 5
    OBVIOUS
  <1>2. t[1] = a /\ t[2] = b /\ t[3] = c /\ t[4] = d /\ t[5] = e
    OBVIOUS
  <1>3. \A i \in 1 .. 5 : i = 1 \/ i = 2 \/ i = 3 \/ i = 4 \/ i = 5
    OBVIOUS
  <1>4. t = [i \in 1 .. 5 |-> t[i]]
    OBVIOUS
  <1> HIDE DEF t
  <1>5. \A i \in 1 .. 5 : t[i] \in S
    BY <1>2, <1>3
  <1>6. t \in [1 .. 5 -> S]
    BY <1>1, <1>4, <1>5
  <1> QED
    BY <1>6 DEF t

LEMMA Reports ==
  /\ \A r : r \in Report <=> (r = "Conversations" \/ r = "Contacts" \/ r = "Memories"
                               \/ r = "CacheMedia" \/ r = "CacheController")
  /\ Order[1] = "Conversations" /\ Order[2] = "Contacts" /\ Order[3] = "Memories"
  /\ Order[4] = "CacheMedia" /\ Order[5] = "CacheController"
  /\ Report \subseteq Word
  <1>1. /\ Order[1] = "Conversations" /\ Order[2] = "Contacts" /\ Order[3] = "Memories"
        /\ Order[4] = "CacheMedia" /\ Order[5] = "CacheController" /\ DOMAIN Order = 1 .. 5
    BY DEF Order
  <1> HIDE DEF Order
  <1>2. \A i \in 1 .. 5 : i = 1 \/ i = 2 \/ i = 3 \/ i = 4 \/ i = 5
    OBVIOUS
  <1>3. 1 \in 1 .. 5 /\ 2 \in 1 .. 5 /\ 3 \in 1 .. 5 /\ 4 \in 1 .. 5 /\ 5 \in 1 .. 5
    OBVIOUS
  <1>4. \A r : r \in Report <=> \E i \in 1 .. 5 : r = Order[i]
    BY <1>1 DEF Report
  <1>5. \A r : r \in Report <=> (r = Order[1] \/ r = Order[2] \/ r = Order[3]
                               \/ r = Order[4] \/ r = Order[5])
    BY <1>2, <1>3, <1>4
  <1> QED
    BY <1>1, <1>5 DEF Word

(* The steps of a list of length n, one after the other, and of two lists. *)
Steps == Word \X Word
Lists(s, n) == s \in Seq(Steps) /\ Len(s) = n

LEMMA OnceSteps ==
  ASSUME NEW n \in Nat, NEW rs \in [1 .. n -> Word]
  PROVE  /\ Lists(Once(rs), n)
         /\ \A i \in 1 .. n : Once(rs)[i] = <<rs[i], "-">>
  <1>1. Once(rs) = [i \in 1 .. n |-> <<rs[i], "-">>]
    BY DEF Once
  <1>2. \A i \in 1 .. n : <<rs[i], "-">> \in Steps
    BY Words DEF Steps
  <1>3. Once(rs) \in [1 .. n -> Steps]
    BY <1>1, <1>2
  <1> QED
    BY <1>1, <1>3, Listed DEF Lists

LEMMA EachSteps ==
  ASSUME NEW step \in Word, NEW n \in Nat, NEW rs \in [1 .. n -> Word]
  PROVE  /\ Lists(Each(step, rs), n)
         /\ \A i \in 1 .. n : Each(step, rs)[i] = <<step, rs[i]>>
  <1>1. Each(step, rs) = [i \in 1 .. n |-> <<step, rs[i]>>]
    BY DEF Each
  <1>2. \A i \in 1 .. n : <<step, rs[i]>> \in Steps
    BY DEF Steps
  <1>3. Each(step, rs) \in [1 .. n -> Steps]
    BY <1>1, <1>2
  <1> QED
    BY <1>1, <1>3, Listed DEF Lists

LEMMA Orders ==
  /\ Order \in [1 .. 5 -> Word]
  /\ RefreshOrder \in [1 .. 3 -> Word]
  /\ AndroidOrder \in [1 .. 4 -> Word]
  /\ SubSeq(Order, 1, 2) \in [1 .. 2 -> Word]
  /\ SubSeq(Order, 3, 5) \in [1 .. 3 -> Word]
  /\ \A i \in 1 .. 2 : SubSeq(Order, 1, 2)[i] = Order[i]
  /\ \A i \in 1 .. 3 : SubSeq(Order, 3, 5)[i] = Order[i + 2]
  <1>1. Order \in [1 .. 5 -> Word]
    BY Five, Reports, Zenon DEF Order
  <1>2. RefreshOrder \in [1 .. 3 -> Word]
    BY Three, Reports, Zenon DEF RefreshOrder
  <1>3. AndroidOrder \in [1 .. 4 -> Word]
    BY Four, Reports, Zenon DEF AndroidOrder
  <1>4. Order \in Seq(Word) /\ Len(Order) = 5
    BY <1>1, Listed
  <1>5. /\ SubSeq(Order, 1, 2) \in Seq(Word) /\ Len(SubSeq(Order, 1, 2)) = 2
        /\ \A i \in 1 .. 2 : SubSeq(Order, 1, 2)[i] = Order[i]
    BY <1>4, SubSeqProperties
  <1>6. /\ SubSeq(Order, 3, 5) \in Seq(Word) /\ Len(SubSeq(Order, 3, 5)) = 3
        /\ \A i \in 1 .. 3 : SubSeq(Order, 3, 5)[i] = Order[i + 2]
    BY <1>4, SubSeqProperties
  <1>7. SubSeq(Order, 1, 2) \in [1 .. 2 -> Word] /\ SubSeq(Order, 3, 5) \in [1 .. 3 -> Word]
    BY <1>5, <1>6, LenProperties
  <1> QED
    BY <1>1, <1>2, <1>3, <1>5, <1>6, <1>7

(* What each kind of run does, step by step. *)
Does(p, i, step) == p[i] = <<step, "-">>
DoesEach(p, from, step, rs, n) == \A i \in 1 .. n : p[from + i] = <<step, rs[i]>>

LEMMA OnceLists ==
  /\ \A x \in Word : Lists(Once(<<x>>), 1) /\ Does(Once(<<x>>), 1, x)
  /\ \A x, y \in Word : /\ Lists(Once(<<x, y>>), 2)
                        /\ Does(Once(<<x, y>>), 1, x) /\ Does(Once(<<x, y>>), 2, y)
  /\ \A x, y, z \in Word :
       /\ Lists(Once(<<x, y, z>>), 3)
       /\ Does(Once(<<x, y, z>>), 1, x) /\ Does(Once(<<x, y, z>>), 2, y)
       /\ Does(Once(<<x, y, z>>), 3, z)
  /\ \A x, y, z, w \in Word :
       /\ Lists(Once(<<x, y, z, w>>), 4)
       /\ Does(Once(<<x, y, z, w>>), 1, x) /\ Does(Once(<<x, y, z, w>>), 2, y)
       /\ Does(Once(<<x, y, z, w>>), 3, z) /\ Does(Once(<<x, y, z, w>>), 4, w)
  <1>1. ASSUME NEW x \in Word
        PROVE  Lists(Once(<<x>>), 1) /\ Does(Once(<<x>>), 1, x)
    <2>1. <<x>> \in [1 .. 1 -> Word] /\ <<x>>[1] = x
      OBVIOUS
    <2> QED
      BY <2>1, OnceSteps, 1 \in 1 .. 1 DEF Does
  <1>2. ASSUME NEW x \in Word, NEW y \in Word
        PROVE  /\ Lists(Once(<<x, y>>), 2)
               /\ Does(Once(<<x, y>>), 1, x) /\ Does(Once(<<x, y>>), 2, y)
    <2>1. <<x, y>> \in [1 .. 2 -> Word] /\ <<x, y>>[1] = x /\ <<x, y>>[2] = y
      OBVIOUS
    <2> QED
      BY <2>1, OnceSteps, 1 \in 1 .. 2, 2 \in 1 .. 2, ZenonT(60) DEF Does
  <1>3. ASSUME NEW x \in Word, NEW y \in Word, NEW z \in Word
        PROVE  /\ Lists(Once(<<x, y, z>>), 3)
               /\ Does(Once(<<x, y, z>>), 1, x) /\ Does(Once(<<x, y, z>>), 2, y)
               /\ Does(Once(<<x, y, z>>), 3, z)
    <2> DEFINE t == <<x, y, z>>
    <2>1. t \in [1 .. 3 -> Word] /\ t[1] = x /\ t[2] = y /\ t[3] = z
      BY Three
    <2> HIDE DEF t
    <2>2. Lists(Once(t), 3) /\ \A i \in 1 .. 3 : Once(t)[i] = <<t[i], "-">>
      BY <2>1, OnceSteps
    <2>3. Does(Once(t), 1, x) /\ Does(Once(t), 2, y) /\ Does(Once(t), 3, z)
      BY <2>1, <2>2 DEF Does
    <2> QED
      BY <2>2, <2>3 DEF t
  <1>4. ASSUME NEW x \in Word, NEW y \in Word, NEW z \in Word, NEW w \in Word
        PROVE  /\ Lists(Once(<<x, y, z, w>>), 4)
               /\ Does(Once(<<x, y, z, w>>), 1, x) /\ Does(Once(<<x, y, z, w>>), 2, y)
               /\ Does(Once(<<x, y, z, w>>), 3, z) /\ Does(Once(<<x, y, z, w>>), 4, w)
    <2> DEFINE t == <<x, y, z, w>>
    <2>1. t \in [1 .. 4 -> Word] /\ t[1] = x /\ t[2] = y /\ t[3] = z /\ t[4] = w
      BY Four
    <2> HIDE DEF t
    <2>2. Lists(Once(t), 4) /\ \A i \in 1 .. 4 : Once(t)[i] = <<t[i], "-">>
      BY <2>1, OnceSteps
    <2>3. Does(Once(t), 1, x) /\ Does(Once(t), 2, y) /\ Does(Once(t), 3, z) /\ Does(Once(t), 4, w)
      BY <2>1, <2>2 DEF Does
    <2> QED
      BY <2>2, <2>3 DEF t
  <1> QED
    BY <1>1, <1>2, <1>3, <1>4

LEMMA EachLists ==
  ASSUME NEW step \in Word, NEW n \in Nat, NEW rs \in [1 .. n -> Word]
  PROVE  Lists(Each(step, rs), n) /\ DoesEach(Each(step, rs), 0, step, rs, n)
  BY EachSteps DEF DoesEach

(* A list's steps keep their places when another is put after it. *)
LEMMA Appended ==
  ASSUME NEW s, NEW t, NEW n \in Nat, NEW m \in Nat, Lists(s, n), Lists(t, m)
  PROVE  /\ Lists(s \o t, n + m)
         /\ \A i \in 1 .. n : \A x : Does(s, i, x) => Does(s \o t, i, x)
         /\ \A i \in 1 .. m : \A x : Does(t, i, x) => Does(s \o t, n + i, x)
         /\ \A x, rs : \A from, k \in Nat :
              from + k <= n /\ DoesEach(s, from, x, rs, k) => DoesEach(s \o t, from, x, rs, k)
         /\ \A x, rs : DoesEach(t, 0, x, rs, m) => DoesEach(s \o t, n, x, rs, m)
  <1> DEFINE p == s \o t
  <1>1. /\ Lists(p, n + m)
        /\ \A i \in 1 .. n : p[i] = s[i]
        /\ \A i \in 1 .. m : p[n + i] = t[i]
    <2>1. s \in Seq(Steps) /\ t \in Seq(Steps) /\ Len(s) = n /\ Len(t) = m
      BY DEF Lists
    <2>2. p \in Seq(Steps) /\ Len(p) = n + m
      BY <2>1, ConcatProperties
    <2>3. \A i \in 1 .. n + m : p[i] = IF i <= n THEN s[i] ELSE t[i - n]
      BY <2>1, ConcatProperties
    <2>4. \A i \in 1 .. m : n + i \in 1 .. n + m /\ ~(n + i <= n) /\ (n + i) - n = i
      OBVIOUS
    <2> HIDE DEF p
    <2> QED
      BY <2>2, <2>3, <2>4 DEF Lists
  <1> HIDE DEF p
  <1>2. \A i \in 1 .. n : \A x : Does(s, i, x) => Does(p, i, x)
    BY <1>1 DEF Does
  <1>3. \A i \in 1 .. m : \A x : Does(t, i, x) => Does(p, n + i, x)
    BY <1>1 DEF Does
  <1>4. ASSUME NEW x, NEW rs, NEW from \in Nat, NEW k \in Nat, from + k <= n,
               DoesEach(s, from, x, rs, k)
        PROVE  DoesEach(p, from, x, rs, k)
    BY <1>1, <1>4 DEF DoesEach
  <1>5. ASSUME NEW x, NEW rs, DoesEach(t, 0, x, rs, m)
        PROVE  DoesEach(p, n, x, rs, m)
    BY <1>1, <1>5 DEF DoesEach
  <1> QED
    BY <1>1, <1>2, <1>3, <1>4, <1>5 DEF p

LEMMA PartialPlan ==
  ASSUME NEW mode \in {"partial", "dry"}
  PROVE  LET p == Plan(mode)
         IN /\ Lists(p, 17)
            /\ Does(p, 1, "extract") /\ Does(p, 2, "extracting") /\ Does(p, 3, "check")
            /\ Does(p, 4, "stage") /\ DoesEach(p, 4, "rows", Order, 5)
            /\ Does(p, 10, "resolve") /\ DoesEach(p, 10, "render", Order, 5)
            /\ Does(p, 16, "tidy") /\ Does(p, 17, "index")
  <1> DEFINE a == Once(<<"extract", "extracting", "check", "stage">>)
             b == Each("rows", Order)
             c == Once(<<"resolve">>)
             d == Each("render", Order)
             e == Once(<<"tidy", "index">>)
             ab == a \o b
             abc == ab \o c
             abcd == abc \o d
             p == abcd \o e
  <1>1. Plan(mode) = p
    BY DEF Plan
  <1>2. /\ Lists(a, 4) /\ Does(a, 1, "extract") /\ Does(a, 2, "extracting")
        /\ Does(a, 3, "check") /\ Does(a, 4, "stage")
    BY OnceLists, Words
  <1>3. Lists(b, 5) /\ DoesEach(b, 0, "rows", Order, 5)
    BY EachLists, Orders, Words
  <1>4. Lists(c, 1) /\ Does(c, 1, "resolve")
    BY OnceLists, Words
  <1>5. Lists(d, 5) /\ DoesEach(d, 0, "render", Order, 5)
    BY EachLists, Orders, Words
  <1>6. Lists(e, 2) /\ Does(e, 1, "tidy") /\ Does(e, 2, "index")
    BY OnceLists, Words
  <1> HIDE DEF a, b, c, d, e
  <1>7. /\ Lists(ab, 9) /\ Does(ab, 1, "extract") /\ Does(ab, 2, "extracting")
        /\ Does(ab, 3, "check") /\ Does(ab, 4, "stage") /\ DoesEach(ab, 4, "rows", Order, 5)
    BY <1>2, <1>3, Appended
  <1> HIDE DEF ab
  <1>8. /\ Lists(abc, 10) /\ Does(abc, 1, "extract") /\ Does(abc, 2, "extracting")
        /\ Does(abc, 3, "check") /\ Does(abc, 4, "stage") /\ DoesEach(abc, 4, "rows", Order, 5)
        /\ Does(abc, 10, "resolve")
    BY <1>4, <1>7, Appended
  <1> HIDE DEF abc
  <1>9. /\ Lists(abcd, 15) /\ Does(abcd, 1, "extract") /\ Does(abcd, 2, "extracting")
        /\ Does(abcd, 3, "check") /\ Does(abcd, 4, "stage") /\ DoesEach(abcd, 4, "rows", Order, 5)
        /\ Does(abcd, 10, "resolve") /\ DoesEach(abcd, 10, "render", Order, 5)
    BY <1>5, <1>8, Appended
  <1> HIDE DEF abcd
  <1>10. /\ Lists(p, 17) /\ Does(p, 1, "extract") /\ Does(p, 2, "extracting")
         /\ Does(p, 3, "check") /\ Does(p, 4, "stage") /\ DoesEach(p, 4, "rows", Order, 5)
         /\ Does(p, 10, "resolve") /\ DoesEach(p, 10, "render", Order, 5)
         /\ Does(p, 16, "tidy") /\ Does(p, 17, "index")
    BY <1>6, <1>9, Appended
  <1> QED
    BY <1>1, <1>10

LEMMA FullPlan ==
  ASSUME os = "ios"
  PROVE  LET p == Plan("full")
         IN /\ Lists(p, 11)
            /\ Does(p, 1, "extract") /\ Does(p, 2, "extracting") /\ Does(p, 3, "settings")
            /\ Does(p, 4, "stage") /\ DoesEach(p, 4, "report", SubSeq(Order, 1, 2), 2)
            /\ Does(p, 7, "tidy") /\ DoesEach(p, 7, "report", SubSeq(Order, 3, 5), 3)
            /\ Does(p, 11, "index")
  <1> DEFINE a == Once(<<"extract", "extracting", "settings", "stage">>)
             b == Each("report", SubSeq(Order, 1, 2))
             c == Once(<<"tidy">>)
             d == Each("report", SubSeq(Order, 3, 5))
             e == Once(<<"index">>)
             ab == a \o b
             abc == ab \o c
             abcd == abc \o d
             p == abcd \o e
  <1>1. Plan("full") = p
    BY DEF Plan, FullOrder
  <1>2. /\ Lists(a, 4) /\ Does(a, 1, "extract") /\ Does(a, 2, "extracting")
        /\ Does(a, 3, "settings") /\ Does(a, 4, "stage")
    BY OnceLists, Words
  <1>3. Lists(b, 2) /\ DoesEach(b, 0, "report", SubSeq(Order, 1, 2), 2)
    BY EachLists, Orders, Words
  <1>4. Lists(c, 1) /\ Does(c, 1, "tidy")
    BY OnceLists, Words
  <1>5. Lists(d, 3) /\ DoesEach(d, 0, "report", SubSeq(Order, 3, 5), 3)
    BY EachLists, Orders, Words
  <1>6. Lists(e, 1) /\ Does(e, 1, "index")
    BY OnceLists, Words
  <1> HIDE DEF a, b, c, d, e
  <1>7. /\ Lists(ab, 6) /\ Does(ab, 1, "extract") /\ Does(ab, 2, "extracting")
        /\ Does(ab, 3, "settings") /\ Does(ab, 4, "stage")
        /\ DoesEach(ab, 4, "report", SubSeq(Order, 1, 2), 2)
    BY <1>2, <1>3, Appended
  <1> HIDE DEF ab
  <1>8. /\ Lists(abc, 7) /\ Does(abc, 1, "extract") /\ Does(abc, 2, "extracting")
        /\ Does(abc, 3, "settings") /\ Does(abc, 4, "stage")
        /\ DoesEach(abc, 4, "report", SubSeq(Order, 1, 2), 2) /\ Does(abc, 7, "tidy")
    BY <1>4, <1>7, Appended
  <1> HIDE DEF abc
  <1>9. /\ Lists(abcd, 10) /\ Does(abcd, 1, "extract") /\ Does(abcd, 2, "extracting")
        /\ Does(abcd, 3, "settings") /\ Does(abcd, 4, "stage")
        /\ DoesEach(abcd, 4, "report", SubSeq(Order, 1, 2), 2) /\ Does(abcd, 7, "tidy")
        /\ DoesEach(abcd, 7, "report", SubSeq(Order, 3, 5), 3)
    BY <1>5, <1>8, Appended
  <1> HIDE DEF abcd
  <1>10. /\ Lists(p, 11) /\ Does(p, 1, "extract") /\ Does(p, 2, "extracting")
         /\ Does(p, 3, "settings") /\ Does(p, 4, "stage")
         /\ DoesEach(p, 4, "report", SubSeq(Order, 1, 2), 2) /\ Does(p, 7, "tidy")
         /\ DoesEach(p, 7, "report", SubSeq(Order, 3, 5), 3) /\ Does(p, 11, "index")
    BY <1>6, <1>9, Appended
  <1> QED
    BY <1>1, <1>10

LEMMA AndroidPlan ==
  ASSUME os = "android"
  PROVE  LET p == Plan("full")
         IN /\ Lists(p, 9)
            /\ Does(p, 1, "extract") /\ Does(p, 2, "extracting") /\ Does(p, 3, "stage")
            /\ DoesEach(p, 3, "report", AndroidOrder, 4)
            /\ Does(p, 8, "tidy") /\ Does(p, 9, "index")
  <1> DEFINE a == Once(<<"extract", "extracting", "stage">>)
             b == Each("report", AndroidOrder)
             c == Once(<<"tidy", "index">>)
             ab == a \o b
             p == ab \o c
  <1>1. Plan("full") = p
    BY DEF Plan
  <1>2. Lists(a, 3) /\ Does(a, 1, "extract") /\ Does(a, 2, "extracting") /\ Does(a, 3, "stage")
    BY OnceLists, Words
  <1>3. Lists(b, 4) /\ DoesEach(b, 0, "report", AndroidOrder, 4)
    BY EachLists, Orders, Words
  <1>4. Lists(c, 2) /\ Does(c, 1, "tidy") /\ Does(c, 2, "index")
    BY OnceLists, Words
  <1> HIDE DEF a, b, c
  <1>5. /\ Lists(ab, 7) /\ Does(ab, 1, "extract") /\ Does(ab, 2, "extracting")
        /\ Does(ab, 3, "stage") /\ DoesEach(ab, 3, "report", AndroidOrder, 4)
    BY <1>2, <1>3, Appended
  <1> HIDE DEF ab
  <1>6. /\ Lists(p, 9) /\ Does(p, 1, "extract") /\ Does(p, 2, "extracting")
        /\ Does(p, 3, "stage") /\ DoesEach(p, 3, "report", AndroidOrder, 4)
        /\ Does(p, 8, "tidy") /\ Does(p, 9, "index")
    BY <1>4, <1>5, Appended
  <1> QED
    BY <1>1, <1>6

LEMMA RefreshPlan ==
  LET p == Plan("targeted")
  IN Lists(p, 4) /\ DoesEach(p, 0, "report", RefreshOrder, 3) /\ Does(p, 4, "index")
  <1> DEFINE a == Each("report", RefreshOrder)
             b == Once(<<"index">>)
             p == a \o b
  <1>1. Plan("targeted") = p
    BY DEF Plan
  <1>2. Lists(a, 3) /\ DoesEach(a, 0, "report", RefreshOrder, 3)
    BY EachLists, Orders, Words
  <1>3. Lists(b, 1) /\ Does(b, 1, "index")
    BY OnceLists, Words
  <1> HIDE DEF a, b
  <1>4. Lists(p, 4) /\ DoesEach(p, 0, "report", RefreshOrder, 3) /\ Does(p, 4, "index")
    BY <1>2, <1>3, Appended
  <1> QED
    BY <1>1, <1>4
-----------------------------------------------------------------------------
(* Which step, and which report, each place in a run is. *)

LEMMA PartialPlaces ==
  ASSUME NEW mode \in {"partial", "dry"}, NEW k \in 1 .. 17
  PROVE  LET p == Plan(mode)
         IN /\ p[k][1] = "extract" => k = 1
            /\ p[k][1] = "extracting" => k = 2
            /\ p[k][1] = "check" => k = 3
            /\ p[k][1] = "stage" => k = 4
            /\ p[k][1] = "rows" => k \in 5 .. 9 /\ p[k][2] = Order[k - 4]
            /\ p[k][1] = "resolve" => k = 10
            /\ p[k][1] = "render" => k \in 11 .. 15 /\ p[k][2] = Order[k - 10]
            /\ p[k][1] = "tidy" => k = 16
            /\ p[k][1] = "index" => k = 17
            /\ p[k][1] # "settings" /\ p[k][1] # "report"
  <1> DEFINE p == Plan(mode)
  <1>1. /\ Does(p, 1, "extract") /\ Does(p, 2, "extracting") /\ Does(p, 3, "check")
        /\ Does(p, 4, "stage") /\ DoesEach(p, 4, "rows", Order, 5)
        /\ Does(p, 10, "resolve") /\ DoesEach(p, 10, "render", Order, 5)
        /\ Does(p, 16, "tidy") /\ Does(p, 17, "index")
    BY PartialPlan
  <1> HIDE DEF p
  <1>2. /\ p[1][1] = "extract" /\ p[2][1] = "extracting" /\ p[3][1] = "check"
        /\ p[4][1] = "stage" /\ p[10][1] = "resolve" /\ p[16][1] = "tidy" /\ p[17][1] = "index"
    BY <1>1 DEF Does
  <1>3. k \in 5 .. 9 => p[k][1] = "rows" /\ p[k][2] = Order[k - 4]
    <2> SUFFICES ASSUME k \in 5 .. 9
                 PROVE  p[k][1] = "rows" /\ p[k][2] = Order[k - 4]
      OBVIOUS
    <2>1. k - 4 \in 1 .. 5 /\ 4 + (k - 4) = k
      OBVIOUS
    <2>2. p[4 + (k - 4)] = <<"rows", Order[k - 4]>>
      BY <1>1, <2>1 DEF DoesEach
    <2> QED
      BY <2>1, <2>2
  <1>4. k \in 11 .. 15 => p[k][1] = "render" /\ p[k][2] = Order[k - 10]
    <2> SUFFICES ASSUME k \in 11 .. 15
                 PROVE  p[k][1] = "render" /\ p[k][2] = Order[k - 10]
      OBVIOUS
    <2>1. k - 10 \in 1 .. 5 /\ 10 + (k - 10) = k
      OBVIOUS
    <2>2. p[10 + (k - 10)] = <<"render", Order[k - 10]>>
      BY <1>1, <2>1 DEF DoesEach
    <2> QED
      BY <2>1, <2>2
  <1>5. \/ k = 1 \/ k = 2 \/ k = 3 \/ k = 4 \/ k \in 5 .. 9 \/ k = 10 \/ k \in 11 .. 15
        \/ k = 16 \/ k = 17
    OBVIOUS
  <1>6. /\ p[k][1] = "extract" => k = 1
        /\ p[k][1] = "extracting" => k = 2
        /\ p[k][1] = "check" => k = 3
        /\ p[k][1] = "stage" => k = 4
        /\ p[k][1] = "rows" => k \in 5 .. 9
        /\ p[k][1] = "resolve" => k = 10
        /\ p[k][1] = "render" => k \in 11 .. 15
        /\ p[k][1] = "tidy" => k = 16
        /\ p[k][1] = "index" => k = 17
        /\ p[k][1] # "settings" /\ p[k][1] # "report"
    BY <1>2, <1>3, <1>4, <1>5
  <1> QED
    BY <1>3, <1>4, <1>6 DEF p

LEMMA FullPlaces ==
  ASSUME os = "ios", NEW k \in 1 .. 11
  PROVE  LET p == Plan("full")
         IN /\ p[k][1] = "extract" => k = 1
            /\ p[k][1] = "extracting" => k = 2
            /\ p[k][1] = "settings" => k = 3
            /\ p[k][1] = "stage" => k = 4
            /\ p[k][1] = "report" =>
                 \/ k \in 5 .. 6 /\ p[k][2] = Order[k - 4]
                 \/ k \in 8 .. 10 /\ p[k][2] = Order[k - 5]
            /\ p[k][1] = "tidy" => k = 7
            /\ p[k][1] = "index" => k = 11
            /\ p[k][1] \notin {"check", "rows", "resolve", "render"}
  <1> DEFINE p == Plan("full")
  <1>1. /\ Does(p, 1, "extract") /\ Does(p, 2, "extracting") /\ Does(p, 3, "settings")
        /\ Does(p, 4, "stage") /\ DoesEach(p, 4, "report", SubSeq(Order, 1, 2), 2)
        /\ Does(p, 7, "tidy") /\ DoesEach(p, 7, "report", SubSeq(Order, 3, 5), 3)
        /\ Does(p, 11, "index")
    BY FullPlan
  <1> HIDE DEF p
  <1>2. /\ p[1][1] = "extract" /\ p[2][1] = "extracting" /\ p[3][1] = "settings"
        /\ p[4][1] = "stage" /\ p[7][1] = "tidy" /\ p[11][1] = "index"
    BY <1>1 DEF Does
  <1>3. k \in 5 .. 6 => p[k][1] = "report" /\ p[k][2] = Order[k - 4]
    <2> SUFFICES ASSUME k \in 5 .. 6
                 PROVE  p[k][1] = "report" /\ p[k][2] = Order[k - 4]
      OBVIOUS
    <2>1. k - 4 \in 1 .. 2 /\ 4 + (k - 4) = k
      OBVIOUS
    <2>2. p[4 + (k - 4)] = <<"report", SubSeq(Order, 1, 2)[k - 4]>>
      BY <1>1, <2>1 DEF DoesEach
    <2>3. SubSeq(Order, 1, 2)[k - 4] = Order[k - 4]
      BY <2>1, Orders
    <2> QED
      BY <2>1, <2>2, <2>3
  <1>4. k \in 8 .. 10 => p[k][1] = "report" /\ p[k][2] = Order[k - 5]
    <2> SUFFICES ASSUME k \in 8 .. 10
                 PROVE  p[k][1] = "report" /\ p[k][2] = Order[k - 5]
      OBVIOUS
    <2>1. k - 7 \in 1 .. 3 /\ 7 + (k - 7) = k /\ (k - 7) + 2 = k - 5
      OBVIOUS
    <2>2. p[7 + (k - 7)] = <<"report", SubSeq(Order, 3, 5)[k - 7]>>
      BY <1>1, <2>1 DEF DoesEach
    <2>3. SubSeq(Order, 3, 5)[k - 7] = Order[(k - 7) + 2]
      BY <2>1, Orders
    <2> QED
      BY <2>1, <2>2, <2>3
  <1>5. k = 1 \/ k = 2 \/ k = 3 \/ k = 4 \/ k \in 5 .. 6 \/ k = 7 \/ k \in 8 .. 10 \/ k = 11
    OBVIOUS
  <1>6. /\ p[k][1] = "extract" => k = 1
        /\ p[k][1] = "extracting" => k = 2
        /\ p[k][1] = "settings" => k = 3
        /\ p[k][1] = "stage" => k = 4
        /\ p[k][1] = "report" => k \in 5 .. 6 \/ k \in 8 .. 10
        /\ p[k][1] = "tidy" => k = 7
        /\ p[k][1] = "index" => k = 11
        /\ p[k][1] \notin {"check", "rows", "resolve", "render"}
    BY <1>2, <1>3, <1>4, <1>5
  <1> QED
    BY <1>3, <1>4, <1>6 DEF p

LEMMA AndroidPlaces ==
  ASSUME os = "android", NEW k \in 1 .. 9
  PROVE  LET p == Plan("full")
         IN /\ p[k][1] = "extract" => k = 1
            /\ p[k][1] = "extracting" => k = 2
            /\ p[k][1] = "stage" => k = 3
            /\ p[k][1] = "report" => k \in 4 .. 7 /\ p[k][2] = AndroidOrder[k - 3]
            /\ p[k][1] = "tidy" => k = 8
            /\ p[k][1] = "index" => k = 9
            /\ p[k][1] \notin {"settings", "check", "rows", "resolve", "render"}
  <1> DEFINE p == Plan("full")
  <1>1. /\ Does(p, 1, "extract") /\ Does(p, 2, "extracting") /\ Does(p, 3, "stage")
        /\ DoesEach(p, 3, "report", AndroidOrder, 4)
        /\ Does(p, 8, "tidy") /\ Does(p, 9, "index")
    BY AndroidPlan
  <1> HIDE DEF p
  <1>2. /\ p[1][1] = "extract" /\ p[2][1] = "extracting" /\ p[3][1] = "stage"
        /\ p[8][1] = "tidy" /\ p[9][1] = "index"
    BY <1>1 DEF Does
  <1>3. k \in 4 .. 7 => p[k][1] = "report" /\ p[k][2] = AndroidOrder[k - 3]
    <2> SUFFICES ASSUME k \in 4 .. 7
                 PROVE  p[k][1] = "report" /\ p[k][2] = AndroidOrder[k - 3]
      OBVIOUS
    <2>1. k - 3 \in 1 .. 4 /\ 3 + (k - 3) = k
      OBVIOUS
    <2>2. p[3 + (k - 3)] = <<"report", AndroidOrder[k - 3]>>
      BY <1>1, <2>1 DEF DoesEach
    <2> QED
      BY <2>1, <2>2
  <1>4. k = 1 \/ k = 2 \/ k = 3 \/ k \in 4 .. 7 \/ k = 8 \/ k = 9
    OBVIOUS
  <1>5. /\ p[k][1] = "extract" => k = 1
        /\ p[k][1] = "extracting" => k = 2
        /\ p[k][1] = "stage" => k = 3
        /\ p[k][1] = "report" => k \in 4 .. 7
        /\ p[k][1] = "tidy" => k = 8
        /\ p[k][1] = "index" => k = 9
        /\ p[k][1] \notin {"settings", "check", "rows", "resolve", "render"}
    BY <1>2, <1>3, <1>4
  <1> QED
    BY <1>3, <1>5 DEF p

LEMMA RefreshPlaces ==
  ASSUME NEW k \in 1 .. 4
  PROVE  LET p == Plan("targeted")
         IN /\ p[k][1] = "report" => k \in 1 .. 3 /\ p[k][2] = RefreshOrder[k]
            /\ p[k][1] = "index" => k = 4
            /\ p[k][1] \in {"report", "index"}
  <1> DEFINE p == Plan("targeted")
  <1>1. DoesEach(p, 0, "report", RefreshOrder, 3) /\ Does(p, 4, "index")
    BY RefreshPlan
  <1> HIDE DEF p
  <1>2. k \in 1 .. 3 => p[k] = <<"report", RefreshOrder[k]>>
    BY <1>1 DEF DoesEach
  <1>3. p[4] = <<"index", "-">>
    BY <1>1 DEF Does
  <1>4. k \in 1 .. 3 \/ k = 4
    OBVIOUS
  <1> QED
    BY <1>2, <1>3, <1>4 DEF p
-----------------------------------------------------------------------------
(* The inductive invariant. *)

(* Where a run of each mode can be. *)
Places ==
  /\ Isolated => run.at \in 1 .. 17 /\ os = "ios"
  /\ run.mode = "full" => run.at \in 1 .. (IF os = "ios" THEN 11 ELSE 9)
  /\ run.mode = "targeted" => run.at \in 1 .. 4 /\ os = "ios"

(* Android: full runs only, and none of them past an extraction of this build's that
   is not whole. *)
AndroidRuns ==
  os = "android" =>
    /\ settings = NoSettings /\ run.mode \in {"idle", "full"}
    /\ reports["Reports"]["CacheMedia"].pages = 0
    /\ ~flat =>
         /\ exmanifest => evidence = "whole"
         /\ run.mode = "full" /\ run.at > 2 => evidence = "whole"
         /\ \A r \in Reported : reports["Reports"][r].whole

(* What an extract being made holds, row by row: published before its render
   unless it failed, the staging folder up to the tidying unless it is wanted. *)
Extracting ==
  /\ index["extract"] = NoIndex
  /\ \A i \in 1 .. 5 :
       Order[i] \in unpruned["extract"] =>
         run.at > i + 4 /\ (run.at <= i + 10 \/ Order[i] \in run.failed)
  /\ "staging" \in unpruned["extract"] => run.at <= 16 \/ run.legacy

Extracts == IF Isolated THEN Extracting ELSE ExtractClean

Made == IF os = "ios" THEN Report ELSE Report \ {"CacheMedia"}

(* The reports of a full run so far, those of a refresh so far, and all of them. *)
FullAt ==
  IF os = "ios"
  THEN [Conversations |-> 5, Contacts |-> 6, Memories |-> 8, CacheMedia |-> 9,
        CacheController |-> 10]
  ELSE [Conversations |-> 4, Contacts |-> 5, Memories |-> 6, CacheMedia |-> 0,
        CacheController |-> 7]

Full ==
  /\ \A r \in Made : run.at > FullAt[r] =>
       /\ reports["Reports"][r].pages = runs /\ reports["Reports"][r].manifest = runs
       /\ reports["Reports"][r].build = run.build
       /\ \A d \in Deps(r) \cap Made : reports["Reports"][r].saw[d] = runs
  /\ os = "ios" /\ run.at > 3 => settings.build = run.build

RefreshAt == [Conversations |-> 0, Contacts |-> 0, Memories |-> 1, CacheMedia |-> 2,
              CacheController |-> 3]

Refreshed ==
  /\ run.build = settings.build
  /\ \A r \in Report :
       /\ reports["Reports"][r].pages = reports["Reports"][r].manifest
       /\ reports["Reports"][r].build = settings.build
       /\ run.at > RefreshAt[r] =>
            \A d \in Deps(r) : reports["Reports"][r].saw[d] = reports["Reports"][d].pages

Whole ==
  \A r \in Made :
    /\ reports["Reports"][r].pages = reports["Reports"][r].manifest
    /\ reports["Reports"][r].build = reports["Reports"]["Conversations"].build
    /\ os = "ios" => reports["Reports"][r].build = settings.build
    /\ \A d \in Deps(r) \cap Made :
         reports["Reports"][r].saw[d] = reports["Reports"][d].pages

NothingMade == settings = NoSettings /\ \A r \in Report : reports["Reports"][r].pages = 0

Links ==
  /\ run.mode = "full" /\ run.failed = {} => Full
  /\ run.mode = "targeted" /\ sound["Reports"] /\ run.failed = {} => Refreshed
  /\ run.mode \in {"idle", "partial", "dry"} /\ sound["Reports"] => NothingMade \/ Whole

(* What being at a step tells of the run. *)
LEMMA Doing ==
  ASSUME Types, Places
  PROVE  /\ At("extract") => run.mode \in {"full", "partial", "dry"} /\ run.at = 1
         /\ At("extracting") => run.mode \in {"full", "partial", "dry"} /\ run.at = 2
         /\ At("settings") => run.mode = "full" /\ os = "ios" /\ run.at = 3
         /\ At("check") => Isolated /\ run.at = 3
         /\ At("stage") =>
              \/ Isolated /\ run.at = 4
              \/ run.mode = "full" /\ run.at = (IF os = "ios" THEN 4 ELSE 3)
         /\ At("report") =>
              \/ /\ run.mode = "full" /\ os = "ios"
                 /\ \/ run.at \in 5 .. 6 /\ Subject = Order[run.at - 4]
                    \/ run.at \in 8 .. 10 /\ Subject = Order[run.at - 5]
              \/ /\ run.mode = "full" /\ os = "android"
                 /\ run.at \in 4 .. 7 /\ Subject = AndroidOrder[run.at - 3]
              \/ run.mode = "targeted" /\ run.at \in 1 .. 3 /\ Subject = RefreshOrder[run.at]
         /\ At("rows") => Isolated /\ run.at \in 5 .. 9 /\ Subject = Order[run.at - 4]
         /\ At("resolve") => Isolated /\ run.at = 10
         /\ At("render") => Isolated /\ run.at \in 11 .. 15 /\ Subject = Order[run.at - 10]
         /\ At("tidy") =>
              \/ Isolated /\ run.at = 16
              \/ run.mode = "full" /\ run.at = (IF os = "ios" THEN 7 ELSE 8)
         /\ At("index") =>
              \/ Isolated /\ run.at = 17
              \/ run.mode = "full" /\ run.at = (IF os = "ios" THEN 11 ELSE 9)
              \/ run.mode = "targeted" /\ run.at = 4
  <1>1. PICK m, k : m = run.mode /\ k = run.at
    OBVIOUS
  <1>2. m \in {"idle", "full", "partial", "dry", "targeted"} /\ os \in {"ios", "android"}
    BY <1>1 DEF Types
  <1>3. /\ m \in {"partial", "dry"} => k \in 1 .. 17
        /\ m = "full" /\ os = "ios" => k \in 1 .. 11
        /\ m = "full" /\ os = "android" => k \in 1 .. 9
        /\ m = "targeted" => k \in 1 .. 4
    BY <1>1 DEF Places, Isolated
  <1>4. /\ \A s : At(s) <=> m # "idle" /\ Plan(m)[k][1] = s
        /\ Subject = Plan(m)[k][2]
    BY <1>1 DEF At, Subject
  <1>5. CASE m = "idle"
    BY <1>4, <1>5
  <1>6. CASE m \in {"partial", "dry"}
    <2>1. Isolated
      BY <1>1, <1>6 DEF Isolated
    <2> QED
      BY <1>1, <1>3, <1>4, <1>6, <2>1, PartialPlaces
  <1>7. CASE m = "full" /\ os = "ios"
    BY <1>1, <1>3, <1>4, <1>7, FullPlaces
  <1>8. CASE m = "full" /\ os = "android"
    BY <1>1, <1>3, <1>4, <1>8, AndroidPlaces
  <1>9. CASE m = "targeted"
    BY <1>1, <1>3, <1>4, <1>9, RefreshPlaces
  <1> QED
    BY <1>2, <1>5, <1>6, <1>7, <1>8, <1>9

(* What is written is of its types. *)
Written0 == [pages : Nat, manifest : Nat, build : {0} \cup Builds, whole : BOOLEAN,
             saw : [Report -> Nat]]
Modes == {"idle", "full", "partial", "dry", "targeted"}
Run == [mode : Modes, build : {0} \cup Builds, legacy : BOOLEAN, at : Nat \ {0},
        failed : SUBSET Report]

LEMMA Moves ==
  ASSUME Types, NEW n \in Nat, On(n)
  PROVE  /\ run' \in Run
         /\ run'.mode = run.mode /\ run'.build = run.build /\ (run'.legacy <=> run.legacy)
         /\ run'.at = run.at + n /\ run'.failed = run.failed
  <1>1. run \in Run
    BY DEF Types, Run, Modes
  <1>2. run' = [run EXCEPT !.at = run.at + n]
    BY DEF On
  <1>3. run.at + n \in Nat \ {0}
    BY <1>1 DEF Run
  <1> QED
    BY <1>1, <1>2, <1>3 DEF Run

Missed(r) == run' = [run EXCEPT !.at = @ + 1, !.failed = @ \cup {r}]

LEMMA Misses ==
  ASSUME Types, NEW r \in Report, Missed(r)
  PROVE  /\ run' \in Run
         /\ run'.mode = run.mode /\ run'.build = run.build /\ (run'.legacy <=> run.legacy)
         /\ run'.at = run.at + 1 /\ run'.failed = run.failed \cup {r}
  <1>1. run \in Run
    BY DEF Types, Run, Modes
  <1>2. run' = [run EXCEPT !.at = run.at + 1, !.failed = run.failed \cup {r}]
    BY DEF Missed
  <1>3. run.at + 1 \in Nat \ {0} /\ run.failed \cup {r} \in SUBSET Report
    BY <1>1 DEF Run
  <1> QED
    BY <1>1, <1>2, <1>3 DEF Run

LEMMA Stops ==
  ASSUME run' = Idle
  PROVE  /\ run' \in Run /\ run'.mode = "idle" /\ run'.at = 1 /\ run'.failed = {}
  BY DEF Idle, Run, Modes

LEMMA WrittenIs ==
  ASSUME Types, run.mode # "idle", NEW r \in Report
  PROVE  /\ Written(r) \in Written0
         /\ Written(r).pages = runs /\ Written(r).manifest = runs
         /\ Written(r).build = run.build
         /\ Written(r).whole <=> evidence = "whole"
         /\ \A d \in Deps(r) \cap Report : Written(r).saw[d] = Seen(r, d)
  <1>1. \A d \in Report : Seen(r, d) \in Nat
    BY DEF Seen, Types, Folders
  <1>2. \A d \in Report : (IF d \in Deps(r) THEN Seen(r, d) ELSE 0) \in Nat
    BY <1>1
  <1>3. PICK s : s = [d \in Report |-> IF d \in Deps(r) THEN Seen(r, d) ELSE 0]
    OBVIOUS
  <1>4. s \in [Report -> Nat] /\ \A d \in Deps(r) \cap Report : s[d] = Seen(r, d)
    BY <1>2, <1>3
  <1>5. PICK w : w = (evidence = "whole")
    OBVIOUS
  <1>6. w \in BOOLEAN /\ (w <=> evidence = "whole")
    BY <1>5
  <1>7. Written(r) = [pages |-> runs, manifest |-> runs, build |-> run.build,
                      whole |-> w, saw |-> s]
    BY <1>3, <1>5 DEF Written
  <1>8. runs \in Nat /\ run.build \in {0} \cup Builds
    BY DEF Types
  <1> QED
    BY <1>4, <1>6, <1>7, <1>8 DEF Written0

LEMMA Writes ==
  ASSUME Types, NEW r \in Report, NEW w \in Written0,
         reports' = [reports EXCEPT ![Folder][r] = w]
  PROVE  /\ reports' \in [Folders -> [Report -> Written0]]
         /\ Isolated => reports'["Reports"] = reports["Reports"]
         /\ ~Isolated => /\ reports'["Reports"][r] = w
                         /\ \A q \in Report : q # r =>
                              reports'["Reports"][q] = reports["Reports"][q]
  <1>1. reports \in [Folders -> [Report -> Written0]]
    BY DEF Types, Written0
  <1>2. "Reports" \in Folders /\ "extract" \in Folders
    BY DEF Folders
  <1>3. CASE Isolated
    <2>1. reports' = [reports EXCEPT !["extract"] = [reports["extract"] EXCEPT ![r] = w]]
      BY <1>3 DEF Folder
    <2>2. [reports["extract"] EXCEPT ![r] = w] \in [Report -> Written0]
      BY <1>1, <1>2
    <2> QED
      BY <1>1, <1>2, <1>3, <2>1, <2>2
  <1>4. CASE ~Isolated
    <2>1. reports' = [reports EXCEPT !["Reports"] = [reports["Reports"] EXCEPT ![r] = w]]
      BY <1>4 DEF Folder
    <2>2. [reports["Reports"] EXCEPT ![r] = w] \in [Report -> Written0]
      BY <1>1, <1>2
    <2>3. reports'["Reports"] = [reports["Reports"] EXCEPT ![r] = w]
      BY <1>1, <1>2, <2>1
    <2>4. reports' \in [Folders -> [Report -> Written0]]
      BY <1>1, <1>2, <2>1, <2>2
    <2>5. reports["Reports"] \in [Report -> Written0]
      BY <1>1, <1>2
    <2> QED
      BY <1>4, <2>3, <2>4, <2>5
  <1> QED
    BY <1>3, <1>4

(* A report a run writes, or fails to write. *)
LEMMA Subjects ==
  ASSUME Types, Places, At("report") \/ At("rows") \/ At("render")
  PROVE  Subject \in Report
  <1>1. \A i \in 1 .. 5 : Order[i] \in Report
    BY Orders DEF Report
  <1>2. \A i \in 1 .. 4 : AndroidOrder[i] \in Report
    BY Reports DEF AndroidOrder
  <1>3. \A i \in 1 .. 3 : RefreshOrder[i] \in Report
    BY Reports DEF RefreshOrder
  <1>4. PICK k : k = run.at
    OBVIOUS
  <1>5. \/ k \in 5 .. 6 /\ Subject = Order[k - 4]
        \/ k \in 8 .. 10 /\ Subject = Order[k - 5]
        \/ k \in 4 .. 7 /\ Subject = AndroidOrder[k - 3]
        \/ k \in 1 .. 3 /\ Subject = RefreshOrder[k]
        \/ k \in 5 .. 9 /\ Subject = Order[k - 4]
        \/ k \in 11 .. 15 /\ Subject = Order[k - 10]
    BY <1>4, Doing
  <1> QED
    BY <1>1, <1>2, <1>3, <1>5

LEMMA FailsIs ==
  ASSUME Types, run.mode # "idle", NEW r \in Report, Fails(r)
  PROVE  /\ reports' \in [Folders -> [Report -> Written0]]
         /\ Isolated => reports'["Reports"] = reports["Reports"]
         /\ \A q \in Report : q # r => reports'["Reports"][q] = reports["Reports"][q]
         /\ reports'["Reports"][r].pages \in {reports["Reports"][r].pages, runs}
         /\ \/ reports'["Reports"][r] = reports["Reports"][r]
            \/ reports'["Reports"][r].whole <=> evidence = "whole"
  <1>1. reports \in [Folders -> [Report -> Written0]] /\ Folder \in Folders
    BY DEF Types, Written0, Folders, Folder
  <1>2. PICK old, new : old = reports[Folder][r] /\ new = Written(r)
    OBVIOUS
  <1>3. /\ old \in Written0 /\ new \in Written0 /\ new.pages = runs
        /\ new.whole <=> evidence = "whole"
    BY <1>1, <1>2, WrittenIs
  <1>4. PICK half : half = [new EXCEPT !.manifest = old.manifest]
    OBVIOUS
  <1>5. half \in Written0 /\ half.pages = runs /\ (half.whole <=> evidence = "whole")
    BY <1>3, <1>4 DEF Written0
  <1>6. PICK left \in {old, half, new} : reports' = [reports EXCEPT ![Folder][r] = left]
    BY <1>2, <1>4 DEF Fails
  <1>7. left \in Written0
    BY <1>3, <1>5, <1>6
  <1>8. /\ reports' \in [Folders -> [Report -> Written0]]
        /\ Isolated => reports'["Reports"] = reports["Reports"]
        /\ ~Isolated => /\ reports'["Reports"][r] = left
                        /\ \A q \in Report : q # r =>
                             reports'["Reports"][q] = reports["Reports"][q]
    BY <1>6, <1>7, Writes
  <1>9. ~Isolated => old = reports["Reports"][r]
    BY <1>2 DEF Folder
  <1> QED
    BY <1>3, <1>5, <1>6, <1>8, <1>9
-----------------------------------------------------------------------------
(* The types of the state. *)

LEMMA TypesKept ==
  ASSUME Types, Places, [Next]_vars
  PROVE  Types'
  <1> USE RunFolderAssumption
  <1>0. /\ reports \in [Folders -> [Report -> Written0]] /\ run \in Run
        /\ unpruned \in [Folders -> SUBSET (Report \cup {"staging"})]
        /\ index \in [Folders -> [run : Nat, legacy : BOOLEAN]]
        /\ sound \in [Folders -> BOOLEAN] /\ runs \in Nat /\ faults \in Nat
        /\ settings \in [build : {0} \cup Builds, legacy : BOOLEAN]
        /\ Folder \in Folders
    BY DEF Types, Written0, Run, Modes, Folder, Folders
  <1>1. ASSUME NEW mode \in Modes, NEW b \in Builds \cup {0}, NEW legacy \in BOOLEAN,
               Start(mode, b, legacy)
        PROVE  Types'
    <2>1. run' \in Run
      <3>1. run' = [Idle EXCEPT !.mode = mode, !.build = b, !.legacy = legacy]
        BY <1>1 DEF Start
      <3>2. run' = [mode |-> mode, build |-> b, legacy |-> legacy, at |-> 1, failed |-> {}]
        BY <3>1 DEF Idle
      <3> QED
        BY <3>2 DEF Run
    <2>2. /\ reports' \in [Folders -> [Report -> Written0]]
          /\ unpruned' \in [Folders -> SUBSET (Report \cup {"staging"})]
          /\ index' \in [Folders -> [run : Nat, legacy : BOOLEAN]]
      <3>1. CASE mode \in {"partial", "dry"}
        <4>1. Absent \in Written0
          BY DEF Absent, Written0
        <4>2. [r \in Report |-> Absent] \in [Report -> Written0]
          BY <4>1
        <4>3. NoIndex \in [run : Nat, legacy : BOOLEAN]
          BY DEF NoIndex
        <4>4. /\ reports' = [reports EXCEPT !["extract"] = [r \in Report |-> Absent]]
              /\ unpruned' = [unpruned EXCEPT !["extract"] = {}]
              /\ index' = [index EXCEPT !["extract"] = NoIndex]
          BY <1>1, <3>1 DEF Start
        <4> QED
          BY <1>0, <4>2, <4>3, <4>4
      <3>2. CASE mode \notin {"partial", "dry"}
        BY <1>0, <1>1, <3>2 DEF Start
      <3> QED
        BY <3>1, <3>2
    <2> QED
      BY <1>1, <2>1, <2>2 DEF Start, Types, Run, Modes, Written0
  <1>2. CASE Reuse
    <2>1. run' \in Run
      BY <1>2, Moves DEF Reuse
    <2> QED
      BY <1>2, <2>1 DEF Reuse, disk, Types, Run, Modes
  <1>3. CASE ExtractBegins
    <2>1. run' \in Run
      BY <1>3, Moves DEF ExtractBegins
    <2> QED
      BY <1>3, <2>1 DEF ExtractBegins, Types, Run, Modes
  <1>4. CASE ExtractEnds
    <2>1. run' \in Run
      BY <1>4, Moves DEF ExtractEnds
    <2>2. exmanifest' \in BOOLEAN
      <3>1. exmanifest' = TRUE \/ exmanifest' = exmanifest
        BY <1>4 DEF ExtractEnds
      <3> QED
        BY <3>1 DEF Types
    <2>3. faults' \in Nat
      BY <1>0, <1>4 DEF ExtractEnds
    <2> QED
      BY <1>4, <2>1, <2>2, <2>3 DEF ExtractEnds, Types, Run, Modes
  <1>5. CASE WriteSettings
    <2>1. run' \in Run
      BY <1>5, Moves DEF WriteSettings
    <2>2. settings' \in [build : {0} \cup Builds, legacy : BOOLEAN]
      BY <1>0, <1>5 DEF WriteSettings, Run
    <2> QED
      BY <1>5, <2>1, <2>2 DEF WriteSettings, Types, Run, Modes
  <1>6. CASE Check
    <2>1. run' \in Run
      BY <1>6, Moves DEF Check
    <2> QED
      BY <1>6, <2>1 DEF Check, disk, Types, Run, Modes
  <1>7. CASE Stage
    <2>1. run' \in Run
      BY <1>7, Moves DEF Stage
    <2>2. unpruned' \in [Folders -> SUBSET (Report \cup {"staging"})]
      BY <1>0, <1>7 DEF Stage
    <2> QED
      BY <1>7, <2>1, <2>2 DEF Stage, Types, Run, Modes
  <1>8. CASE ReportDone
    <2>1. Subject \in Report
      BY <1>8, Subjects DEF ReportDone
    <2>2. run' \in Run
      BY <1>8, Moves DEF ReportDone
    <2>3. reports' \in [Folders -> [Report -> Written0]]
      BY <1>8, <2>1, WrittenIs, Writes DEF ReportDone, Render, At
    <2> QED
      BY <1>8, <2>2, <2>3 DEF ReportDone, Render, Types, Run, Modes, Written0
  <1>9. ASSUME NEW r \in Report, run.mode # "idle", Fails(r)
        PROVE  Types'
    <2>1. run' \in Run
      <3>1. Missed(r)
        BY <1>9 DEF Fails, Missed
      <3> QED
        BY <3>1, Misses
    <2>2. reports' \in [Folders -> [Report -> Written0]]
      BY <1>9, FailsIs
    <2> QED
      BY <1>9, <2>1, <2>2 DEF Fails, Types, Run, Modes, Written0
  <1>10. CASE ReportFails
    <2>1. Subject \in Report /\ run.mode # "idle"
      BY <1>10, Subjects DEF ReportFails, At
    <2> QED
      BY <1>9, <1>10, <2>1 DEF ReportFails
  <1>11. ASSUME NEW done \in BOOLEAN, Rows(done)
         PROVE  Types'
    <2>1. Subject \in Report
      BY <1>11, Subjects DEF Rows
    <2>2. run' \in Run
      <3>1. CASE done
        <4>1. run' = [run EXCEPT !.at = run.at + 1, !.failed = run.failed]
          BY <1>11, <3>1 DEF Rows
        <4>2. run.at + 1 \in Nat \ {0} /\ run.failed \in SUBSET Report
          BY <1>0 DEF Run
        <4> QED
          BY <1>0, <4>1, <4>2 DEF Run
      <3>2. CASE ~done
        <4>1. Missed(Subject)
          BY <1>11, <3>2 DEF Rows, Missed
        <4> QED
          BY <2>1, <4>1, Misses
      <3> QED
        BY <3>1, <3>2
    <2>3. unpruned' \in [Folders -> SUBSET (Report \cup {"staging"})]
      <3>1. PICK published \in SUBSET Report :
              unpruned' = [unpruned EXCEPT ![Folder] = @ \cup published]
        BY <1>11, <2>1 DEF Rows
      <3> QED
        BY <1>0, <3>1
    <2>4. faults' \in Nat
      BY <1>0, <1>11 DEF Rows
    <2> QED
      BY <1>11, <2>2, <2>3, <2>4 DEF Rows, Types, Run, Modes
  <1>12. CASE Resolve
    <2>1. run' \in Run
      <3>1. CASE run.mode = "dry"
        BY <1>12, <3>1, Stops DEF Resolve
      <3>2. CASE run.mode # "dry"
        BY <1>0, <1>12, <3>2, Moves DEF Resolve, On
      <3> QED
        BY <3>1, <3>2
    <2> QED
      BY <1>12, <2>1 DEF Resolve, disk, Types, Run, Modes
  <1>13. CASE RenderDone
    <2>1. Subject \in Report
      BY <1>13, Subjects DEF RenderDone
    <2>2. run' \in Run
      BY <1>13, Moves DEF RenderDone
    <2>3. CASE Subject \in run.failed
      BY <1>13, <2>2, <2>3 DEF RenderDone, disk, Types, Run, Modes
    <2>4. CASE Subject \notin run.failed
      <3>1. reports' \in [Folders -> [Report -> Written0]]
        BY <1>13, <2>1, <2>4, WrittenIs, Writes DEF RenderDone, Render, At
      <3>2. unpruned' \in [Folders -> SUBSET (Report \cup {"staging"})]
        <4>1. unpruned' = [unpruned EXCEPT ![Folder] = @ \ Pruned(Subject)]
          BY <1>13, <2>4 DEF RenderDone
        <4> QED
          BY <1>0, <4>1
      <3> QED
        BY <1>13, <2>2, <2>4, <3>1, <3>2 DEF RenderDone, Render, Types, Run, Modes, Written0
    <2> QED
      BY <2>3, <2>4
  <1>14. CASE RenderFails
    <2>1. Subject \in Report /\ run.mode # "idle"
      BY <1>14, Subjects DEF RenderFails, At
    <2> QED
      BY <1>9, <1>14, <2>1 DEF RenderFails
  <1>15. CASE Tidy
    <2>1. run' \in Run
      BY <1>15, Moves DEF Tidy
    <2>2. unpruned' \in [Folders -> SUBSET (Report \cup {"staging"})]
      BY <1>0, <1>15 DEF Tidy
    <2> QED
      BY <1>15, <2>1, <2>2 DEF Tidy, Types, Run, Modes
  <1>16. CASE Index
    <2>1. run' \in Run
      BY <1>16, Stops DEF Index
    <2>2. index' \in [Folders -> [run : Nat, legacy : BOOLEAN]]
      BY <1>0, <1>16 DEF Index, Run
    <2>3. sound' \in [Folders -> BOOLEAN]
      BY <1>0, <1>16 DEF Index
    <2> QED
      BY <1>16, <2>1, <2>2, <2>3 DEF Index, Types, Run, Modes
  <1>17. CASE Ends
    <2>1. run' \in Run
      BY <1>17, Stops DEF Ends
    <2>2. sound' \in [Folders -> BOOLEAN]
      BY <1>0, <1>17 DEF Ends
    <2> QED
      BY <1>17, <2>1, <2>2 DEF Ends, disk, Types, Run, Modes
  <1>18. CASE UNCHANGED vars
    BY <1>18 DEF vars, disk, Types
  <1>19. ASSUME NEW b \in Builds, NEW legacy \in BOOLEAN,
                NEW mode \in {"full", "partial", "dry"}, StartRun(mode, b, legacy)
         PROVE  Types'
    BY <1>1, <1>19 DEF StartRun, Modes
  <1>20. ASSUME NEW b \in Builds, NEW wanted \in {"full", "targeted"}, StartRefresh(b, wanted)
         PROVE  Types'
    <2>1. RefreshMode(b, wanted) \in Modes
      BY DEF RefreshMode, Modes
    <2>2. settings.legacy \in BOOLEAN
      BY <1>0
    <2> QED
      BY <1>1, <1>20, <2>1, <2>2 DEF StartRefresh
  <1> QED
    BY <1>2, <1>3, <1>4, <1>5, <1>6, <1>7, <1>8, <1>10, <1>11, <1>12, <1>13, <1>14, <1>15,
       <1>16, <1>17, <1>18, <1>19, <1>20 DEF Next, Step, Finished
-----------------------------------------------------------------------------
(* Where a run can be. *)

(* How a run begins, whoever asks for it. *)
Begins(mode, b, legacy) ==
  /\ run.mode = "idle" /\ Start(mode, b, legacy)
  /\ mode \in {"partial", "dry"} => os = "ios"
  /\ mode = "targeted" => settings # NoSettings /\ settings.build = b

LEMMA Beginnings ==
  ASSUME Types,
         \/ \E b \in Builds, legacy \in BOOLEAN, mode \in {"full", "partial", "dry"} :
              StartRun(mode, b, legacy)
         \/ \E b \in Builds, wanted \in {"full", "targeted"} : StartRefresh(b, wanted)
  PROVE  \E mode \in Modes \ {"idle"}, b \in Builds, legacy \in BOOLEAN : Begins(mode, b, legacy)
  <1>1. ASSUME NEW b \in Builds, NEW legacy \in BOOLEAN,
               NEW mode \in {"full", "partial", "dry"}, StartRun(mode, b, legacy)
        PROVE  mode \in Modes \ {"idle"} /\ Begins(mode, b, legacy)
    BY <1>1 DEF StartRun, Start, Begins, Modes
  <1>2. ASSUME NEW b \in Builds, NEW wanted \in {"full", "targeted"}, StartRefresh(b, wanted)
        PROVE  \E mode \in Modes \ {"idle"}, legacy \in BOOLEAN : Begins(mode, b, legacy)
    <2>1. settings.legacy \in BOOLEAN
      BY DEF Types
    <2>2. PICK mode, legacy : mode = RefreshMode(b, wanted) /\ legacy = settings.legacy
      OBVIOUS
    <2>3. /\ mode \in {"full", "targeted"}
          /\ mode = "targeted" => settings # NoSettings /\ settings.build = b
      BY <2>2 DEF RefreshMode
    <2>4. Start(mode, b, legacy)
      BY <1>2, <2>2 DEF StartRefresh
    <2>5. run.mode = "idle"
      BY <2>4 DEF Start
    <2>6. Begins(mode, b, legacy)
      BY <2>3, <2>4, <2>5 DEF Begins
    <2> QED
      BY <2>1, <2>2, <2>3, <2>6 DEF Modes
  <1> QED
    BY <1>1, <1>2

LEMMA Starts ==
  ASSUME NEW mode, NEW b, NEW legacy, Start(mode, b, legacy)
  PROVE  /\ run'.mode = mode /\ run'.build = b /\ run'.at = 1 /\ run'.failed = {}
         /\ os' = os /\ flat' = flat /\ evidence' = evidence /\ exmanifest' = exmanifest
         /\ settings' = settings /\ sound' = sound /\ runs' = runs + 1
  <1>1. run' = [mode |-> mode, build |-> b, legacy |-> legacy, at |-> 1, failed |-> {}]
    BY DEF Start, Idle
  <1>2. /\ os' = os /\ flat' = flat /\ evidence' = evidence /\ exmanifest' = exmanifest
        /\ settings' = settings /\ sound' = sound /\ runs' = runs + 1
    BY DEF Start
  <1> QED
    BY <1>1, <1>2

LEMMA PlacesKept ==
  ASSUME Types, Places, AndroidRuns, [Next]_vars
  PROVE  Places'
  <1>0. PICK o, m, k : o = os /\ m = run.mode /\ k = run.at
    OBVIOUS
  <1> DEFINE In(mm, kk) ==
               /\ mm \in {"partial", "dry"} => kk \in 1 .. 17 /\ o = "ios"
               /\ mm = "full" => kk \in 1 .. (IF o = "ios" THEN 11 ELSE 9)
               /\ mm = "targeted" => kk \in 1 .. 4 /\ o = "ios"
  <1>1. In(m, k) /\ o \in {"ios", "android"} /\ m \in Modes
    BY <1>0 DEF Places, Isolated, Types, Modes
  <1>2. ASSUME os' = os, NEW mm, NEW kk, run'.mode = mm, run'.at = kk, In(mm, kk)
        PROVE  Places'
    BY <1>0, <1>2 DEF Places, Isolated
  <1> HIDE DEF In
  <1>3. ASSUME NEW n \in {1, 2}, run'.mode = m, run'.at = k + n, os' = os,
               \/ m = "full" /\ k + n \in 1 .. (IF o = "ios" THEN 11 ELSE 9)
               \/ m \in {"partial", "dry"} /\ k + n \in 1 .. 17
               \/ m = "targeted" /\ k + n \in 1 .. 4
        PROVE  Places'
    <2>1. In(m, k + n)
      BY <1>1, <1>3 DEF In
    <2> QED
      BY <1>2, <1>3, <2>1
  <1>4. ASSUME NEW n \in {1, 2}, On(n), os' = os,
               \/ m = "full" /\ k + n \in 1 .. (IF o = "ios" THEN 11 ELSE 9)
               \/ m \in {"partial", "dry"} /\ k + n \in 1 .. 17
               \/ m = "targeted" /\ k + n \in 1 .. 4
        PROVE  Places'
    <2>1. run'.mode = run.mode /\ run'.at = run.at + n
      <3>1. run' = [run EXCEPT !.at = run.at + n]
        BY <1>4 DEF On
      <3>2. run \in Run
        BY DEF Types, Run, Modes
      <3> QED
        BY <3>1, <3>2 DEF Run
    <2> QED
      BY <1>0, <1>3, <1>4, <2>1
  <1>5. ASSUME run' = Idle, os' = os
        PROVE  Places'
    <2>1. run'.mode = "idle" /\ run'.at = 1 /\ In("idle", 1)
      BY <1>5, Stops DEF In
    <2> QED
      BY <1>2, <1>5, <2>1
  <1>6. CASE Reuse
    BY <1>0, <1>1, <1>4, <1>6, Doing DEF Reuse, disk
  <1>7. CASE ExtractBegins
    BY <1>0, <1>1, <1>4, <1>7, Doing DEF ExtractBegins
  <1>8. CASE ExtractEnds
    BY <1>0, <1>1, <1>4, <1>8, Doing DEF ExtractEnds
  <1>9. CASE WriteSettings
    BY <1>0, <1>1, <1>4, <1>9, Doing DEF WriteSettings
  <1>10. CASE Check
    BY <1>0, <1>1, <1>4, <1>10, Doing DEF Check, disk, Isolated
  <1>11. CASE Stage
    BY <1>0, <1>1, <1>4, <1>11, Doing DEF Stage, Isolated
  <1>12. /\ At("report") => \/ m = "full" /\ k + 1 \in 1 .. (IF o = "ios" THEN 11 ELSE 9)
                            \/ m = "targeted" /\ k + 1 \in 1 .. 4
         /\ At("rows") \/ At("resolve") \/ At("render") =>
              m \in {"partial", "dry"} /\ k + 1 \in 1 .. 17
         /\ At("tidy") => \/ m = "full" /\ k + 1 \in 1 .. (IF o = "ios" THEN 11 ELSE 9)
                          \/ m \in {"partial", "dry"} /\ k + 1 \in 1 .. 17
    BY <1>0, <1>1, Doing DEF Isolated
  <1>13. CASE ReportDone
    BY <1>4, <1>12, <1>13 DEF ReportDone, Render
  <1>14. ASSUME NEW r \in Report, Fails(r), At("report") \/ At("render")
         PROVE  Places'
    <2>1. Missed(r)
      BY <1>14 DEF Fails, Missed
    <2>2. run'.mode = run.mode /\ run'.at = run.at + 1
      BY <2>1, Misses
    <2> QED
      BY <1>0, <1>3, <1>12, <1>14, <2>2 DEF Fails
  <1>15. CASE ReportFails
    BY <1>14, <1>15, Subjects DEF ReportFails
  <1>16. ASSUME NEW done \in BOOLEAN, Rows(done)
         PROVE  Places'
    <2>1. run'.mode = m /\ run'.at = k + 1
      <3>1. CASE done
        <4>1. run' = [run EXCEPT !.at = run.at + 1, !.failed = run.failed]
          BY <1>16, <3>1 DEF Rows
        <4>2. run \in Run
          BY DEF Types, Run, Modes
        <4> QED
          BY <1>0, <4>1, <4>2 DEF Run
      <3>2. CASE ~done
        <4>1. Missed(Subject)
          BY <1>16, <3>2 DEF Rows, Missed
        <4>2. Subject \in Report
          BY <1>16, Subjects DEF Rows
        <4>3. run'.mode = run.mode /\ run'.at = run.at + 1
          BY <4>1, <4>2, Misses
        <4> QED
          BY <1>0, <4>3
      <3> QED
        BY <3>1, <3>2
    <2> QED
      BY <1>3, <1>12, <1>16, <2>1 DEF Rows
  <1>17. CASE Resolve
    <2>1. CASE run.mode = "dry"
      BY <1>5, <1>17, <2>1 DEF Resolve, disk
    <2>2. CASE run.mode # "dry"
      BY <1>4, <1>12, <1>17, <2>2 DEF Resolve, On, disk
    <2> QED
      BY <2>1, <2>2
  <1>18. CASE RenderDone
    <2>1. os' = os /\ On(1) /\ At("render")
      BY <1>18 DEF RenderDone, Render, disk
    <2> QED
      BY <1>4, <1>12, <2>1
  <1>19. CASE RenderFails
    BY <1>14, <1>19, Subjects DEF RenderFails
  <1>20. CASE Tidy
    BY <1>4, <1>12, <1>20 DEF Tidy
  <1>21. CASE Index
    BY <1>5, <1>21 DEF Index
  <1>22. CASE Ends
    BY <1>5, <1>22 DEF Ends, disk
  <1>23. CASE UNCHANGED vars
    BY <1>23 DEF vars, disk, Places, Isolated
  <1>24. ASSUME NEW mode \in Modes \ {"idle"}, NEW b \in Builds, NEW legacy \in BOOLEAN,
                Begins(mode, b, legacy)
         PROVE  Places'
    <2>1. run'.mode = mode /\ run'.at = 1 /\ os' = os
      BY <1>24, Starts DEF Begins
    <2>2. mode \in {"partial", "dry", "targeted"} => o = "ios"
      BY <1>0, <1>1, <1>24 DEF Begins, AndroidRuns
    <2>3. In(mode, 1)
      BY <1>1, <2>2 DEF In
    <2> QED
      BY <1>2, <2>1, <2>3
  <1> QED
    BY <1>6, <1>7, <1>8, <1>9, <1>10, <1>11, <1>13, <1>15, <1>16, <1>17, <1>18, <1>19, <1>20,
       <1>21, <1>22, <1>23, <1>24, Beginnings DEF Next, Step, Finished
-----------------------------------------------------------------------------
(* A partial run writes into its own folder. *)
Apart ==
  Isolated => /\ settings' = settings /\ reports'["Reports"] = reports["Reports"]
              /\ index'["Reports"] = index["Reports"]
              /\ unpruned'["Reports"] = unpruned["Reports"]

LEMMA WritesApart ==
  ASSUME Types, Places, [Next]_vars
  PROVE  Apart
  <1> SUFFICES ASSUME Isolated
               PROVE  /\ settings' = settings /\ reports'["Reports"] = reports["Reports"]
                      /\ index'["Reports"] = index["Reports"]
                      /\ unpruned'["Reports"] = unpruned["Reports"]
    BY DEF Apart
  <1>1. Folder = "extract" /\ run.mode \in {"partial", "dry"}
    BY DEF Folder, Isolated
  <1>2. /\ unpruned \in [Folders -> SUBSET (Report \cup {"staging"})]
        /\ index \in [Folders -> [run : Nat, legacy : BOOLEAN]]
        /\ "extract" \in Folders /\ "Reports" \in Folders
    BY DEF Types, Folders
  <1>3. ASSUME UNCHANGED <<settings, reports, index, unpruned>>
        PROVE  Apart
    BY <1>3 DEF Apart
  <1>4. ~At("settings") /\ ~At("report")
    BY <1>1, Doing
  <1>5. ASSUME NEW r \in Report, reports' = [reports EXCEPT ![Folder][r] = Written(r)]
        PROVE  reports'["Reports"] = reports["Reports"]
    <2>1. Written(r) \in Written0
      BY <1>1, WrittenIs
    <2> QED
      BY <1>5, <2>1, Writes
  <1>6. ASSUME NEW s, unpruned' = [unpruned EXCEPT !["extract"] = s]
        PROVE  unpruned'["Reports"] = unpruned["Reports"]
    BY <1>2, <1>6
  <1>7. CASE Reuse
    BY <1>7 DEF Reuse, disk
  <1>8. CASE ExtractBegins
    BY <1>8 DEF ExtractBegins
  <1>9. CASE ExtractEnds
    BY <1>9 DEF ExtractEnds
  <1>10. CASE Check
    BY <1>10 DEF Check, disk
  <1>11. CASE Stage
    BY <1>1, <1>6, <1>11 DEF Stage
  <1>12. ASSUME NEW done \in BOOLEAN, Rows(done)
         PROVE  /\ UNCHANGED <<settings, reports, index>>
                /\ unpruned'["Reports"] = unpruned["Reports"]
    <2>1. PICK published : unpruned' = [unpruned EXCEPT ![Folder] = @ \cup published]
      BY <1>12 DEF Rows
    <2>2. UNCHANGED <<settings, reports, index>>
      BY <1>12 DEF Rows
    <2> QED
      BY <1>1, <1>6, <2>1, <2>2
  <1>13. CASE Resolve
    BY <1>13 DEF Resolve, disk
  <1>14. CASE RenderDone
    <2>1. Subject \in Report
      BY <1>14, Subjects DEF RenderDone
    <2>2. CASE Subject \in run.failed
      BY <1>14, <2>2 DEF RenderDone, disk
    <2>3. CASE Subject \notin run.failed
      <3>1. UNCHANGED <<settings, index>> /\ reports'["Reports"] = reports["Reports"]
        BY <1>5, <1>14, <2>1, <2>3 DEF RenderDone, Render
      <3>2. unpruned'["Reports"] = unpruned["Reports"]
        BY <1>1, <1>6, <1>14, <2>3 DEF RenderDone
      <3> QED
        BY <3>1, <3>2
    <2> QED
      BY <2>2, <2>3
  <1>15. CASE RenderFails
    <2>1. Subject \in Report /\ Fails(Subject)
      BY <1>15, Subjects DEF RenderFails
    <2>2. reports'["Reports"] = reports["Reports"]
      BY <1>1, <2>1, FailsIs
    <2> QED
      BY <2>1, <2>2 DEF Fails
  <1>16. CASE Tidy
    BY <1>1, <1>6, <1>16 DEF Tidy
  <1>17. CASE Index
    BY <1>1, <1>2, <1>17 DEF Index
  <1>18. CASE Ends
    BY <1>18 DEF Ends, disk
  <1>19. CASE UNCHANGED vars
    BY <1>19 DEF vars, disk
  <1>20. ~\E mode \in Modes \ {"idle"}, b \in Builds, legacy \in BOOLEAN : Begins(mode, b, legacy)
    BY <1>1 DEF Begins
  <1> QED
    BY <1>4, <1>7, <1>8, <1>9, <1>10, <1>11, <1>12, <1>13, <1>14, <1>15, <1>16, <1>17, <1>18,
       <1>19, <1>20, Beginnings DEF Next, Step, Finished, WriteSettings, ReportDone, ReportFails
-----------------------------------------------------------------------------
(* Android: an extraction that was cut off is never taken for the whole. *)

LEMMA AndroidKept ==
  ASSUME Types, Places, AndroidRuns, [Next]_vars
  PROVE  AndroidRuns'
  <1>0. os' = os /\ flat' = flat
    <2>1. ASSUME NEW mode \in Modes \ {"idle"}, NEW b \in Builds, NEW legacy \in BOOLEAN,
                 Begins(mode, b, legacy)
          PROVE  os' = os /\ flat' = flat
      BY <2>1, Starts DEF Begins
    <2> QED
      BY <2>1, Beginnings
      DEF Next, Step, Finished, vars, disk, Reuse, ExtractBegins, ExtractEnds, WriteSettings, Check,
          Stage, ReportDone, Render, ReportFails, Fails, Rows, Resolve, RenderDone, RenderFails,
          Tidy, Index, Ends
  <1> SUFFICES ASSUME os = "android"
               PROVE  AndroidRuns'
    BY <1>0 DEF AndroidRuns
  <1>1. PICK m, k, w, x, R, g : /\ m = run.mode /\ k = run.at /\ w = evidence /\ x = exmanifest
                                /\ R = reports["Reports"] /\ g = flat
    OBVIOUS
  <1> DEFINE Good(s, mm, kk, ww, xx, RR) ==
               /\ s = NoSettings /\ mm \in {"idle", "full"}
               /\ RR["CacheMedia"].pages = 0
               /\ ~g => /\ xx => ww = "whole"
                        /\ mm = "full" /\ kk > 2 => ww = "whole"
                        /\ \A r \in Report : RR[r].pages # 0 => RR[r].whole
  <1>2. Good(settings, m, k, w, x, R)
    BY <1>1 DEF AndroidRuns, Reported
  <1>3. ASSUME NEW mm, NEW kk, NEW ww, NEW xx, NEW RR, settings' = NoSettings, run'.mode = mm, run'.at = kk,
               evidence' = ww, exmanifest' = xx, reports'["Reports"] = RR,
               Good(NoSettings, mm, kk, ww, xx, RR)
        PROVE  AndroidRuns'
    BY <1>0, <1>1, <1>3 DEF AndroidRuns, Reported
  <1>4. settings = NoSettings /\ ~Isolated /\ m \in {"idle", "full"} /\ k \in Nat
    BY <1>1, <1>2 DEF Isolated, Types
  <1>5. ASSUME k > 2, UNCHANGED <<settings, evidence, exmanifest, reports>>, run'.mode = m
        PROVE  AndroidRuns'
    <2>1. PICK kk : kk = run'.at
      OBVIOUS
    <2>2. Good(NoSettings, m, kk, w, x, R)
      BY <1>2, <1>4, <1>5
    <2> HIDE DEF Good
    <2> QED
      BY <1>1, <1>3, <1>4, <1>5, <2>1, <2>2
  <1>6. ASSUME run'.mode = "idle", UNCHANGED <<settings, evidence, exmanifest, reports>>
        PROVE  AndroidRuns'
    <2>1. PICK kk : kk = run'.at
      OBVIOUS
    <2>2. Good(NoSettings, "idle", kk, w, x, R)
      BY <1>2
    <2> HIDE DEF Good
    <2> QED
      BY <1>1, <1>3, <1>4, <1>6, <2>1, <2>2
  <1>7. ASSUME NEW mode \in Modes \ {"idle"}, NEW b \in Builds, NEW legacy \in BOOLEAN,
               Begins(mode, b, legacy)
        PROVE  AndroidRuns'
    <2>1. mode = "full"
      BY <1>4, <1>7 DEF Begins, Modes
    <2>2. /\ run'.mode = "full" /\ run'.at = 1
          /\ UNCHANGED <<settings, evidence, exmanifest>>
      BY <1>7, <2>1, Starts DEF Begins
    <2>3. UNCHANGED reports
      BY <1>7, <2>1 DEF Begins, Start
    <2>4. Good(NoSettings, "full", 1, w, x, R)
      BY <1>2
    <2> HIDE DEF Good
    <2> QED
      BY <1>1, <1>3, <1>4, <2>2, <2>3, <2>4
  <1>8. CASE Reuse
    <2>1. k = 1 /\ (w = "whole" \/ g) /\ m = "full"
      BY <1>1, <1>2, <1>4, <1>8, Doing DEF Reuse, Reusable
    <2>2. run'.mode = m /\ UNCHANGED <<settings, evidence, exmanifest, reports>>
      BY <1>1, <1>8, Moves DEF Reuse, disk
    <2>3. PICK kk : kk = run'.at
      OBVIOUS
    <2>4. Good(NoSettings, m, kk, w, x, R)
      BY <1>2, <1>4, <2>1
    <2> HIDE DEF Good
    <2> QED
      BY <1>1, <1>3, <1>4, <2>2, <2>3, <2>4
  <1>9. CASE ExtractBegins
    <2>1. k = 1 /\ m = "full"
      BY <1>1, <1>4, <1>9, Doing DEF ExtractBegins
    <2>2. ~x \/ g
      BY <1>1, <1>2, <1>9 DEF ExtractBegins, Reusable
    <2>3. /\ run'.mode = m /\ run'.at = 2 /\ evidence' = "part"
          /\ UNCHANGED <<settings, exmanifest, reports>>
      BY <1>1, <1>9, <2>1, Moves DEF ExtractBegins
    <2>4. Good(NoSettings, m, 2, "part", x, R)
      BY <1>2, <1>4, <2>1, <2>2
    <2> HIDE DEF Good
    <2> QED
      BY <1>1, <1>3, <1>4, <2>3, <2>4
  <1>10. CASE ExtractEnds
    <2>1. PICK kk, xx : kk = run'.at /\ xx = exmanifest'
      OBVIOUS
    <2>2. run'.mode = m /\ evidence' = "whole" /\ UNCHANGED <<settings, reports>>
      BY <1>1, <1>10, Moves DEF ExtractEnds
    <2>3. Good(NoSettings, m, kk, "whole", xx, R)
      BY <1>2, <1>4
    <2> HIDE DEF Good
    <2> QED
      BY <1>1, <1>3, <1>4, <2>1, <2>2, <2>3
  <1>11. ~At("settings") /\ ~At("check") /\ ~At("rows") /\ ~At("resolve") /\ ~At("render")
    BY <1>4, Doing
  <1>12. CASE Stage
    BY <1>1, <1>4, <1>5, <1>12, Moves, Doing DEF Stage
  <1>13. At("report") => /\ k > 2 /\ (w = "whole" \/ g) /\ Subject \in Report /\ Subject # "CacheMedia"
                        /\ run.mode # "idle"
    <2> SUFFICES ASSUME At("report")
                 PROVE  /\ k > 2 /\ (w = "whole" \/ g) /\ Subject \in Report /\ Subject # "CacheMedia"
                        /\ run.mode # "idle"
      OBVIOUS
    <2>1. m = "full" /\ k \in 4 .. 7 /\ Subject = AndroidOrder[k - 3]
      BY <1>1, <1>4, Doing
    <2>2. \A i \in 1 .. 4 : AndroidOrder[i] # "CacheMedia"
      BY DEF AndroidOrder
    <2>3. k - 3 \in 1 .. 4
      BY <2>1
    <2> QED
      BY <1>1, <1>2, <2>1, <2>2, <2>3, Subjects
  <1>14. ASSUME At("report"), run'.mode = m, UNCHANGED <<settings, evidence, exmanifest>>,
                \A q \in Report : q # Subject => reports'["Reports"][q] = R[q],
                \/ reports'["Reports"][Subject] = R[Subject]
                \/ reports'["Reports"][Subject].whole <=> evidence = "whole"
         PROVE  AndroidRuns'
    <2>1. PICK RR, kk : RR = reports'["Reports"] /\ kk = run'.at
      OBVIOUS
    <2>2. RR["CacheMedia"].pages = 0
      BY <1>2, <1>13, <1>14, <2>1, Reports
    <2>3. g \/ \A r \in Report : RR[r].pages # 0 => RR[r].whole
      BY <1>1, <1>2, <1>13, <1>14, <2>1
    <2>4. Good(NoSettings, m, kk, w, x, RR)
      BY <1>2, <1>4, <1>13, <1>14, <2>2, <2>3
    <2> HIDE DEF Good
    <2> QED
      BY <1>1, <1>3, <1>4, <1>14, <2>1, <2>4
  <1>15. CASE ReportDone
    <2>1. /\ At("report") /\ UNCHANGED <<settings, evidence, exmanifest>> /\ run'.mode = m
          /\ reports' = [reports EXCEPT ![Folder][Subject] = Written(Subject)]
      BY <1>1, <1>15, Moves DEF ReportDone, Render
    <2>2. PICK new \in Written0 : new = Written(Subject) /\ (new.whole <=> evidence = "whole")
      BY <1>13, <2>1, WrittenIs
    <2>3. /\ reports'["Reports"][Subject] = new
          /\ \A q \in Report : q # Subject => reports'["Reports"][q] = reports["Reports"][q]
      BY <1>4, <1>13, <2>1, <2>2, Writes
    <2> QED
      BY <1>1, <1>14, <2>1, <2>2, <2>3
  <1>16. CASE ReportFails
    <2>1. At("report") /\ UNCHANGED <<settings, evidence, exmanifest>> /\ Fails(Subject)
      BY <1>16 DEF ReportFails, Fails
    <2>2. Missed(Subject)
      BY <2>1 DEF Fails, Missed
    <2>3. run'.mode = m
      BY <1>1, <1>13, <2>1, <2>2, Misses
    <2>4. /\ \A q \in Report : q # Subject => reports'["Reports"][q] = reports["Reports"][q]
          /\ \/ reports'["Reports"][Subject] = reports["Reports"][Subject]
             \/ reports'["Reports"][Subject].whole <=> evidence = "whole"
      BY <1>13, <2>1, FailsIs
    <2> QED
      BY <1>1, <1>14, <2>1, <2>3, <2>4
  <1>17. CASE Tidy
    BY <1>1, <1>4, <1>5, <1>17, Moves, Doing DEF Tidy
  <1>18. CASE Index
    BY <1>6, <1>18, Stops DEF Index
  <1>19. CASE Ends
    BY <1>6, <1>19, Stops DEF Ends, disk
  <1>20. CASE UNCHANGED vars
    BY <1>20 DEF vars, disk, AndroidRuns, Reported
  <1> QED
    BY <1>7, <1>8, <1>9, <1>10, <1>11, <1>12, <1>15, <1>16, <1>17, <1>18, <1>19, <1>20, Beginnings
    DEF Next, Step, Finished, WriteSettings, Check, Rows, Resolve, RenderDone, RenderFails
-----------------------------------------------------------------------------
(* An extract holds the rows it shows. *)

(* A full run or a refresh leaves the last extract as it is. *)
LEMMA ExtractApart ==
  ASSUME Types, Places, Step \/ Ends, ~Isolated
  PROVE  /\ ~Isolated'
         /\ unpruned'["extract"] = unpruned["extract"] /\ index'["extract"] = index["extract"]
         /\ sound'["extract"] = sound["extract"]
  <1>1. Folder = "Reports"
    BY DEF Folder
  <1>2. /\ unpruned \in [Folders -> SUBSET (Report \cup {"staging"})]
        /\ index \in [Folders -> [run : Nat, legacy : BOOLEAN]]
        /\ sound \in [Folders -> BOOLEAN]
        /\ "extract" \in Folders /\ "Reports" \in Folders
    BY DEF Types, Folders
  <1>3. /\ run'.mode \in {run.mode, "idle"} => ~Isolated'
        /\ UNCHANGED <<unpruned, index, sound>> =>
             /\ unpruned'["extract"] = unpruned["extract"] /\ index'["extract"] = index["extract"]
             /\ sound'["extract"] = sound["extract"]
    BY DEF Isolated
  <1>4. ~At("check") /\ ~At("rows") /\ ~At("resolve") /\ ~At("render")
    BY Doing
  <1>5. ASSUME NEW s, unpruned' = [unpruned EXCEPT !["Reports"] = s]
        PROVE  unpruned'["extract"] = unpruned["extract"]
    BY <1>2, <1>5
  <1>6. ASSUME On(1) \/ On(2)
        PROVE  ~Isolated'
    BY <1>3, <1>6, Moves
  <1>7. CASE Reuse
    BY <1>3, <1>6, <1>7 DEF Reuse, disk
  <1>8. CASE ExtractBegins
    BY <1>3, <1>6, <1>8 DEF ExtractBegins
  <1>9. CASE ExtractEnds
    BY <1>3, <1>6, <1>9 DEF ExtractEnds
  <1>10. CASE WriteSettings
    BY <1>3, <1>6, <1>10 DEF WriteSettings
  <1>11. CASE Stage
    BY <1>1, <1>5, <1>6, <1>11 DEF Stage
  <1>12. CASE ReportDone
    BY <1>3, <1>6, <1>12 DEF ReportDone, Render
  <1>13. CASE ReportFails
    <2>1. Subject \in Report
      BY <1>13, Subjects DEF ReportFails
    <2>2. Missed(Subject) /\ UNCHANGED <<unpruned, index, sound>>
      BY <1>13 DEF ReportFails, Fails, Missed
    <2>3. run'.mode = run.mode
      BY <2>1, <2>2, Misses
    <2> QED
      BY <1>3, <2>2, <2>3
  <1>14. CASE Tidy
    BY <1>1, <1>5, <1>6, <1>14 DEF Tidy
  <1>15. CASE Index
    <2>1. run'.mode = "idle"
      BY <1>15, Stops DEF Index
    <2>2. PICK x, y : index' = [index EXCEPT !["Reports"] = x] /\ sound' = [sound EXCEPT !["Reports"] = y]
      BY <1>1, <1>15 DEF Index
    <2>3. UNCHANGED unpruned
      BY <1>15 DEF Index
    <2> QED
      BY <1>2, <1>3, <2>1, <2>2, <2>3
  <1>16. CASE Ends
    <2>1. run'.mode = "idle"
      BY <1>16, Stops DEF Ends
    <2>2. sound' = [sound EXCEPT !["Reports"] = FALSE] /\ UNCHANGED <<unpruned, index>>
      BY <1>1, <1>16 DEF Ends, disk
    <2> QED
      BY <1>2, <1>3, <2>1, <2>2
  <1> QED
    BY <1>4, <1>7, <1>8, <1>9, <1>10, <1>11, <1>12, <1>13, <1>14, <1>15, <1>16
    DEF Step, Check, Rows, Resolve, RenderDone, RenderFails

LEMMA OrderIsOneToOne ==
  /\ \A i, j \in 1 .. 5 : Order[i] = Order[j] => i = j
  /\ \A i \in 1 .. 5 : Order[i] # "staging" /\ Order[i] \in Report
  /\ \A r \in Report : \E i \in 1 .. 5 : r = Order[i]
  <1>1. \A i \in 1 .. 5 : i = 1 \/ i = 2 \/ i = 3 \/ i = 4 \/ i = 5
    OBVIOUS
  <1>2. 1 \in 1 .. 5 /\ 2 \in 1 .. 5 /\ 3 \in 1 .. 5 /\ 4 \in 1 .. 5 /\ 5 \in 1 .. 5
    OBVIOUS
  <1> QED
    BY <1>1, <1>2, Reports

(* What the extract under way may hold at a place of the run. *)
Holds(u, k, failed, legacy) ==
  /\ \A i \in 1 .. 5 : Order[i] \in u => k > i + 4 /\ (k <= i + 10 \/ Order[i] \in failed)
  /\ "staging" \in u => k <= 16 \/ legacy

LEMMA ExtractsKept ==
  ASSUME Types, Places, Extracts, [Next]_vars
  PROVE  Extracts'
  <1>1. /\ unpruned \in [Folders -> SUBSET (Report \cup {"staging"})]
        /\ index \in [Folders -> [run : Nat, legacy : BOOLEAN]]
        /\ sound \in [Folders -> BOOLEAN] /\ "extract" \in Folders /\ run \in Run
    BY DEF Types, Folders, Run, Modes
  <1>2. ASSUME NEW mode \in Modes \ {"idle"}, NEW b \in Builds, NEW legacy \in BOOLEAN,
               Begins(mode, b, legacy)
        PROVE  Extracts'
    <2>1. ExtractClean
      BY <1>2 DEF Begins, Extracts, Isolated
    <2>2. run'.mode = mode /\ run'.at = 1 /\ sound' = sound
      BY <1>2, Starts DEF Begins
    <2>3. CASE mode \in {"partial", "dry"}
      <3>1. /\ unpruned' = [unpruned EXCEPT !["extract"] = {}]
            /\ index' = [index EXCEPT !["extract"] = NoIndex]
        BY <1>2, <2>3 DEF Begins, Start
      <3>2. unpruned'["extract"] = {} /\ index'["extract"] = NoIndex
        BY <1>1, <3>1
      <3> QED
        BY <2>2, <2>3, <3>2 DEF Extracts, Extracting, Isolated
    <2>4. CASE mode \notin {"partial", "dry"}
      <3>1. UNCHANGED <<unpruned, index>>
        BY <1>2, <2>4 DEF Begins, Start
      <3> QED
        BY <2>1, <2>2, <2>4, <3>1 DEF Extracts, ExtractClean, ExtractFinished, Wanted, Isolated
    <2> QED
      BY <2>3, <2>4
  <1>3. CASE (Step \/ Ends) /\ ~Isolated
    <2>1. ExtractClean
      BY <1>3 DEF Extracts
    <2>2. /\ ~Isolated'
          /\ unpruned'["extract"] = unpruned["extract"] /\ index'["extract"] = index["extract"]
          /\ sound'["extract"] = sound["extract"]
      BY <1>3, ExtractApart
    <2> QED
      BY <2>1, <2>2 DEF Extracts, ExtractClean, ExtractFinished, Wanted
  <1>4. CASE (Step \/ Ends) /\ Isolated
    <2>1. PICK m, k, u, failed, legacy :
            /\ m = run.mode /\ k = run.at /\ u = unpruned["extract"] /\ failed = run.failed
            /\ legacy = run.legacy
      OBVIOUS
    <2>2. /\ Holds(u, k, failed, legacy) /\ index["extract"] = NoIndex
          /\ k \in 1 .. 17 /\ m \in {"partial", "dry"} /\ Folder = "extract"
          /\ u \subseteq Report \cup {"staging"} /\ legacy \in BOOLEAN
      BY <1>1, <1>4, <2>1 DEF Extracts, Extracting, Holds, Places, Folder, Isolated, Run
    <2>3. ASSUME NEW uu, NEW kk, NEW ff, NEW ll, run'.mode \in {"partial", "dry"}, run'.at = kk,
                 run'.failed = ff, (run'.legacy <=> ll), unpruned'["extract"] = uu, Holds(uu, kk, ff, ll),
                 index' = index
          PROVE  Extracts'
      BY <2>2, <2>3 DEF Extracts, Extracting, Holds, Isolated
    <2>4. ASSUME NEW uu, NEW n \in {1, 2}, On(n), unpruned'["extract"] = uu,
                 Holds(uu, k + n, failed, legacy), index' = index
          PROVE  Extracts'
      <3>1. /\ run'.mode = run.mode /\ (run'.legacy <=> run.legacy) /\ run'.failed = run.failed
            /\ run'.at = run.at + n
        <4>1. CASE n = 1
          BY <2>4, <4>1, Moves
        <4>2. CASE n = 2
          BY <2>4, <4>2, Moves
        <4> QED
          BY <4>1, <4>2
      <3> QED
        BY <2>1, <2>2, <2>3, <2>4, <3>1
    <2>5. ASSUME NEW uu, Missed(Subject), At("rows") \/ At("render"), unpruned'["extract"] = uu,
                 Holds(uu, k + 1, failed \cup {Subject}, legacy), index' = index
          PROVE  Extracts'
      <3>1. Subject \in Report
        BY <2>5, Subjects
      <3>2. /\ run'.mode = run.mode /\ (run'.legacy <=> run.legacy)
            /\ run'.failed = run.failed \cup {Subject} /\ run'.at = run.at + 1
        BY <2>5, <3>1, Misses
      <3> QED
        BY <2>1, <2>2, <2>3, <2>5, <3>2
    <2>6. ASSUME k + 1 <= 10 \/ k = 10, NEW n \in {1, 2}, k + n <= 11
          PROVE  Holds(u, k + n, failed, legacy)
      BY <2>2, <2>6 DEF Holds
    <2>7. CASE Reuse
      BY <2>1, <2>2, <2>4, <2>6, <2>7, Doing DEF Reuse, disk
    <2>8. CASE ExtractBegins
      BY <2>1, <2>2, <2>4, <2>6, <2>8, Doing DEF ExtractBegins
    <2>9. CASE ExtractEnds
      BY <2>1, <2>2, <2>4, <2>6, <2>9, Doing DEF ExtractEnds
    <2>10. CASE Check
      BY <2>1, <2>2, <2>4, <2>6, <2>10, Doing DEF Check, disk
    <2>11. CASE Stage
      <3>1. k = 4
        BY <2>1, <2>2, <2>11, Doing DEF Stage
      <3>2. unpruned'["extract"] = u \cup {"staging"}
        BY <1>1, <2>1, <2>2, <2>11 DEF Stage
      <3>3. Holds(u \cup {"staging"}, k + 1, failed, legacy)
        BY <2>2, <3>1, OrderIsOneToOne DEF Holds
      <3> QED
        BY <2>4, <2>11, <3>2, <3>3 DEF Stage
    <2>12. ASSUME NEW done \in BOOLEAN, Rows(done)
           PROVE  Extracts'
      <3>1. k \in 5 .. 9 /\ Subject = Order[k - 4] /\ k - 4 \in 1 .. 5
        BY <2>1, <2>12, Doing DEF Rows
      <3>2. PICK published \in SUBSET {Subject} :
              unpruned' = [unpruned EXCEPT ![Folder] = @ \cup published]
        BY <2>12 DEF Rows
      <3>3. unpruned'["extract"] = u \cup published
        BY <1>1, <2>1, <2>2, <3>2
      <3>4. ASSUME NEW ff, failed \subseteq ff
            PROVE  Holds(u \cup published, k + 1, ff, legacy)
        BY <2>2, <3>1, <3>2, <3>4, OrderIsOneToOne DEF Holds
      <3>5. CASE done
        <4>1. run' = [run EXCEPT !.at = run.at + 1, !.failed = run.failed]
          BY <2>12, <3>5 DEF Rows
        <4>2. /\ run'.mode = run.mode /\ (run'.legacy <=> run.legacy) /\ run'.failed = run.failed
              /\ run'.at = run.at + 1
          BY <1>1, <4>1 DEF Run
        <4>3. index' = index
          BY <2>12 DEF Rows
        <4> QED
          BY <2>1, <2>2, <2>3, <3>3, <3>4, <4>2, <4>3
      <3>6. CASE ~done
        <4>1. Missed(Subject) /\ index' = index /\ At("rows")
          BY <2>12, <3>6 DEF Rows, Missed
        <4> QED
          BY <2>5, <3>3, <3>4, <4>1
      <3> QED
        BY <3>5, <3>6
    <2>13. CASE Resolve
      <3>1. k = 10
        BY <2>1, <2>13, Doing DEF Resolve
      <3>2. CASE m = "dry"
        <4>1. run'.mode = "idle" /\ index' = index
          BY <2>1, <2>13, <3>2, Stops DEF Resolve, disk
        <4> QED
          BY <2>2, <4>1 DEF Extracts, ExtractClean, ExtractFinished, Isolated
      <3>3. CASE m # "dry"
        <4>1. On(1) /\ index' = index /\ unpruned'["extract"] = u
          BY <2>1, <2>13, <3>3 DEF Resolve, On, disk
        <4> QED
          BY <2>4, <2>6, <3>1, <4>1
      <3> QED
        BY <3>2, <3>3
    <2>14. At("render") => k \in 11 .. 15 /\ Subject = Order[k - 10] /\ k - 10 \in 1 .. 5
      BY <2>1, Doing
    <2>15. CASE RenderDone
      <3>1. /\ k \in 11 .. 15 /\ Subject = Order[k - 10] /\ k - 10 \in 1 .. 5
            /\ On(1)
        BY <2>14, <2>15 DEF RenderDone
      <3>2. CASE Subject \in run.failed
        <4>1. unpruned'["extract"] = u /\ index' = index
          BY <2>1, <2>15, <3>2 DEF RenderDone, disk
        <4>2. Holds(u, k + 1, failed, legacy)
          BY <2>1, <2>2, <3>1, <3>2, OrderIsOneToOne DEF Holds
        <4> QED
          BY <2>4, <3>1, <4>1, <4>2
      <3>3. CASE Subject \notin run.failed
        <4>1. unpruned' = [unpruned EXCEPT !["extract"] = u \ {Subject}] /\ index' = index
          BY <2>1, <2>2, <2>15, <3>3 DEF RenderDone, Render, Pruned
        <4>2. unpruned'["extract"] = u \ {Subject}
          BY <1>1, <4>1
        <4>3. Holds(u \ {Subject}, k + 1, failed, legacy)
          BY <2>2, <3>1, OrderIsOneToOne DEF Holds
        <4> QED
          BY <2>4, <3>1, <4>1, <4>2, <4>3
      <3> QED
        BY <3>2, <3>3
    <2>16. CASE RenderFails
      <3>1. k \in 11 .. 15 /\ Subject = Order[k - 10] /\ k - 10 \in 1 .. 5
        BY <2>14, <2>16 DEF RenderFails
      <3>2. /\ Missed(Subject) /\ At("render")
            /\ unpruned'["extract"] = u /\ index' = index
        BY <2>1, <2>16 DEF RenderFails, Fails, Missed
      <3>3. Holds(u, k + 1, failed \cup {Subject}, legacy)
        BY <2>2, <3>1, OrderIsOneToOne DEF Holds
      <3> QED
        BY <2>5, <3>2, <3>3
    <2>17. CASE Tidy
      <3>1. k = 16 /\ On(1) /\ index' = index
        BY <2>1, <2>2, <2>17, Doing DEF Tidy
      <3>2. PICK gone : gone = Staging
        OBVIOUS
      <3>3. unpruned'["extract"] = u \ gone
        BY <1>1, <2>1, <2>2, <2>17, <3>2 DEF Tidy
      <3>4. gone = {"staging"} \/ (gone = {} /\ legacy)
        BY <2>1, <3>2 DEF Staging
      <3>5. Holds(u \ gone, k + 1, failed, legacy)
        BY <2>2, <3>1, <3>4, OrderIsOneToOne DEF Holds
      <3> QED
        BY <2>4, <3>1, <3>3, <3>5
    <2>18. CASE Index
      <3>1. k = 17 /\ run'.mode = "idle" /\ unpruned'["extract"] = u
        BY <2>1, <2>2, <2>18, Doing, Stops DEF Index
      <3>2. /\ index' = [index EXCEPT !["extract"] = [run |-> runs, legacy |-> run.legacy]]
            /\ sound' = [sound EXCEPT !["extract"] = (run.mode # "targeted" \/ sound["extract"])
                                                     /\ run.failed = {}]
        BY <2>2, <2>18 DEF Index
      <3>3. index'["extract"] = [run |-> runs, legacy |-> run.legacy]
        BY <1>1, <3>2
      <3>4. index'["extract"].legacy = legacy
        BY <2>1, <3>3
      <3>5. sound'["extract"] => failed = {}
        BY <1>1, <2>1, <3>2
      <3>6. failed = {} => \A r \in Report : r \notin u
        BY <2>2, <3>1, OrderIsOneToOne DEF Holds
      <3>7. "staging" \in u => legacy
        BY <2>2, <3>1 DEF Holds
      <3>8. sound'["extract"] => u \subseteq (IF legacy THEN {"staging"} ELSE {})
        BY <2>2, <3>5, <3>6, <3>7
      <3>9. ExtractClean'
        BY <3>1, <3>4, <3>8 DEF ExtractClean, Wanted
      <3> QED
        BY <3>1, <3>9 DEF Extracts, Isolated
    <2>19. CASE Ends
      <3>1. run'.mode = "idle" /\ ~sound'["extract"]
        BY <1>1, <2>2, <2>19, Stops DEF Ends
      <3> QED
        BY <3>1 DEF Extracts, ExtractClean, Isolated
    <2>20. ~At("settings") /\ ~At("report")
      BY <2>1, <2>2, Doing
    <2> QED
      BY <1>4, <2>7, <2>8, <2>9, <2>10, <2>11, <2>12, <2>13, <2>15, <2>16, <2>17, <2>18, <2>19,
         <2>20 DEF Step, WriteSettings, ReportDone, ReportFails
  <1>5. CASE UNCHANGED vars
    BY <1>5 DEF vars, disk, Extracts, Extracting, ExtractClean, ExtractFinished, Wanted, Isolated
  <1> QED
    BY <1>2, <1>3, <1>4, <1>5, Beginnings DEF Next, Finished
-----------------------------------------------------------------------------
(* The reports link to pages that are there. *)

LEMMA DepsOf ==
  /\ Deps("Conversations") = {} /\ Deps("Contacts") = {"Conversations"} /\ Deps("Memories") = {}
  /\ Deps("CacheMedia") = {"Conversations", "Memories"}
  /\ Deps("CacheController") = {"Conversations", "Memories", "CacheMedia"}
  BY DEF Deps

LEMMA MadeIs ==
  /\ os = "ios" => Made = Report
  /\ os = "android" => \A r : r \in Made <=> (r = "Conversations" \/ r = "Contacts"
                                             \/ r = "Memories" \/ r = "CacheController")
  BY Reports DEF Made

LEMMA FullAtIs ==
  /\ os = "ios" =>
       /\ FullAt["Conversations"] = 5 /\ FullAt["Contacts"] = 6 /\ FullAt["Memories"] = 8
       /\ FullAt["CacheMedia"] = 9 /\ FullAt["CacheController"] = 10
  /\ os = "android" =>
       /\ FullAt["Conversations"] = 4 /\ FullAt["Contacts"] = 5 /\ FullAt["Memories"] = 6
       /\ FullAt["CacheController"] = 7
  BY DEF FullAt

LEMMA FullOrdered ==
  ASSUME os \in {"ios", "android"}, NEW r \in Made
  PROVE  /\ FullAt[r] \in 4 .. (IF os = "ios" THEN 10 ELSE 7)
         /\ os = "ios" => FullAt[r] \in {5, 6, 8, 9, 10}
         /\ \A q \in Made : FullAt[q] = FullAt[r] => q = r
         /\ \A d \in Deps(r) \cap Made : FullAt[d] < FullAt[r]
         /\ r \in Report
  <1>1. CASE os = "ios"
    BY <1>1, MadeIs, FullAtIs, DepsOf, Reports
  <1>2. CASE os = "android"
    BY <1>2, MadeIs, FullAtIs, DepsOf, Reports
  <1> QED
    BY <1>1, <1>2

LEMMA RefreshAtIs ==
  /\ RefreshAt["Conversations"] = 0 /\ RefreshAt["Contacts"] = 0 /\ RefreshAt["Memories"] = 1
  /\ RefreshAt["CacheMedia"] = 2 /\ RefreshAt["CacheController"] = 3
  BY DEF RefreshAt

LEMMA RefreshOrdered ==
  ASSUME NEW r \in Report
  PROVE  /\ RefreshAt[r] \in 0 .. 3
         /\ \A d \in Deps(r) : d \in Report /\ d # r /\ RefreshAt[d] <= RefreshAt[r]
         /\ \A q \in Report : RefreshAt[q] = RefreshAt[r] /\ RefreshAt[r] > 0 => q = r
  BY RefreshAtIs, DepsOf, Reports

(* The place of the report a run is at. *)
LEMMA SubjectAt ==
  ASSUME Types, Places, At("report")
  PROVE  /\ run.mode = "full" => Subject \in Made /\ FullAt[Subject] = run.at
         /\ run.mode = "targeted" => RefreshAt[Subject] = run.at /\ run.at \in 1 .. 3
         /\ run.mode \in {"full", "targeted"}
  <1>1. PICK m, k : m = run.mode /\ k = run.at
    OBVIOUS
  <1>2. \/ /\ m = "full" /\ os = "ios"
           /\ \/ k \in 5 .. 6 /\ Subject = Order[k - 4]
              \/ k \in 8 .. 10 /\ Subject = Order[k - 5]
        \/ /\ m = "full" /\ os = "android"
           /\ k \in 4 .. 7 /\ Subject = AndroidOrder[k - 3]
        \/ m = "targeted" /\ k \in 1 .. 3 /\ Subject = RefreshOrder[k]
    BY <1>1, Doing
  <1>3. CASE m = "full" /\ os = "ios"
    <2>1. \/ (k = 5 /\ Subject = Order[1]) \/ (k = 6 /\ Subject = Order[2])
          \/ (k = 8 /\ Subject = Order[3]) \/ (k = 9 /\ Subject = Order[4])
          \/ (k = 10 /\ Subject = Order[5])
      BY <1>2, <1>3
    <2>2. Subject \in Made /\ FullAt[Subject] = k
      BY <1>3, <2>1, MadeIs, FullAtIs, Reports
    <2> QED
      BY <1>1, <1>3, <2>2
  <1>4. CASE m = "full" /\ os = "android"
    <2>1. \/ (k = 4 /\ Subject = AndroidOrder[1]) \/ (k = 5 /\ Subject = AndroidOrder[2])
          \/ (k = 6 /\ Subject = AndroidOrder[3]) \/ (k = 7 /\ Subject = AndroidOrder[4])
      BY <1>2, <1>4
    <2>2. /\ AndroidOrder[1] = "Conversations" /\ AndroidOrder[2] = "Contacts"
          /\ AndroidOrder[3] = "Memories" /\ AndroidOrder[4] = "CacheController"
      BY DEF AndroidOrder
    <2>3. Subject \in Made /\ FullAt[Subject] = k
      BY <1>4, <2>1, <2>2, MadeIs, FullAtIs
    <2> QED
      BY <1>1, <1>4, <2>3
  <1>5. CASE m = "targeted"
    <2>1. \/ (k = 1 /\ Subject = RefreshOrder[1]) \/ (k = 2 /\ Subject = RefreshOrder[2])
          \/ (k = 3 /\ Subject = RefreshOrder[3])
      BY <1>2, <1>5
    <2>2. /\ RefreshOrder[1] = "Memories" /\ RefreshOrder[2] = "CacheMedia"
          /\ RefreshOrder[3] = "CacheController"
      BY DEF RefreshOrder
    <2>3. RefreshAt[Subject] = k /\ k \in 1 .. 3
      BY <2>1, <2>2, RefreshAtIs
    <2> QED
      BY <1>1, <1>5, <2>3
  <1> QED
    BY <1>1, <1>2, <1>3, <1>4, <1>5

(* A partial run leaves what is said of the full reports. *)
LEMMA ReportsApart ==
  ASSUME Types, Places, Step \/ Ends, Isolated
  PROVE  /\ sound'["Reports"] = sound["Reports"]
         /\ run'.mode \in {run.mode, "idle"}
  <1>1. Folder = "extract" /\ sound \in [Folders -> BOOLEAN]
        /\ "extract" \in Folders /\ "Reports" \in Folders /\ run \in Run
    BY DEF Folder, Types, Folders, Run, Modes
  <1>2. ~At("settings") /\ ~At("report")
    BY Doing DEF Isolated
  <1>3. CASE Index
    <2>1. PICK y : sound' = [sound EXCEPT !["extract"] = y]
      BY <1>1, <1>3 DEF Index
    <2> QED
      BY <1>1, <1>3, <2>1, Stops DEF Index
  <1>4. CASE Ends
    BY <1>1, <1>4, Stops DEF Ends
  <1>5. ASSUME NEW done \in BOOLEAN, Rows(done)
        PROVE  sound' = sound /\ run'.mode = run.mode
    <2>1. PICK ff : run' = [run EXCEPT !.at = run.at + 1, !.failed = ff]
      BY <1>5 DEF Rows
    <2>2. sound' = sound
      BY <1>5 DEF Rows
    <2> QED
      BY <1>1, <2>1, <2>2 DEF Run
  <1>6. CASE RenderFails
    <2>1. Missed(Subject) /\ sound' = sound /\ Subject \in Report
      BY <1>6, Subjects DEF RenderFails, Fails, Missed
    <2> QED
      BY <2>1, Misses
  <1>7. CASE Resolve
    <2>1. run' = Idle \/ On(1)
      BY <1>7 DEF Resolve, On
    <2> QED
      BY <1>7, <2>1, Moves, Stops DEF Resolve
  <1>8. CASE Reuse \/ ExtractBegins \/ ExtractEnds \/ Check \/ Stage \/ RenderDone \/ Tidy
    <2>1. sound' = sound /\ (On(1) \/ On(2))
      BY <1>8 DEF Reuse, ExtractBegins, ExtractEnds, Check, Stage, RenderDone, Render, Tidy
    <2> QED
      BY <2>1, Moves
  <1> QED
    BY <1>2, <1>3, <1>4, <1>5, <1>6, <1>7, <1>8 DEF Step, WriteSettings, ReportDone, ReportFails

(* What Links says, of given values of what it is about. *)
Made0(R, n, b, set, k) ==
  /\ \A r \in Made : k > FullAt[r] =>
       /\ R[r].pages = n /\ R[r].manifest = n /\ R[r].build = b
       /\ \A d \in Deps(r) \cap Made : R[r].saw[d] = n
  /\ os = "ios" /\ k > 3 => set.build = b

Refreshed0(R, set, b, k) ==
  /\ b = set.build
  /\ \A r \in Report :
       /\ R[r].pages = R[r].manifest /\ R[r].build = set.build
       /\ k > RefreshAt[r] => \A d \in Deps(r) : R[r].saw[d] = R[d].pages

LEMMA Links0 ==
  ASSUME NEW R, NEW n, NEW b, NEW set, NEW k, R = reports["Reports"], n = runs, b = run.build,
         set = settings, k = run.at
  PROVE  (Full <=> Made0(R, n, b, set, k)) /\ (Refreshed <=> Refreshed0(R, set, b, k))
  BY DEF Full, Refreshed, Made0, Refreshed0

Whole0(R, set) ==
  \A r \in Made :
    /\ R[r].pages = R[r].manifest /\ R[r].build = R["Conversations"].build
    /\ os = "ios" => R[r].build = set.build
    /\ \A d \in Deps(r) \cap Made : R[r].saw[d] = R[d].pages

Settled(R, set) == (set = NoSettings /\ \A r \in Report : R[r].pages = 0) \/ Whole0(R, set)

LEMMA LinksNow ==
  ASSUME Links, NEW R, NEW n, NEW b, NEW set, NEW k, R = reports["Reports"], n = runs,
         b = run.build, set = settings, k = run.at
  PROVE  /\ run.mode = "full" /\ run.failed = {} => Made0(R, n, b, set, k)
         /\ run.mode = "targeted" /\ sound["Reports"] /\ run.failed = {} =>
              Refreshed0(R, set, b, k)
         /\ run.mode \in {"idle", "partial", "dry"} /\ sound["Reports"] => Settled(R, set)
  <1>1. (NothingMade \/ Whole) => Settled(R, set)
    BY DEF Whole, Whole0, NothingMade, Settled
  <1> QED
    BY <1>1, Links0 DEF Links

LEMMA LinksNext ==
  ASSUME os' = os, NEW R, NEW n, NEW b, NEW set, NEW k, R = reports'["Reports"], n = runs',
         b = run'.build, set = settings', k = run'.at,
         run'.mode = "full" /\ run'.failed = {} => Made0(R, n, b, set, k),
         run'.mode = "targeted" /\ sound'["Reports"] /\ run'.failed = {} =>
           Refreshed0(R, set, b, k),
         run'.mode \in {"idle", "partial", "dry"} /\ sound'["Reports"] => Settled(R, set)
  PROVE  Links'
  <1>1. Made0(R, n, b, set, k) => Full'
    BY DEF Full, Made0, Made, FullAt
  <1>2. Refreshed0(R, set, b, k) => Refreshed'
    BY DEF Refreshed, Refreshed0
  <1>3. Settled(R, set) => (NothingMade \/ Whole)'
    BY DEF Whole, Whole0, NothingMade, Settled, Made
  <1> QED
    BY <1>1, <1>2, <1>3 DEF Links

LEMMA LinksKept ==
  ASSUME Types, Places, AndroidRuns, Links, [Next]_vars
  PROVE  Links'
  <1>0. PICK R, n, b, set, k, m, failed :
          /\ R = reports["Reports"] /\ n = runs /\ b = run.build /\ set = settings /\ k = run.at
          /\ m = run.mode /\ failed = run.failed
    OBVIOUS
  <1>1. /\ m = "full" /\ failed = {} => Made0(R, n, b, set, k)
        /\ m = "targeted" /\ sound["Reports"] /\ failed = {} => Refreshed0(R, set, b, k)
        /\ m \in {"idle", "partial", "dry"} /\ sound["Reports"] => Settled(R, set)
    BY <1>0, LinksNow
  <1>2. /\ m \in Modes /\ os \in {"ios", "android"} /\ k \in Nat /\ failed \subseteq Report
        /\ sound \in [Folders -> BOOLEAN] /\ "Reports" \in Folders /\ run \in Run
    BY <1>0 DEF Types, Run, Modes, Folders
  <1>3. ASSUME NEW RR, NEW nn, NEW bb, NEW ss, NEW kk, NEW mm, NEW ff, os' = os,
               RR = reports'["Reports"], nn = runs', bb = run'.build, ss = settings', kk = run'.at,
               mm = run'.mode, ff = run'.failed,
               mm = "full" /\ ff = {} => Made0(RR, nn, bb, ss, kk),
               mm = "targeted" /\ sound'["Reports"] /\ ff = {} => Refreshed0(RR, ss, bb, kk),
               mm \in {"idle", "partial", "dry"} /\ sound'["Reports"] => Settled(RR, ss)
        PROVE  Links'
    BY <1>3, LinksNext
  (* A run begins. *)
  <1>4. ASSUME NEW mode \in Modes \ {"idle"}, NEW bb \in Builds, NEW legacy \in BOOLEAN,
               Begins(mode, bb, legacy)
        PROVE  Links'
    <2>1. /\ m = "idle" /\ run'.mode = mode /\ run'.build = bb /\ run'.at = 1 /\ run'.failed = {}
          /\ os' = os /\ settings' = set /\ sound' = sound
          /\ mode = "targeted" => set # NoSettings /\ set.build = bb
      BY <1>0, <1>4, Starts DEF Begins
    <2>2. reports'["Reports"] = R
      <3>1. CASE mode \in {"partial", "dry"}
        <4>1. reports' = [reports EXCEPT !["extract"] = [r \in Report |-> Absent]]
          BY <1>4, <3>1 DEF Begins, Start
        <4>2. reports \in [Folders -> [Report -> Written0]]
          BY DEF Types, Written0
        <4> QED
          BY <1>0, <1>2, <4>1, <4>2
      <3>2. CASE mode \notin {"partial", "dry"}
        BY <1>0, <1>4, <3>2 DEF Begins, Start
      <3> QED
        BY <3>1, <3>2
    <2>3. PICK nn : nn = runs'
      OBVIOUS
    <2>4. Made0(R, nn, bb, set, 1)
      BY <1>2, FullOrdered DEF Made0
    <2>5. mode = "targeted" /\ sound["Reports"] => Refreshed0(R, set, bb, 1)
      <3> SUFFICES ASSUME mode = "targeted", sound["Reports"]
                   PROVE  Refreshed0(R, set, bb, 1)
        OBVIOUS
      <3>1. Whole0(R, set) /\ set.build = bb
        BY <1>1, <2>1 DEF Settled
      <3>2. Made = Report
        BY <1>0, <1>2, <2>1, MadeIs DEF AndroidRuns
      <3>3. os = "ios"
        BY <1>0, <1>2, <2>1 DEF AndroidRuns
      <3> QED
        BY <3>1, <3>2, <3>3, RefreshOrdered DEF Refreshed0, Whole0
    <2>6. sound'["Reports"] <=> sound["Reports"]
      BY <2>1
    <2> QED
      BY <1>1, <1>3, <2>1, <2>2, <2>3, <2>4, <2>5, <2>6
  (* A partial run. *)
  <1>5. CASE (Step \/ Ends) /\ Isolated
    <2>1. /\ sound'["Reports"] = sound["Reports"] /\ run'.mode \in {"partial", "dry", "idle"}
          /\ m \in {"partial", "dry"}
      BY <1>0, <1>5, ReportsApart DEF Isolated
    <2>2. settings' = set /\ reports'["Reports"] = R
      BY <1>0, <1>5, WritesApart DEF Apart
    <2>3. os' = os
      BY <1>5 DEF Step, disk, Reuse, ExtractBegins, ExtractEnds, WriteSettings, Check, Stage,
              ReportDone, Render, ReportFails, Fails, Rows, Resolve, RenderDone, RenderFails, Tidy,
              Index, Ends
    <2>4. PICK nn, bb, kk, mm, ff : /\ nn = runs' /\ bb = run'.build /\ kk = run'.at
                                    /\ mm = run'.mode /\ ff = run'.failed
      OBVIOUS
    <2> QED
      BY <1>1, <1>3, <2>1, <2>2, <2>3, <2>4
  (* A full run or a refresh, step by step. *)
  <1>6. CASE Step /\ ~Isolated
    <2>1. At("report") => m \in {"full", "targeted"} /\ Subject \in Report /\ run.mode # "idle"
      BY <1>0, SubjectAt, Subjects DEF At
    <2>2. ASSUME On(1) \/ On(2), UNCHANGED <<os, flat, reports, settings, sound, runs>>, m = "full",
                 \A r \in Made : run'.at > FullAt[r] => k > FullAt[r],
                 os = "ios" /\ run'.at > 3 => k > 3
          PROVE  Links'
      <3>1. /\ run'.mode = m /\ run'.build = b /\ run'.failed = failed
        BY <1>0, <2>2, Moves
      <3>2. PICK kk : kk = run'.at
        OBVIOUS
      <3>3. failed = {} => Made0(R, n, b, set, kk)
        BY <1>1, <2>2, <3>2 DEF Made0
      <3> QED
        BY <1>0, <1>3, <2>2, <3>1, <3>2, <3>3
    <2>3. CASE Reuse
      <3>1. k = 1 /\ m = "full" /\ On(2) /\ UNCHANGED <<os, flat, reports, settings, sound, runs>>
        BY <1>0, <1>6, <2>3, Doing DEF Reuse, disk, Isolated
      <3>2. run'.at = 3
        BY <1>0, <3>1, Moves
      <3> QED
        BY <1>2, <2>2, <3>1, <3>2, FullOrdered
    <2>4. CASE ExtractBegins
      <3>1. k = 1 /\ m = "full" /\ On(1) /\ UNCHANGED <<os, flat, reports, settings, sound, runs>>
        BY <1>0, <1>6, <2>4, Doing DEF ExtractBegins, Isolated
      <3>2. run'.at = 2
        BY <1>0, <3>1, Moves
      <3> QED
        BY <1>2, <2>2, <3>1, <3>2, FullOrdered
    <2>5. CASE ExtractEnds
      <3>1. k = 2 /\ m = "full" /\ On(1) /\ UNCHANGED <<os, flat, reports, settings, sound, runs>>
        BY <1>0, <1>6, <2>5, Doing DEF ExtractEnds, Isolated
      <3>2. run'.at = 3
        BY <1>0, <3>1, Moves
      <3> QED
        BY <1>2, <2>2, <3>1, <3>2, FullOrdered
    <2>6. CASE WriteSettings
      <3>1. /\ k = 3 /\ m = "full" /\ On(1) /\ UNCHANGED <<os, flat, reports, sound, runs>>
            /\ settings' = [build |-> run.build, legacy |-> run.legacy]
        BY <1>0, <2>6, Doing DEF WriteSettings
      <3>2. /\ run'.mode = m /\ run'.build = b /\ run'.failed = failed /\ run'.at = 4
        BY <1>0, <3>1, Moves
      <3>3. PICK ss : ss = settings' /\ ss.build = b
        BY <1>0, <3>1
      <3>4. Made0(R, n, b, ss, 4)
        BY <1>2, <3>3, FullOrdered DEF Made0
      <3> QED
        BY <1>0, <1>3, <3>1, <3>2, <3>3, <3>4
    <2>7. CASE Stage
      <3>1. /\ m = "full" /\ k = (IF os = "ios" THEN 4 ELSE 3) /\ On(1)
            /\ UNCHANGED <<os, flat, reports, settings, sound, runs>>
        BY <1>0, <1>6, <2>7, Doing DEF Stage
      <3>2. run'.at = k + 1
        BY <1>0, <3>1, Moves
      <3>3. \A r \in Made : ~(k + 1 > FullAt[r])
        BY <1>2, <3>1, FullOrdered
      <3> QED
        BY <2>2, <3>1, <3>2, <3>3
    <2>8. CASE Tidy
      <3>1. /\ m = "full" /\ k = (IF os = "ios" THEN 7 ELSE 8) /\ On(1)
            /\ UNCHANGED <<os, flat, reports, settings, sound, runs>>
        BY <1>0, <1>6, <2>8, Doing DEF Tidy
      <3>2. run'.at = k + 1
        BY <1>0, <3>1, Moves
      <3>3. \A r \in Made : k + 1 > FullAt[r] => k > FullAt[r]
        BY <1>2, <3>1, FullOrdered
      <3> QED
        BY <2>2, <3>1, <3>2, <3>3
    <2>9. CASE ReportFails
      <3>1. /\ At("report") /\ Missed(Subject) /\ Subject \in Report
            /\ UNCHANGED <<os, flat, settings, sound, runs>>
        BY <2>1, <2>9 DEF ReportFails, Fails, Missed
      <3>2. run'.mode = m /\ run'.failed # {}
        BY <1>0, <3>1, Misses
      <3>3. PICK RR, bb, kk, ff : /\ RR = reports'["Reports"] /\ bb = run'.build /\ kk = run'.at
                                  /\ ff = run'.failed
        OBVIOUS
      <3> QED
        BY <1>0, <1>3, <2>1, <3>1, <3>2, <3>3
    <2>10. CASE ReportDone
      <3>1. /\ At("report") /\ On(1) /\ Subject \in Report
            /\ UNCHANGED <<os, flat, settings, sound, runs>>
            /\ reports' = [reports EXCEPT ![Folder][Subject] = Written(Subject)]
        BY <2>1, <2>10 DEF ReportDone, Render
      <3>2. PICK s, new, RR : s = Subject /\ new = Written(Subject) /\ RR = reports'["Reports"]
        OBVIOUS
      <3>3. /\ new \in Written0 /\ new.pages = n /\ new.manifest = n /\ new.build = b
            /\ \A d \in Deps(s) \cap Report : new.saw[d] = Seen(s, d)
        BY <1>0, <2>1, <3>1, <3>2, WrittenIs
      <3>4. RR[s] = new /\ \A q \in Report : q # s => RR[q] = R[q]
        BY <1>0, <1>6, <3>1, <3>2, <3>3, Writes
      <3>5. run'.mode = m /\ run'.build = b /\ run'.failed = failed /\ run'.at = k + 1
        BY <1>0, <3>1, Moves
      <3>6. \A d \in Report : failed = {} =>
              Seen(s, d) = IF s = "Contacts" THEN n ELSE R[d].manifest
        BY <1>0 DEF Seen
      <3>7. CASE m = "full"
        <4>1. s \in Made /\ FullAt[s] = k
          BY <1>0, <3>1, <3>2, <3>7, SubjectAt
        <4>2. ASSUME failed = {}
              PROVE  Made0(RR, n, b, set, k + 1)
          <5>1. Made0(R, n, b, set, k)
            BY <1>1, <3>7, <4>2
          <5>2. \A d \in Deps(s) \cap Made : FullAt[d] < k /\ FullAt[d] \in Nat /\ d \in Report
            BY <1>2, <4>1, FullOrdered
          <5>3. \A d \in Deps(s) \cap Made : R[d].manifest = n
            BY <1>2, <5>1, <5>2 DEF Made0
          <5>4. \A d \in Deps(s) \cap Made : new.saw[d] = n
            BY <3>3, <3>6, <4>2, <5>2, <5>3
          <5>5. ASSUME NEW r \in Made, k + 1 > FullAt[r]
                PROVE  /\ RR[r].pages = n /\ RR[r].manifest = n /\ RR[r].build = b
                       /\ \A d \in Deps(r) \cap Made : RR[r].saw[d] = n
            <6>1. r \in Report /\ FullAt[r] \in Nat
              BY <1>2, FullOrdered
            <6>2. CASE r = s
              BY <3>3, <3>4, <5>4, <6>2
            <6>3. CASE r # s
              <7>1. FullAt[r] # k
                BY <1>2, <4>1, <6>3, FullOrdered
              <7>2. k > FullAt[r]
                BY <1>2, <5>5, <6>1, <7>1
              <7>3. RR[r] = R[r]
                BY <3>4, <6>1, <6>3
              <7> QED
                BY <5>1, <7>2, <7>3 DEF Made0
            <6> QED
              BY <6>2, <6>3
          <5>6. os = "ios" => set.build = b
            <6>1. os = "ios" => k > 3
              BY <1>2, <4>1, FullOrdered
            <6> QED
              BY <5>1, <6>1 DEF Made0
          <5> QED
            BY <5>5, <5>6 DEF Made0
        <4>3. PICK kk : kk = k + 1
          OBVIOUS
        <4> QED
          BY <1>0, <1>3, <3>1, <3>2, <3>5, <3>7, <4>2, <4>3
      <3>8. CASE m = "targeted"
        <4>1. RefreshAt[s] = k /\ k \in 1 .. 3
          BY <1>0, <3>1, <3>2, <3>8, SubjectAt
        <4>2. ASSUME failed = {}, sound["Reports"]
              PROVE  Refreshed0(RR, set, b, k + 1)
          <5>1. Refreshed0(R, set, b, k)
            BY <1>1, <3>8, <4>2
          <5>2. ASSUME NEW r \in Report
                PROVE  RR[r].pages = RR[r].manifest /\ RR[r].build = set.build
            BY <3>3, <3>4, <5>1 DEF Refreshed0
          <5>3. ASSUME NEW r \in Report, k + 1 > RefreshAt[r], NEW d \in Deps(r)
                PROVE  RR[r].saw[d] = RR[d].pages
            <6>1. d \in Report /\ d # r /\ RefreshAt[d] <= RefreshAt[r] /\ RefreshAt[r] \in Nat
                  /\ RefreshAt[d] \in Nat
              BY RefreshOrdered
            <6>2. CASE r = s
              <7>1. RR[d] = R[d] /\ R[d].pages = R[d].manifest
                BY <3>4, <5>1, <6>1, <6>2 DEF Refreshed0
              <7>2. s # "Contacts"
                BY <4>1, RefreshAtIs
              <7>3. RR[r].saw[d] = R[d].manifest
                BY <3>3, <3>4, <3>6, <4>2, <5>3, <6>1, <6>2, <7>2
              <7> QED
                BY <7>1, <7>3
            <6>3. CASE r # s
              <7>1. RefreshAt[r] # k
                BY <3>1, <3>2, <4>1, <6>3, RefreshOrdered
              <7>2. k > RefreshAt[r] /\ d # s
                BY <1>2, <4>1, <5>3, <6>1, <7>1
              <7>3. RR[r] = R[r] /\ RR[d] = R[d]
                BY <3>4, <6>1, <6>3, <7>2
              <7> QED
                BY <5>1, <5>3, <7>2, <7>3 DEF Refreshed0
            <6> QED
              BY <6>2, <6>3
          <5> QED
            BY <5>1, <5>2, <5>3 DEF Refreshed0
        <4>3. PICK kk : kk = k + 1
          OBVIOUS
        <4> QED
          BY <1>0, <1>3, <3>1, <3>2, <3>5, <3>8, <4>2, <4>3
      <3> QED
        BY <2>1, <3>1, <3>7, <3>8
    <2>11. CASE Index
      <3>1. /\ run' = Idle /\ UNCHANGED <<os, flat, reports, settings, runs>>
            /\ sound' = [sound EXCEPT !["Reports"] = (run.mode # "targeted" \/ sound["Reports"])
                                                     /\ run.failed = {}]
        BY <1>6, <2>11 DEF Index, Folder
      <3>2. sound'["Reports"] => failed = {} /\ (m # "targeted" \/ sound["Reports"])
        BY <1>0, <1>2, <3>1
      <3>3. /\ m \in {"full", "targeted"}
            /\ m = "full" => k = (IF os = "ios" THEN 11 ELSE 9)
            /\ m = "targeted" => k = 4
        BY <1>0, <1>6, <2>11, Doing DEF Index
      <3>4. ASSUME m = "full", failed = {}
            PROVE  Whole0(R, set)
        <4>1. Made0(R, n, b, set, k)
          BY <1>1, <3>4
        <4>2. \A r \in Made : k > FullAt[r] /\ r \in Report
          BY <1>2, <3>3, <3>4, FullOrdered
        <4>3. "Conversations" \in Made
          BY <1>2, MadeIs, Reports
        <4>4. os = "ios" => set.build = b
          BY <3>3, <3>4, <4>1 DEF Made0
        <4> QED
          BY <4>1, <4>2, <4>3, <4>4 DEF Made0, Whole0
      <3>5. ASSUME m = "targeted", failed = {}, sound["Reports"]
            PROVE  Whole0(R, set)
        <4>1. Refreshed0(R, set, b, k) /\ k = 4
          BY <1>1, <3>3, <3>5
        <4>2. Made \subseteq Report /\ "Conversations" \in Report
          BY <1>2, FullOrdered, Reports
        <4>3. \A r \in Report : 4 > RefreshAt[r]
          BY RefreshOrdered
        <4> QED
          BY <4>1, <4>2, <4>3 DEF Refreshed0, Whole0
      <3>6. sound'["Reports"] => Settled(R, set)
        BY <3>2, <3>3, <3>4, <3>5 DEF Settled
      <3>7. PICK bb, kk, ff : bb = run'.build /\ kk = run'.at /\ ff = run'.failed
        OBVIOUS
      <3>8. run'.mode = "idle"
        BY <3>1, Stops
      <3> QED
        BY <1>0, <1>3, <3>1, <3>6, <3>7, <3>8
    <2>12. ~At("check") /\ ~At("rows") /\ ~At("resolve") /\ ~At("render")
      BY <1>6, Doing
    <2> QED
      BY <1>6, <2>3, <2>4, <2>5, <2>6, <2>7, <2>8, <2>9, <2>10, <2>11, <2>12
      DEF Step, Check, Rows, Resolve, RenderDone, RenderFails
  <1>7. CASE Ends /\ ~Isolated
    <2>1. /\ sound' = [sound EXCEPT !["Reports"] = FALSE] /\ run'.mode = "idle"
          /\ UNCHANGED <<os, flat, reports, settings, runs>>
      BY <1>7, Stops DEF Ends, Folder, disk
    <2>2. ~sound'["Reports"]
      BY <1>2, <2>1
    <2>3. PICK bb, kk, ff : bb = run'.build /\ kk = run'.at /\ ff = run'.failed
      OBVIOUS
    <2> QED
      BY <1>0, <1>3, <2>1, <2>2, <2>3
  <1>8. CASE UNCHANGED vars
    BY <1>8 DEF vars, disk, Links, Full, Refreshed, NothingMade, Whole, Made, FullAt
  <1> QED
    BY <1>4, <1>5, <1>6, <1>7, <1>8, Beginnings DEF Next, Finished
-----------------------------------------------------------------------------
(* The inductive invariant, and the theorems it gives. *)

Inv == Types /\ Places /\ AndroidRuns /\ Extracts /\ Links

LEMMA InitInv == Init => Inv
  <1> SUFFICES ASSUME Init
               PROVE  Inv
    OBVIOUS
  <1>1. Absent \in Written0 /\ Absent.pages = 0
    BY DEF Absent, Written0
  <1>2. run \in Run /\ run.mode = "idle"
    BY DEF Init, Idle, Run, Modes
  <1>3. /\ reports \in [Folders -> [Report -> Written0]]
        /\ \A r \in Report : reports["Reports"][r].pages = 0
    BY <1>1 DEF Init, Folders
  <1>4. Types
    BY <1>2, <1>3 DEF Init, Types, Run, Modes, Written0, Folders, NoSettings, NoIndex
  <1>5. Places
    BY <1>2 DEF Places, Isolated
  <1>6. AndroidRuns
    BY <1>2, <1>3, Reports DEF AndroidRuns, Init, Reported
  <1>7. Extracts
    BY <1>2 DEF Extracts, Isolated, ExtractClean, ExtractFinished, Init, Folders
  <1>8. Links
    BY <1>2, <1>3 DEF Links, NothingMade, Init
  <1> QED
    BY <1>4, <1>5, <1>6, <1>7, <1>8 DEF Inv

LEMMA StepInv == Inv /\ [Next]_vars => Inv'
  <1> SUFFICES ASSUME Types, Places, AndroidRuns, Extracts, Links, [Next]_vars
               PROVE  Inv'
    BY DEF Inv
  <1> QED
    BY TypesKept, PlacesKept, AndroidKept, ExtractsKept, LinksKept DEF Inv

LEMMA AlwaysInv == Spec => []Inv
  BY InitInv, StepInv, PTL DEF Spec

(* The state keeps its types, and a run is always at one of the steps its mode, and
   the platform, give it. *)
THEOREM TypeCorrect == Spec => []TypeOK
  <1>1. ASSUME Types, Places
        PROVE  TypeOK
    <2>1. PICK m, k : m = run.mode /\ k = run.at
      OBVIOUS
    <2>2. /\ m \in Modes /\ os \in {"ios", "android"}
          /\ m \in {"partial", "dry"} => k \in 1 .. 17
          /\ m = "full" => k \in 1 .. (IF os = "ios" THEN 11 ELSE 9)
          /\ m = "targeted" => k \in 1 .. 4
      BY <1>1, <2>1 DEF Types, Places, Isolated, Modes
    <2>3. \A s, len : Lists(s, len) => DOMAIN s = 1 .. len
      BY LenProperties DEF Lists
    <2>4. m \in {"partial", "dry"} => DOMAIN Plan(m) = 1 .. 17
      BY <2>3, PartialPlan
    <2>5. m = "full" /\ os = "ios" => DOMAIN Plan(m) = 1 .. 11
      BY <2>3, FullPlan
    <2>6. m = "full" /\ os = "android" => DOMAIN Plan(m) = 1 .. 9
      BY <2>3, AndroidPlan
    <2>7. m = "targeted" => DOMAIN Plan(m) = 1 .. 4
      BY <2>3, RefreshPlan
    <2>8. m # "idle" => k \in DOMAIN Plan(m)
      BY <2>2, <2>4, <2>5, <2>6, <2>7 DEF Modes
    <2> QED
      BY <1>1, <2>1, <2>8 DEF TypeOK
  <1>2. Inv => TypeOK
    BY <1>1 DEF Inv
  <1> QED
    BY <1>2, AlwaysInv, PTL

(* Between runs, when no report failed since the last run that wrote them all, the
   reports link to pages that are there and are of one build, also after any number
   of refreshes of three of them. *)
THEOREM LinksAlwaysHold == Spec => []LinksHold
  <1>1. ASSUME Types, AndroidRuns, Links
        PROVE  LinksHold
    <2> SUFFICES ASSUME run.mode = "idle", sound["Reports"],
                        NEW r \in Reported, NEW d \in Reported
                 PROVE  /\ d \in Deps(r) =>
                             reports["Reports"][r].saw[d] = reports["Reports"][d].pages
                        /\ reports["Reports"][r].build = reports["Reports"][d].build
      BY DEF LinksHold
    <2>1. os \in {"ios", "android"}
      BY <1>1 DEF Types
    <2>2. NothingMade \/ Whole
      BY <1>1 DEF Links
    <2>3. Whole
      BY <2>2 DEF NothingMade, Reported
    <2>4. r \in Made /\ d \in Made
      BY <1>1, <2>1 DEF Made, Reported, AndroidRuns
    <2> QED
      BY <2>3, <2>4 DEF Whole
  <1>2. Inv => LinksHold
    BY <1>1 DEF Inv
  <1> QED
    BY <1>2, AlwaysInv, PTL

(* An extract that was finished, and in which no report failed, holds nothing of a row
   its pages do not show. *)
THEOREM ExtractAlwaysClean == Spec => []ExtractClean
  <1>1. Inv => ExtractClean
    BY DEF Inv, Extracts, Extracting, ExtractClean, ExtractFinished
  <1> QED
    BY <1>1, AlwaysInv, PTL

(* No report is made from an Android extraction of this build's that was cut off,
   however often it was begun again.  A folder in which an earlier version's flat
   layout was found is outside it. *)
THEOREM EvidenceAlwaysWhole == Spec => []EvidenceWhole
  <1>1. Inv => EvidenceWhole
    BY DEF Inv, AndroidRuns, EvidenceWhole
  <1> QED
    BY <1>1, AlwaysInv, PTL

(* No step of a partial or a dry run changes the reports its selection was made in. *)
THEOREM FullReportsAlwaysKept == Spec => FullReportsKept
  <1>1. Inv /\ [Next]_vars => [Apart]_vars
    BY WritesApart DEF Inv
  <1>2. [Apart]_vars => [Isolated => /\ settings' = settings
                                     /\ reports'["Reports"] = reports["Reports"]
                                     /\ index'["Reports"] = index["Reports"]
                                     /\ unpruned'["Reports"] = unpruned["Reports"]]_vars
    BY DEF Apart
  <1> QED
    BY <1>1, <1>2, AlwaysInv, PTL DEF Spec, FullReportsKept
=============================================================================
