---------------------------- MODULE FormatsProofs ----------------------------
(***************************************************************************)
(* What holds of angou's formats for texts of any length: the order of     *)
(* versions, and that the installers share it; lifetimes; that what is     *)
(* written is read back.                                                   *)
(*                                                                         *)
(* The questions of Formats are bounded so that TLC can ask them all; the  *)
(* bounds are constants, and nothing below depends on them.                *)
(***************************************************************************)
EXTENDS Formats, SequenceTheorems, WellFoundedInduction, TLAPS

\* Numbers have a least one wherever there is one: what an index chosen as the
\* first is, and how induction is done here.
LEMMA Least ==
    ASSUME NEW S, S \subseteq Nat, S # {}
    PROVE  \E i \in S : \A j \in S : i <= j
  <1> DEFINE R == OpToRel(<, Nat)
  <1>1. ASSUME NEW x \in Nat, NEW y \in Nat, <<x, y>> \notin R
        PROVE  y <= x
    BY <1>1 DEF OpToRel
  <1>2. IsWellFoundedOn(R, Nat)
    BY NatLessThanWellFounded
  <1> HIDE DEF R
  <1>3. PICK x \in S : \A y \in S : <<y, x>> \notin R
    BY <1>2, WFMin
  <1>4. \A y \in S : x <= y
    BY <1>1, <1>3
  <1> QED
    BY <1>4

\* So the CHOOSE of a least one chooses it.
LEMMA LeastChosen ==
    ASSUME NEW S, S \subseteq Nat, S # {}
    PROVE  LET i == CHOOSE i \in S : \A j \in S : i <= j
           IN  i \in S /\ \A j \in S : i <= j
  BY Least

---------------------------------------------------------------------------
\* The order of versions.

\* The bounded texts the questions are asked about are sequences.
LEMMA Sequences ==
    ASSUME NEW S, NEW m \in Nat, NEW n \in Nat, NEW s \in UpTo(S, m, n)
    PROVE  s \in Seq(S) /\ Len(s) \in m..n
  BY DEF UpTo

\* splitVersion yields numbers.
LEMMA NumbersAreNumbers ==
    ASSUME NEW n \in Nat, NEW a \in Version(n)
    PROVE  Numbers(a) \in Seq(Nat)
  <1> DEFINE stops == {i \in DOMAIN a.num : a.num[i] = Word}
             least == CHOOSE i \in stops : \A j \in stops : i <= j
  <1>1. a.num \in Seq(Parts) /\ \A i \in DOMAIN a.num : a.num[i] \in Nat \cup {Word}
    <2>1. a.num \in UpTo(Parts, 1, n)
      BY DEF Version
    <2>2. a.num \in Seq(Parts)
      BY <2>1, Sequences
    <2>3. Parts \subseteq Nat \cup {Word}
      BY FormatsConstants
    <2>4. \A i \in DOMAIN a.num : a.num[i] \in Parts
      BY <2>2
    <2> QED
      BY <2>2, <2>3, <2>4
  <1>2. DOMAIN a.num = 1..Len(a.num) /\ Len(a.num) \in Nat
    BY <1>1
  <1>3. CASE stops = {}
    BY <1>1, <1>2, <1>3 DEF Numbers
  <1>4. CASE stops # {}
    <2>1. stops \subseteq Nat
      BY <1>2
    <2>2. least \in stops /\ \A j \in stops : least <= j
      BY <1>4, <2>1, LeastChosen
    <2>3. Numbers(a) = SubSeq(a.num, 1, least - 1)
      BY <1>4 DEF Numbers
    <2>4. least \in 1..Len(a.num)
      BY <1>2, <2>2
    <2>5. ASSUME NEW i \in 1..(least - 1)
          PROVE  a.num[i] \in Nat
      <3>1. i \in DOMAIN a.num /\ i \notin stops
        BY <1>2, <2>2, <2>4
      <3> QED
        BY <1>1, <3>1
    <2> HIDE DEF least, stops
    <2> QED
      BY <1>1, <1>2, <2>3, <2>4, <2>5
  <1> QED
    BY <1>3, <1>4

\* A part that is missing counts as a number, 0, as well.
LEMMA PartsAreNumbers ==
    ASSUME NEW s \in Seq(Nat), NEW i
    PROVE  At(s, i) \in Nat
  BY DEF At

\* The first part in which two versions differ is smaller in the first.
Below(s, t) ==
    \E i \in Nat : At(s, i) < At(t, i) /\ \A k \in Nat : k < i => At(s, k) = At(t, k)

Same(s, t) == \A i \in Nat : At(s, i) = At(t, i)

\* Two versions are ordered by the first part in which they differ.
LEMMA BelowIsAnOrder ==
    ASSUME NEW r \in Seq(Nat), NEW s \in Seq(Nat), NEW t \in Seq(Nat)
    PROVE  /\ Below(s, t) => ~Below(t, s) /\ ~Same(s, t) /\ ~Same(t, s)
           /\ Below(r, s) /\ Below(s, t) => Below(r, t)
           /\ Below(r, s) /\ Same(s, t) => Below(r, t)
           /\ Same(r, s) /\ Below(s, t) => Below(r, t)
           /\ Same(r, s) /\ Same(s, t) => Same(r, t)
           /\ Same(s, t) => Same(t, s)
  <1>1. \A i : At(r, i) \in Nat /\ At(s, i) \in Nat /\ At(t, i) \in Nat
    BY PartsAreNumbers
  <1>2. Below(s, t) => ~Below(t, s) /\ ~Same(s, t) /\ ~Same(t, s)
    <2>1. ASSUME NEW i \in Nat, At(s, i) < At(t, i), \A k \in Nat : k < i => At(s, k) = At(t, k),
                 NEW j \in Nat, At(t, j) < At(s, j), \A k \in Nat : k < j => At(t, k) = At(s, k)
          PROVE  FALSE
      <3>1. CASE i < j
        <4>1. At(t, i) = At(s, i) /\ At(s, i) \in Nat
          BY <1>1, <2>1, <3>1
        <4> QED
          BY <2>1, <4>1
      <3>2. CASE j < i
        <4>1. At(s, j) = At(t, j) /\ At(t, j) \in Nat
          BY <1>1, <2>1, <3>2
        <4> QED
          BY <2>1, <4>1
      <3>3. CASE i = j
        <4>1. At(s, i) \in Nat /\ At(t, i) \in Nat
          BY <1>1
        <4> QED
          BY <2>1, <3>3, <4>1
      <3> QED
        BY <3>1, <3>2, <3>3
    <2>2. Below(s, t) => ~Below(t, s)
      BY <2>1 DEF Below
    <2>3. Below(s, t) => ~Same(s, t) /\ ~Same(t, s)
      BY <1>1 DEF Below, Same
    <2> QED
      BY <2>2, <2>3
  <1>3. ASSUME NEW i \in Nat, At(r, i) < At(s, i), \A k \in Nat : k < i => At(r, k) = At(s, k),
               NEW j \in Nat, At(s, j) < At(t, j), \A k \in Nat : k < j => At(s, k) = At(t, k)
        PROVE  Below(r, t)
    <2>1. CASE i <= j
      <3>1. At(r, i) < At(t, i)
        <4>1. At(r, i) \in Nat /\ At(s, i) \in Nat /\ At(t, i) \in Nat
          BY <1>1
        <4>2. At(s, i) <= At(t, i)
          BY <1>3, <2>1, <4>1
        <4> QED
          BY <1>3, <4>1, <4>2
      <3>2. ASSUME NEW k \in Nat, k < i
            PROVE  At(r, k) = At(t, k)
        BY <1>3, <2>1, <3>2
      <3> QED
        BY <1>3, <3>1, <3>2 DEF Below
    <2>2. CASE j < i
      <3>1. At(r, j) < At(t, j) /\ \A k \in Nat : k < j => At(r, k) = At(t, k)
        BY <1>1, <1>3, <2>2
      <3> QED
        BY <3>1 DEF Below
    <2> QED
      BY <2>1, <2>2
  <1>4. Below(r, s) /\ Below(s, t) => Below(r, t)
    BY <1>3 DEF Below
  <1>5. /\ Below(r, s) /\ Same(s, t) => Below(r, t)
        /\ Same(r, s) /\ Below(s, t) => Below(r, t)
    BY DEF Below, Same
  <1> QED
    BY <1>2, <1>4, <1>5 DEF Same

\* The first part in which they differ exists unless they are the same.
LEMMA DifferOrSame ==
    ASSUME NEW s \in Seq(Nat), NEW t \in Seq(Nat)
    PROVE  LET d == Differ(s, t)
               i == CHOOSE j \in d : \A k \in d : j <= k
           IN  /\ d = {} <=> Same(s, t)
               /\ d # {} => IF At(s, i) < At(t, i) THEN Below(s, t) ELSE Below(t, s)
  <1> DEFINE d == Differ(s, t)
             i == CHOOSE j \in d : \A k \in d : j <= k
  <1>1. d \subseteq Nat
    BY DEF Differ
  <1>2. \A k \in Nat : k \notin d => At(s, k) = At(t, k)
    BY DEF Differ, At
  <1>3. \A k \in d : At(s, k) # At(t, k)
    BY DEF Differ
  <1> HIDE DEF d
  <1>4. d = {} <=> Same(s, t)
    BY <1>1, <1>2, <1>3 DEF Same
  <1>5. ASSUME d # {}
        PROVE  IF At(s, i) < At(t, i) THEN Below(s, t) ELSE Below(t, s)
    <2>1. i \in d /\ \A k \in d : i <= k
      BY <1>1, <1>5, LeastChosen
    <2> HIDE DEF i
    <2>2. i \in Nat /\ At(s, i) # At(t, i) /\ At(s, i) \in Nat /\ At(t, i) \in Nat
      BY <1>1, <1>3, <2>1, PartsAreNumbers
    <2>3. \A k \in Nat : k < i => At(s, k) = At(t, k)
      BY <1>1, <1>2, <2>1, <2>2
    <2> QED
      BY <2>2, <2>3 DEF Below
  <1> QED
    BY <1>4, <1>5 DEF d

\* CompareVersions, part by part and then by suffix.
LEMMA Comparing ==
    ASSUME NEW m \in Nat, NEW a \in Version(m), NEW b \in Version(m)
    PROVE  LET s == Numbers(a)
               t == Numbers(b)
           IN  /\ Below(s, t) => CompareVersions(a, b) = -1
               /\ Below(t, s) => CompareVersions(a, b) = 1
               /\ Same(s, t) => CompareVersions(a, b) = IF PreGreater(a.pre, b.pre) THEN 1
                                                        ELSE IF PreGreater(b.pre, a.pre) THEN -1
                                                        ELSE 0
               /\ Below(s, t) \/ Below(t, s) \/ Same(s, t)
  <1> DEFINE s == Numbers(a)
             t == Numbers(b)
             d == Differ(s, t)
             i == CHOOSE j \in d : \A k \in d : j <= k
  <1>1. s \in Seq(Nat) /\ t \in Seq(Nat)
    BY NumbersAreNumbers
  <1>2. CompareVersions(a, b) =
          IF d # {} THEN (IF At(s, i) < At(t, i) THEN -1 ELSE 1)
          ELSE IF PreGreater(a.pre, b.pre) THEN 1
          ELSE IF PreGreater(b.pre, a.pre) THEN -1 ELSE 0
    BY DEF CompareVersions
  <1>3. /\ d = {} <=> Same(s, t)
        /\ d # {} => IF At(s, i) < At(t, i) THEN Below(s, t) ELSE Below(t, s)
    BY <1>1, DifferOrSame
  <1> HIDE DEF s, t, d, i
  <1>4. /\ Below(s, t) => ~Below(t, s) /\ ~Same(s, t)
        /\ Below(t, s) => ~Same(s, t)
    BY <1>1, BelowIsAnOrder
  <1> QED
    BY <1>2, <1>3, <1>4 DEF s, t

\* A release outranks its pre-releases, which are ordered among themselves.
LEMMA SuffixesAreOrdered ==
    ASSUME NEW p \in Nat, NEW q \in Nat, NEW r \in Nat
    PROVE  /\ PreGreater(p, q) => ~PreGreater(q, p)
           /\ ~PreGreater(p, q) /\ ~PreGreater(q, p) => p = q
           /\ PreGreater(p, q) /\ PreGreater(q, r) => PreGreater(p, r)
  BY DEF PreGreater

\* CompareVersions orders versions of any number of parts, well formed or not.
LEMMA VersionOrder ==
    ASSUME NEW m \in Nat, NEW a \in Version(m), NEW b \in Version(m), NEW c \in Version(m)
    PROVE  /\ CompareVersions(a, b) = -CompareVersions(b, a)
           /\ (CompareVersions(a, b) >= 0 /\ CompareVersions(b, c) >= 0) =>
                 /\ CompareVersions(a, c) >= 0
                 /\ CompareVersions(a, c) = 0 =>
                       CompareVersions(a, b) = 0 /\ CompareVersions(b, c) = 0
  <1> DEFINE r == Numbers(a)
             s == Numbers(b)
             t == Numbers(c)
  <1>1. r \in Seq(Nat) /\ s \in Seq(Nat) /\ t \in Seq(Nat)
    BY NumbersAreNumbers
  <1>2. a.pre \in Nat /\ b.pre \in Nat /\ c.pre \in Nat
    <2>1. a.pre \in Pres /\ b.pre \in Pres /\ c.pre \in Pres
      BY DEF Version
    <2> QED
      BY <2>1, FormatsConstants
  <1>3. CompareVersions(a, b) = -CompareVersions(b, a)
    <2>1. Same(r, s) <=> Same(s, r)
      BY DEF Same
    <2> QED
      BY <1>2, <2>1, Comparing, SuffixesAreOrdered
  <1>4. ASSUME CompareVersions(a, b) >= 0, CompareVersions(b, c) >= 0
        PROVE  /\ CompareVersions(a, c) >= 0
               /\ CompareVersions(a, c) = 0 =>
                     CompareVersions(a, b) = 0 /\ CompareVersions(b, c) = 0
    <2>1. Below(s, r) \/ Same(r, s)
      BY <1>4, Comparing
    <2>2. Below(t, s) \/ Same(s, t)
      BY <1>4, Comparing
    <2>3. CASE Below(s, r) \/ Below(t, s)
      <3>1. Below(t, r)
        BY <1>1, <2>1, <2>2, <2>3, BelowIsAnOrder
      <3> QED
        BY <3>1, Comparing
    <2>4. CASE Same(r, s) /\ Same(s, t)
      <3>1. Same(r, t)
        BY <1>1, <2>4, BelowIsAnOrder
      <3> QED
        BY <1>2, <1>4, <2>4, <3>1, Comparing, SuffixesAreOrdered
    <2> QED
      BY <2>1, <2>2, <2>3, <2>4
  <1> QED
    BY <1>3, <1>4

---------------------------------------------------------------------------
\* The installers.

\* The versions releases are given are all numbers, of which there are two to four.
LEMMA ReleaseParts ==
    ASSUME NEW m \in Nat, NEW a \in Version(m), IsReleaseVersion(a)
    PROVE  /\ Numbers(a) = a.num
           /\ DOMAIN a.num \subseteq 1..4
           /\ \A i \in 1..4 : /\ ShellPart(a, i) = At(a.num, i)
                              /\ WindowsPart(a, i) = At(a.num, i)
  <1>1. /\ ~a.v /\ Len(a.num) \in 2..4 /\ \A i \in DOMAIN a.num : a.num[i] # Word
    BY DEF IsReleaseVersion
  <1>2. DOMAIN a.num = 1..Len(a.num)
    <2>1. a.num \in UpTo(Parts, 1, m)
      BY DEF Version
    <2> QED
      BY <2>1, Sequences
  <1>3. Numbers(a) = a.num
    BY <1>1 DEF Numbers
  <1>4. \A i \in 1..4 : At(a.num, i) # Word
    BY <1>1 DEF At, Word
  <1>5. \A i \in 1..4 : ShellPart(a, i) = At(a.num, i) /\ WindowsPart(a, i) = At(a.num, i)
    BY <1>1, <1>4 DEF ShellPart, WindowsPart
  <1> QED
    BY <1>1, <1>2, <1>3, <1>5

\* Four parts are all there is to compare, and they are compared alike.
LEMMA FourPartsSuffice ==
    ASSUME NEW m \in Nat, NEW a \in Version(m), NEW b \in Version(m),
           IsReleaseVersion(a), IsReleaseVersion(b),
           NEW s, s = [i \in 1..4 |-> At(a.num, i)], NEW t, t = [i \in 1..4 |-> At(b.num, i)]
    PROVE  Greater(s, t, PreGreater(a.pre, b.pre)) = (CompareVersions(a, b) = 1)
  <1> DEFINE d == {i \in 1..4 : s[i] # t[i]}
             i == CHOOSE j \in d : \A k \in d : j <= k
  <1>1. /\ Numbers(a) = a.num /\ Numbers(b) = b.num
        /\ DOMAIN a.num \cup DOMAIN b.num \subseteq 1..4
    BY ReleaseParts
  <1>2. d = Differ(a.num, b.num)
    BY <1>1 DEF Differ, At
  <1>3. a.num \in Seq(Nat) /\ b.num \in Seq(Nat)
    BY <1>1, NumbersAreNumbers
  <1>4. Greater(s, t, PreGreater(a.pre, b.pre)) = IF d # {} THEN s[i] > t[i] ELSE PreGreater(a.pre, b.pre)
    BY DEF Greater
  <1>5. CompareVersions(a, b) =
          IF d # {} THEN (IF At(a.num, i) < At(b.num, i) THEN -1 ELSE 1)
          ELSE IF PreGreater(a.pre, b.pre) THEN 1
          ELSE IF PreGreater(b.pre, a.pre) THEN -1 ELSE 0
    BY <1>1, <1>2 DEF CompareVersions
  <1>6. CASE d = {}
    <2>1. PreGreater(a.pre, b.pre) \in BOOLEAN
      BY DEF PreGreater
    <2> HIDE DEF i, d
    <2>2. CASE PreGreater(a.pre, b.pre)
      BY <1>4, <1>5, <1>6, <2>2
    <2>3. CASE ~PreGreater(a.pre, b.pre)
      <3>1. CompareVersions(a, b) # 1
        BY <1>5, <1>6, <2>3
      <3>2. ~Greater(s, t, PreGreater(a.pre, b.pre))
        BY <1>4, <1>6, <2>3
      <3>3. Greater(s, t, PreGreater(a.pre, b.pre)) \in BOOLEAN
        BY <1>4, <1>6, <2>1
      <3> QED
        BY <3>1, <3>2, <3>3
    <2> QED
      BY <2>2, <2>3
  <1>7. CASE d # {}
    <2>1. d \subseteq Nat
      OBVIOUS
    <2>2. i \in d
      BY <1>7, <2>1, LeastChosen
    <2>3. i \in 1..4 /\ s[i] = At(a.num, i) /\ t[i] = At(b.num, i) /\ s[i] # t[i]
      BY <2>2
    <2>4. s[i] \in Nat /\ t[i] \in Nat
      BY <1>3, <2>3, PartsAreNumbers
    <2> HIDE DEF i, d
    <2> QED
      BY <1>4, <1>5, <1>7, <2>3, <2>4
  <1> QED
    BY <1>6, <1>7

\* Both installers see those parts.
LEMMA InstallersSeeThem ==
    ASSUME NEW m \in Nat, NEW a \in Version(m), IsReleaseVersion(a)
    PROVE  /\ Four(ShellPart, a) = [i \in 1..4 |-> At(a.num, i)]
           /\ Four(WindowsPart, a) = [i \in 1..4 |-> At(a.num, i)]
  BY ReleaseParts DEF Four

---------------------------------------------------------------------------
\* Lifetimes.

\* What the word holds is not changed by it.
LEMMA WrapFits ==
    ASSUME NEW n \in (-Word64)..Word64
    PROVE  Wrap(n) = n
  <1>1. Word64 \in Nat
    BY FormatsConstants
  <1> DEFINE w == 2 * (Word64 + 1)
             x == n + Word64 + 1
  <1>2. w \in Nat /\ x \in 0..(w - 1) /\ w > 0
    BY <1>1
  <1>3. x % w = x
    BY <1>2
  <1> QED
    BY <1>1, <1>3 DEF Wrap

\* A lifetime is what was asked for unless a multiplication leaves the word.
LEMMA LifetimeIsExact ==
    ASSUME NEW n \in (-Word64)..Word64, NEW unit \in {"none", "s", "h", "d", "w"}
    PROVE  LET r == ParseDuration(n, unit)
               hours == n * (IF unit \in DOMAIN Hours THEN Hours[unit] ELSE 0)
               exact == CASE unit = "none" -> n * Second
                          [] unit \in DOMAIN Hours -> hours * Hour
                          [] OTHER -> n * Unit[unit]
               fits == hours \in (-Word64)..Word64 /\ (unit = "none" => exact \in (-Word64)..Word64)
           IN  /\ r.ok => r.ticks > 0
               /\ fits => /\ r.ok <=> exact \in 1..Word64
                          /\ r.ok => r.ticks = exact
  <1>1. Word64 \in Nat /\ Second \in Nat /\ Hour \in Nat /\ n \in Int
    <2>1. Word64 \in Nat /\ Second \in Nat /\ Hour \in Nat
      BY FormatsConstants
    <2> QED
      BY <2>1
  <1>2. /\ DOMAIN Hours = {"d", "w"} /\ Hours["d"] = 2 /\ Hours["w"] = 6
        /\ Unit["s"] = Second /\ Unit["h"] = Hour
    BY DEF Hours, Unit
  <1>3. ASSUME NEW k \in Int, NEW u \in {"s", "h"}
        PROVE  /\ k * Unit[u] \in Int
               /\ ParseStandard(k, u) = IF k * Unit[u] \in (-Word64)..Word64 THEN k * Unit[u] ELSE 0
    <2>1. Unit[u] \in Int
      BY <1>1, <1>2
    <2>2. k * Unit[u] \in Int
      BY <2>1
    <2> DEFINE ticks == k * Unit[u]
    <2>3. ParseStandard(k, u) = IF ticks > Word64 \/ ticks < -Word64 THEN 0 ELSE ticks
      BY DEF ParseStandard
    <2>4. ticks \in Int
      BY <2>2
    <2> HIDE DEF ticks
    <2>5. (ticks > Word64 \/ ticks < -Word64) <=> ticks \notin (-Word64)..Word64
      BY <1>1, <2>4
    <2> QED
      BY <2>2, <2>3, <2>5 DEF ticks
  <1> DEFINE r == ParseDuration(n, unit)
             hours == n * (IF unit \in DOMAIN Hours THEN Hours[unit] ELSE 0)
             exact == CASE unit = "none" -> n * Second
                        [] unit \in DOMAIN Hours -> hours * Hour
                        [] OTHER -> n * Unit[unit]
             fits == hours \in (-Word64)..Word64 /\ (unit = "none" => exact \in (-Word64)..Word64)
             ticks == Ticks(n, unit)
  <1>4. r.ok = (ticks > 0) /\ r.ticks = ticks
    BY DEF ParseDuration
  <1>5. ASSUME NEW x \in Int
        PROVE  LET y == IF x \in (-Word64)..Word64 THEN x ELSE 0
               IN  ((y > 0) <=> x \in 1..Word64) /\ ((y > 0) => y = x)
    BY <1>1
  <1>6. CASE unit = "none"
    <2>1. exact = n * Second /\ exact \in Int
      BY <1>1, <1>2, <1>6
    <2>2. ticks = Wrap(exact)
      BY <1>2, <1>6, <2>1 DEF Ticks
    <2>3. exact \in (-Word64)..Word64 => ticks = exact
      BY <2>2, WrapFits
    <2>4. fits => exact \in (-Word64)..Word64
      BY <1>6
    <2> HIDE DEF exact, fits, r, ticks
    <2>5. fits => ((ticks > 0) <=> exact \in 1..Word64) /\ ((ticks > 0) => ticks = exact)
      BY <1>1, <2>1, <2>3, <2>4
    <2> QED
      BY <1>4, <2>5 DEF exact, fits, r
  <1>7. CASE unit \in {"s", "h"}
    <2>1. exact = n * Unit[unit] /\ exact \in Int
      BY <1>1, <1>2, <1>3, <1>7
    <2>2. ticks = ParseStandard(n, unit)
      BY <1>2, <1>7 DEF Ticks
    <2>3. ticks = IF exact \in (-Word64)..Word64 THEN exact ELSE 0
      BY <1>1, <1>3, <1>7, <2>1, <2>2
    <2> HIDE DEF exact, fits, r, ticks
    <2>4. ((ticks > 0) <=> exact \in 1..Word64) /\ ((ticks > 0) => ticks = exact)
      BY <1>5, <2>1, <2>3
    <2> QED
      BY <1>4, <2>4 DEF exact, fits, r
  <1>8. CASE unit \in {"d", "w"}
    <2>1. hours = n * Hours[unit] /\ hours \in Int
      BY <1>1, <1>2, <1>8
    <2>2. exact = hours * Hour /\ exact \in Int
      BY <1>1, <1>2, <1>8, <2>1
    <2>3. ticks = ParseStandard(Wrap(hours), "h")
      BY <1>2, <1>8, <2>1 DEF Ticks
    <2>4. fits => Wrap(hours) = hours
      BY WrapFits
    <2>5. fits => ticks = IF exact \in (-Word64)..Word64 THEN exact ELSE 0
      BY <1>2, <1>3, <2>1, <2>2, <2>3, <2>4
    <2> HIDE DEF exact, fits, r, ticks
    <2>6. fits => ((ticks > 0) <=> exact \in 1..Word64) /\ ((ticks > 0) => ticks = exact)
      BY <1>5, <2>2, <2>5
    <2> QED
      BY <1>4, <2>6 DEF exact, fits, r
  <1> QED
    BY <1>6, <1>7, <1>8

---------------------------------------------------------------------------
\* What is written is read back.

\* A text in three pieces: where each of them stands.
LEMMA ThreePieces ==
    ASSUME NEW T, NEW x \in Seq(T), NEW y \in Seq(T), NEW z \in Seq(T)
    PROVE  LET raw == (x \o y) \o z
           IN  /\ raw \in Seq(T)
               /\ Len(raw) = Len(x) + Len(y) + Len(z)
               /\ \A i \in 1..Len(x) : raw[i] = x[i]
               /\ \A i \in 1..Len(y) : raw[Len(x) + i] = y[i]
               /\ \A i \in 1..Len(z) : raw[Len(x) + Len(y) + i] = z[i]
  <1>1. PICK p : p = x \o y
    OBVIOUS
  <1>2. PICK raw : raw = p \o z
    OBVIOUS
  <1>3. PICK l \in Nat, m \in Nat, n \in Nat : l = Len(x) /\ m = Len(y) /\ n = Len(z)
    OBVIOUS
  <1>4. /\ p \in Seq(T) /\ Len(p) = l + m
        /\ \A i \in 1..(l + m) : p[i] = IF i <= l THEN x[i] ELSE y[i - l]
    BY <1>1, <1>3, ConcatProperties
  <1>5. /\ raw \in Seq(T) /\ Len(raw) = l + m + n
        /\ \A i \in 1..(l + m + n) : raw[i] = IF i <= l + m THEN p[i] ELSE z[i - (l + m)]
    <2>1. p \in Seq(T)
      BY <1>4
    <2>2. /\ p \o z \in Seq(T) /\ Len(p \o z) = Len(p) + Len(z)
          /\ \A i \in 1..(Len(p) + Len(z)) :
                (p \o z)[i] = IF i <= Len(p) THEN p[i] ELSE z[i - Len(p)]
      BY <2>1, ConcatProperties
    <2> QED
      BY <1>2, <1>3, <1>4, <2>2
  <1>6. \A i \in 1..l : raw[i] = x[i]
    BY <1>4, <1>5
  <1>7. ASSUME NEW i \in 1..m
        PROVE  raw[l + i] = y[i]
    <2>1. l + i \in 1..(l + m) /\ ~(l + i <= l) /\ l + i - l = i
      OBVIOUS
    <2>2. raw[l + i] = p[l + i]
      BY <1>5, <2>1
    <2> QED
      BY <1>4, <2>1, <2>2
  <1>8. ASSUME NEW i \in 1..n
        PROVE  raw[l + m + i] = z[i]
    <2>1. l + m + i \in 1..(l + m + n) /\ ~(l + m + i <= l + m) /\ l + m + i - (l + m) = i
      OBVIOUS
    <2> QED
      BY <1>5, <2>1
  <1> QED
    BY <1>1, <1>2, <1>3, <1>5, <1>6, <1>7, <1>8

\* A blob, place by place.
LaidOut(raw, payload, encoding) ==
    /\ \E T : raw \in Seq(T)
    /\ Len(raw) = Len(payload) + 10
    /\ raw[1] = "begin" /\ raw[2] = NL /\ raw[3] = "format" /\ raw[4] = NL
    /\ raw[5] = encoding /\ raw[6] = NL /\ raw[7] = NL
    /\ \A i \in 1..Len(payload) : raw[7 + i] = payload[i]
    /\ raw[Len(payload) + 8] = NL /\ raw[Len(payload) + 9] = "end" /\ raw[Len(payload) + 10] = NL

\* What Marshal writes is laid out so.
LEMMA Written ==
    ASSUME NEW S, NEW payload \in Seq(S), NEW encoding \in Encodings
    PROVE  LaidOut(Marshal(payload, encoding), payload, encoding)
  <1>n. PICK n \in Nat : n = Len(payload)
    OBVIOUS
  <1> DEFINE T == S \cup {"begin", "format", "end", NL, encoding}
  <1>1. PICK h : h = <<"begin", NL, "format", NL, encoding, NL, NL>>
    OBVIOUS
  <1>2. PICK e : e = <<NL, "end", NL>>
    OBVIOUS
  <1>3. PICK raw : raw = (h \o payload) \o e
    OBVIOUS
  <1>4. Marshal(payload, encoding) = raw
    BY <1>1, <1>2, <1>3 DEF Marshal
  <1>5. h \in Seq(T) /\ e \in Seq(T) /\ payload \in Seq(T)
    BY <1>1, <1>2
  <1>6. /\ Len(h) = 7 /\ h[1] = "begin" /\ h[2] = NL /\ h[3] = "format" /\ h[4] = NL
        /\ h[5] = encoding /\ h[6] = NL /\ h[7] = NL
    BY <1>1
  <1>7. Len(e) = 3 /\ e[1] = NL /\ e[2] = "end" /\ e[3] = NL
    BY <1>2
  <1> HIDE DEF T
  <1>8. /\ raw \in Seq(T) /\ Len(raw) = 7 + n + 3
        /\ \A i \in 1..7 : raw[i] = h[i]
        /\ \A i \in 1..n : raw[7 + i] = payload[i]
        /\ \A i \in 1..3 : raw[7 + n + i] = e[i]
    <2>1. h \in Seq(T) /\ payload \in Seq(T) /\ e \in Seq(T)
      BY <1>5
    <2>2. /\ raw \in Seq(T) /\ Len(raw) = Len(h) + Len(payload) + Len(e)
          /\ \A i \in 1..Len(h) : raw[i] = h[i]
          /\ \A i \in 1..Len(payload) : raw[Len(h) + i] = payload[i]
          /\ \A i \in 1..Len(e) : raw[Len(h) + Len(payload) + i] = e[i]
      BY <1>3, <2>1, ThreePieces, SMTT(60)
    <2> QED
      BY <1>6, <1>7, <1>n, <2>2
  <1>9. raw[7 + n + 1] = NL /\ raw[7 + n + 2] = "end" /\ raw[7 + n + 3] = NL
    BY <1>7, <1>8
  <1>10. 7 + n + 1 = n + 8 /\ 7 + n + 2 = n + 9 /\ 7 + n + 3 = n + 10
    OBVIOUS
  <1>11. /\ raw[1] = "begin" /\ raw[2] = NL /\ raw[3] = "format" /\ raw[4] = NL
         /\ raw[5] = encoding /\ raw[6] = NL /\ raw[7] = NL
    BY <1>6, <1>8
  <1>12. raw[n + 8] = NL /\ raw[n + 9] = "end" /\ raw[n + 10] = NL /\ Len(raw) = n + 10
    BY <1>8, <1>9, <1>10
  <1> QED
    BY <1>4, <1>8, <1>11, <1>12, <1>n DEF LaidOut

\* What Unmarshal reads of it, whatever the payload is made of.
LEMMA ReadBack ==
    ASSUME NEW S, NEW payload \in Seq(S), NEW encoding \in Encodings
    PROVE  Unmarshal(Marshal(payload, encoding)) =
              [ok |-> TRUE, payload |-> payload, encoding |-> encoding]
  <1>1. PICK n \in Nat : n = Len(payload)
    OBVIOUS
  <1>2. PICK raw : raw = Marshal(payload, encoding)
    OBVIOUS
  <1>3. /\ \E T : raw \in Seq(T)
        /\ Len(raw) = n + 10
        /\ raw[1] = "begin" /\ raw[2] = NL /\ raw[3] = "format" /\ raw[4] = NL
        /\ raw[5] = encoding /\ raw[6] = NL /\ raw[7] = NL
        /\ \A i \in 1..n : raw[7 + i] = payload[i]
        /\ raw[n + 8] = NL /\ raw[n + 9] = "end" /\ raw[n + 10] = NL
    <2>1. LaidOut(raw, payload, encoding)
      BY <1>2, Written
    <2> QED
      BY <1>1, <2>1 DEF LaidOut
  <1>t. PICK T : raw \in Seq(T)
    BY <1>3
  <1>4. "format" # NL /\ "end" # NL /\ encoding # NL /\ encoding # "format" /\ "format" \notin Encodings
    BY DEF Encodings, NL
  <1> DEFINE body == SubSeq(raw, 3, Len(raw))
  <1>6. body \in Seq(T) /\ Len(body) = n + 8 /\ \A i \in 1..(n + 8) : body[i] = raw[i + 2]
    <2>1. \A i \in 3..(n + 10) : raw[i] \in T
      BY <1>3, <1>t
    <2>2. /\ SubSeq(raw, 3, n + 10) \in Seq(T)
          /\ Len(SubSeq(raw, 3, n + 10)) = IF 3 <= n + 10 THEN n + 10 - 3 + 1 ELSE 0
          /\ \A i \in 1..(n + 10 - 3 + 1) : SubSeq(raw, 3, n + 10)[i] = raw[3 + i - 1]
      BY <2>1, SubSeqProperties
    <2>3. body = SubSeq(raw, 3, n + 10)
      BY <1>3
    <2> HIDE DEF body
    <2>4. \A i \in 1..(n + 8) : i \in 1..(n + 10 - 3 + 1) /\ 3 + i - 1 = i + 2
      OBVIOUS
    <2> QED
      BY <2>2, <2>3, <2>4
  <1> HIDE DEF body
  <1>7. /\ body[1] = "format" /\ body[2] = NL /\ body[3] = encoding /\ body[4] = NL /\ body[5] = NL
        /\ \A i \in 1..n : body[5 + i] = payload[i]
        /\ body[n + 6] = NL /\ body[n + 7] = "end" /\ body[n + 8] = NL
    <2>1. ASSUME NEW i \in 1..n
          PROVE  body[5 + i] = payload[i]
      <3>1. 5 + i \in 1..(n + 8) /\ 5 + i + 2 = 7 + i
        OBVIOUS
      <3>2. body[5 + i] = raw[7 + i]
        BY <1>6, <3>1
      <3> QED
        BY <1>3, <3>2
    <2>2. n + 6 \in 1..(n + 8) /\ n + 7 \in 1..(n + 8) /\ n + 8 \in 1..(n + 8)
      OBVIOUS
    <2>3. body[n + 6] = raw[n + 6 + 2] /\ body[n + 7] = raw[n + 7 + 2] /\ body[n + 8] = raw[n + 8 + 2]
      BY <1>6, <2>2
    <2>4. body[n + 6] = raw[n + 8] /\ body[n + 7] = raw[n + 9] /\ body[n + 8] = raw[n + 10]
      BY <2>3
    <2> QED
      BY <1>3, <1>6, <2>1, <2>4
  <1> DEFINE seps == {i \in 1..(Len(body) - 1) : body[i] = NL /\ body[i + 1] = NL}
             sep  == CHOOSE i \in seps : \A j \in seps : i <= j
  <1>8. seps # {} /\ sep = 4
    <2>1. 4 \in seps
      BY <1>6, <1>7
    <2>2. ASSUME NEW j \in seps
          PROVE  4 <= j
      <3>1. j \in 1..(n + 7) /\ body[j] = NL /\ body[j + 1] = NL
        BY <1>6
      <3>2. j # 1
        BY <1>4, <1>7, <3>1
      <3>3. j # 2
        BY <1>4, <1>7, <3>1
      <3>4. j # 3
        BY <1>4, <1>7, <3>1
      <3> QED
        BY <3>1, <3>2, <3>3, <3>4
    <2>3. seps \subseteq Nat
      BY <1>6
    <2> HIDE DEF seps
    <2>4. sep \in seps /\ \A j \in seps : sep <= j
      BY <2>1, <2>2
    <2>5. sep <= 4 /\ 4 <= sep /\ sep \in Nat
      BY <2>1, <2>2, <2>3, <2>4
    <2> QED
      BY <2>1, <2>5
  <1> HIDE DEF seps, sep
  <1> DEFINE head == {body[i] : i \in 1..(sep - 1)} \ {NL}
  <1>9. head = {"format", encoding}
    <2>1. 1..(sep - 1) = {1, 2, 3}
      BY <1>8
    <2> QED
      BY <1>4, <1>7, <2>1
  <1> HIDE DEF head
  <1>10. /\ \E e \in Encodings : head = {"format", e}
         /\ (CHOOSE e \in Encodings : e \in head) = encoding
    BY <1>4, <1>9
  <1> DEFINE rest == SubSeq(body, sep + 2, Len(body))
  <1>12. rest \in Seq(T) /\ Len(rest) = n + 3 /\ \A i \in 1..(n + 3) : rest[i] = body[5 + i]
    <2>1. \A i \in 6..(n + 8) : body[i] \in T
      BY <1>6
    <2>2. /\ SubSeq(body, 6, n + 8) \in Seq(T)
          /\ Len(SubSeq(body, 6, n + 8)) = IF 6 <= n + 8 THEN n + 8 - 6 + 1 ELSE 0
          /\ \A i \in 1..(n + 8 - 6 + 1) : SubSeq(body, 6, n + 8)[i] = body[6 + i - 1]
      BY <2>1, SubSeqProperties
    <2>3. rest = SubSeq(body, 6, n + 8)
      BY <1>6, <1>8
    <2> HIDE DEF rest
    <2>4. \A i \in 1..(n + 3) : i \in 1..(n + 8 - 6 + 1) /\ 6 + i - 1 = 5 + i
      OBVIOUS
    <2> QED
      BY <2>2, <2>3, <2>4
  <1> HIDE DEF rest
  <1>13. /\ \A i \in 1..n : rest[i] = payload[i]
         /\ rest[n + 1] = NL /\ rest[n + 2] = "end" /\ rest[n + 3] = NL
    <2>1. ASSUME NEW i \in 1..n
          PROVE  rest[i] = payload[i]
      <3>1. i \in 1..(n + 3)
        OBVIOUS
      <3>2. rest[i] = body[5 + i]
        BY <1>12, <3>1
      <3> QED
        BY <1>7, <3>2
    <2>2. n + 1 \in 1..(n + 3) /\ n + 2 \in 1..(n + 3) /\ n + 3 \in 1..(n + 3)
      OBVIOUS
    <2>3. rest[n + 1] = body[5 + (n + 1)] /\ rest[n + 2] = body[5 + (n + 2)] /\ rest[n + 3] = body[5 + (n + 3)]
      BY <1>12, <2>2
    <2>4. 5 + (n + 1) = n + 6 /\ 5 + (n + 2) = n + 7 /\ 5 + (n + 3) = n + 8
      OBVIOUS
    <2> QED
      BY <1>7, <2>1, <2>3, <2>4
  <1> DEFINE ends == {i \in DOMAIN rest : rest[i] = "end"}
             end  == CHOOSE i \in ends : \A j \in ends : i >= j
  <1>14. DOMAIN rest = 1..(n + 3)
    BY <1>12
  <1>15. ends # {} /\ end = n + 2
    <2>1. n + 2 \in ends
      BY <1>13, <1>14
    <2>2. ASSUME NEW j \in ends
          PROVE  n + 2 >= j
      <3>1. j \in 1..(n + 3) /\ j # n + 3
        BY <1>4, <1>13, <1>14
      <3> QED
        BY <3>1
    <2>3. ends \subseteq Nat
      BY <1>14
    <2> HIDE DEF ends
    <2>4. end \in ends /\ \A j \in ends : end >= j
      BY <2>1, <2>2
    <2>5. end <= n + 2 /\ n + 2 <= end /\ end \in Nat
      BY <2>1, <2>2, <2>3, <2>4
    <2> QED
      BY <2>1, <2>5
  <1> HIDE DEF ends, end
  <1>16. end > 1 /\ rest[end - 1] = NL
    <2>1. n + 2 > 1 /\ n + 2 - 1 = n + 1
      OBVIOUS
    <2> QED
      BY <1>13, <1>15, <2>1
  <1>17. SubSeq(rest, 1, end - 2) = payload
    <2>1. end - 2 = n
      BY <1>15
    <2>2. \A i \in 1..n : rest[i] \in S
      BY <1>1, <1>13
    <2>3. /\ SubSeq(rest, 1, n) \in Seq(S)
          /\ Len(SubSeq(rest, 1, n)) = IF 1 <= n THEN n - 1 + 1 ELSE 0
          /\ \A i \in 1..(n - 1 + 1) : SubSeq(rest, 1, n)[i] = rest[1 + i - 1]
      BY <2>2, SubSeqProperties
    <2>4. PICK q : q = SubSeq(rest, 1, n)
      OBVIOUS
    <2>5. q \in Seq(S) /\ Len(q) = n
      BY <2>3, <2>4
    <2>6. \A i \in 1..n : i \in 1..(n - 1 + 1) /\ 1 + i - 1 = i
      OBVIOUS
    <2>7. \A i \in 1..n : q[i] = payload[i]
      BY <1>13, <2>3, <2>4, <2>6
    <2>8. q = payload
      BY <1>1, <2>5, <2>7, SeqEqual
    <2> QED
      BY <2>1, <2>4, <2>8
  <1>18. Unmarshal(raw) =
           IF /\ Len(raw) >= 2 /\ raw[1] = "begin" /\ raw[2] = NL
              /\ seps # {} /\ ends # {}
              /\ end > 1 /\ rest[end - 1] = NL
              /\ \E e \in Encodings : head = {"format", e}
           THEN [ok |-> TRUE, payload |-> SubSeq(rest, 1, end - 2),
                 encoding |-> CHOOSE e \in Encodings : e \in head]
           ELSE Refused
    BY DEF Unmarshal, body, seps, sep, head, rest, ends, end
  <1>19. Len(raw) >= 2
    BY <1>3
  <1> QED
    BY <1>2, <1>3, <1>8, <1>10, <1>15, <1>16, <1>17, <1>18, <1>19

\* The part of a text behind its first pieces.
LEMMA Behind ==
    ASSUME NEW T, NEW s \in Seq(T), NEW k \in Nat, k <= Len(s)
    PROVE  /\ SubSeq(s, k + 1, Len(s)) \in Seq(T)
           /\ Len(SubSeq(s, k + 1, Len(s))) = Len(s) - k
           /\ \A i \in 1..(Len(s) - k) : SubSeq(s, k + 1, Len(s))[i] = s[k + i]
  <1>1. PICK n \in Nat : n = Len(s)
    OBVIOUS
  <1>2. \A i \in (k + 1)..n : s[i] \in T
    BY <1>1
  <1>3. /\ SubSeq(s, k + 1, n) \in Seq(T)
        /\ Len(SubSeq(s, k + 1, n)) = IF k + 1 <= n THEN n - (k + 1) + 1 ELSE 0
        /\ \A i \in 1..(n - (k + 1) + 1) : SubSeq(s, k + 1, n)[i] = s[k + 1 + i - 1]
    BY <1>2, SubSeqProperties
  <1>4. \A i \in 1..(n - k) : i \in 1..(n - (k + 1) + 1) /\ k + 1 + i - 1 = k + i
    OBVIOUS
  <1>5. (IF k + 1 <= n THEN n - (k + 1) + 1 ELSE 0) = n - k
    BY <1>1
  <1> QED
    BY <1>1, <1>3, <1>4, <1>5

\* A stashed binary's name is taken apart as it was put together, dashes in its
\* version and all, unless the system is called as the second word of a kind.
LEMMA NameReadBack ==
    ASSUME NEW S, NEW version \in Seq(S), version # <<>>,
           NEW kind \in {<<"angou">>, <<"angou", "gui">>}, NEW os, os # "gui", NEW arch
    PROVE  ParseBinaryName(BinaryName(kind, os, arch, version)) =
              [ok |-> TRUE, kind |-> kind, os |-> os, arch |-> arch, version |-> version]
  <1> DEFINE T == S \cup {"angou", "gui", os, arch}
  <1>1. PICK middle : middle = <<os, arch>>
    OBVIOUS
  <1>2. PICK name : name = (kind \o middle) \o version
    OBVIOUS
  <1>3. BinaryName(kind, os, arch, version) = name
    BY <1>1, <1>2 DEF BinaryName
  <1>4. kind \in Seq(T) /\ middle \in Seq(T) /\ version \in Seq(T)
    <2>1. middle \in Seq(T)
      BY <1>1
    <2>2. version \in Seq(T)
      OBVIOUS
    <2>3. CASE kind = <<"angou">>
      BY <2>1, <2>2, <2>3
    <2>4. CASE kind = <<"angou", "gui">>
      BY <2>1, <2>2, <2>4
    <2> QED
      BY <2>3, <2>4
  <1>5. Len(middle) = 2 /\ middle[1] = os /\ middle[2] = arch
    BY <1>1
  <1>6. PICK k \in 1..2, n \in Nat \ {0} : k = Len(kind) /\ n = Len(version)
    <2>1. Len(kind) \in 1..2
      OBVIOUS
    <2>2. Len(version) \in Nat \ {0}
      OBVIOUS
    <2> QED
      BY <2>1, <2>2
  <1> HIDE DEF T
  <1>7. /\ name \in Seq(T) /\ Len(name) = k + 2 + n
        /\ \A i \in 1..k : name[i] = kind[i]
        /\ name[k + 1] = os /\ name[k + 2] = arch
        /\ \A i \in 1..n : name[k + 2 + i] = version[i]
    <2>1. kind \in Seq(T) /\ middle \in Seq(T) /\ version \in Seq(T)
      BY <1>4
    <2>2. /\ name \in Seq(T) /\ Len(name) = Len(kind) + Len(middle) + Len(version)
          /\ \A i \in 1..Len(kind) : name[i] = kind[i]
          /\ \A i \in 1..Len(middle) : name[Len(kind) + i] = middle[i]
          /\ \A i \in 1..Len(version) : name[Len(kind) + Len(middle) + i] = version[i]
      BY <1>2, <2>1, ThreePieces, SMTT(60)
    <2>3. name[k + 1] = os /\ name[k + 2] = arch
      BY <1>5, <1>6, <2>2
    <2> QED
      BY <1>5, <1>6, <2>2, <2>3
  <1>8. KindOf(name) = kind
    <2>1. Len(name) >= 2
      BY <1>6, <1>7
    <2>2. CASE kind = <<"angou">>
      <3>1. k = 1
        BY <1>6, <2>2
      <3>2. name[2] # "gui"
        BY <1>7, <3>1
      <3> QED
        BY <2>2, <3>2 DEF KindOf
    <2>3. CASE kind = <<"angou", "gui">>
      <3>1. k = 2 /\ kind[2] = "gui"
        BY <1>6, <2>3
      <3>2. name[2] = "gui"
        BY <1>7, <3>1
      <3> QED
        BY <2>1, <2>3, <3>2 DEF KindOf
    <2> QED
      BY <2>2, <2>3
  <1> DEFINE rest == SubSeq(name, Len(kind) + 1, Len(name))
  <1>9. /\ rest \in Seq(T) /\ Len(rest) = n + 2
        /\ \A i \in 1..(n + 2) : rest[i] = name[k + i]
    <2>1. name \in Seq(T) /\ k \in Nat /\ k <= Len(name)
      BY <1>6, <1>7
    <2>2. /\ SubSeq(name, k + 1, Len(name)) \in Seq(T)
          /\ Len(SubSeq(name, k + 1, Len(name))) = Len(name) - k
          /\ \A i \in 1..(Len(name) - k) : SubSeq(name, k + 1, Len(name))[i] = name[k + i]
      BY <2>1, Behind
    <2>3. rest = SubSeq(name, k + 1, Len(name))
      BY <1>6
    <2>4. Len(name) - k = n + 2
      BY <1>6, <1>7
    <2> HIDE DEF rest
    <2> QED
      BY <2>2, <2>3, <2>4
  <1> HIDE DEF rest
  <1>10. At(rest, 1) = os /\ At(rest, 2) = arch
    <2>1. 1 \in DOMAIN rest /\ 2 \in DOMAIN rest
      BY <1>6, <1>9
    <2>2. rest[1] = name[k + 1] /\ rest[2] = name[k + 2]
      BY <1>6, <1>9
    <2> QED
      BY <1>7, <2>1, <2>2 DEF At
  <1>11. SubSeq(rest, 3, Len(rest)) = version
    <2>1. PICK q : q = SubSeq(rest, 2 + 1, Len(rest))
      OBVIOUS
    <2>2. rest \in Seq(T) /\ 2 \in Nat /\ 2 <= Len(rest)
      BY <1>6, <1>9
    <2>3. /\ q \in Seq(T)
          /\ Len(q) = Len(rest) - 2
          /\ \A i \in 1..(Len(rest) - 2) : q[i] = rest[2 + i]
      BY <2>1, <2>2, Behind
    <2>4. Len(q) = n
      BY <1>6, <1>9, <2>3
    <2>5. ASSUME NEW i \in 1..n
          PROVE  q[i] = version[i]
      <3>1. i \in 1..(Len(rest) - 2) /\ 2 + i \in 1..(n + 2) /\ k + (2 + i) = k + 2 + i
        BY <1>6, <1>9
      <3>2. q[i] = rest[2 + i] /\ rest[2 + i] = name[k + (2 + i)]
        BY <1>9, <2>3, <3>1
      <3> QED
        BY <1>7, <3>1, <3>2
    <2>6. version \in Seq(T)
      BY <1>4
    <2>7. q = version
      BY <1>6, <2>3, <2>4, <2>5, <2>6, SeqEqual
    <2> QED
      BY <2>1, <2>7
  <1>12. Len(rest) >= 3
    BY <1>6, <1>9
  <1>13. ParseBinaryName(name) =
           [ok |-> Len(rest) >= 3, kind |-> kind, os |-> At(rest, 1), arch |-> At(rest, 2),
            version |-> SubSeq(rest, 3, Len(rest))]
    BY <1>8 DEF ParseBinaryName, rest
  <1> QED
    BY <1>3, <1>10, <1>11, <1>12, <1>13

---------------------------------------------------------------------------
\* The names of files.

\* What is left of a cleaned path: segments that say where to go, and nothing else.
Names == Segments \ {"nothing", ".", ".."}

\* One segment more leaves a cleaned path clean.
LEMMA CleanedIsClean ==
    ASSUME NEW done \in Seq(Names), NEW s \in Segments
    PROVE  Cleaned(done, s) \in Seq(Names)
  <1>1. CASE s \in {"nothing", "."}
    BY <1>1 DEF Cleaned
  <1>2. CASE s = ".."
    <2>1. Cleaned(done, s) = SubSeq(done, 1, Len(done) - 1)
      BY <1>2 DEF Cleaned
    <2>2. \A i \in 1..(Len(done) - 1) : done[i] \in Names
      OBVIOUS
    <2> QED
      BY <2>1, <2>2, SubSeqProperties
  <1>3. CASE s \in Names
    <2>1. Cleaned(done, s) = Append(done, s)
      BY <1>3 DEF Cleaned, Names
    <2> QED
      BY <1>3, <2>1
  <1> QED
    BY <1>1, <1>2, <1>3 DEF Names

\* The fold exists, of any length.
LEMMA CleaningEnds ==
    ASSUME NEW seg, NEW n \in Nat
    PROVE  \E f : f = [i \in 0..n |-> IF i = 0 THEN <<>> ELSE Cleaned(f[i - 1], seg[i])]
  <1> DEFINE IsFold(f, m) == f = [i \in 0..m |-> IF i = 0 THEN <<>> ELSE Cleaned(f[i - 1], seg[i])]
             bad == {m \in Nat : ~\E f : IsFold(f, m)}
  <1>1. ASSUME bad # {}
        PROVE  FALSE
    <2>1. PICK m \in bad : \A j \in bad : m <= j
      BY <1>1, Least
    <2>2. CASE m = 0
      <3> DEFINE g == [i \in 0..0 |-> <<>>]
      <3>1. IsFold(g, 0)
        <4>1. \A i \in 0..0 : i = 0
          OBVIOUS
        <4>2. [i \in 0..0 |-> IF i = 0 THEN <<>> ELSE Cleaned(g[i - 1], seg[i])] = [i \in 0..0 |-> <<>>]
          BY <4>1
        <4> QED
          BY <4>2
      <3> QED
        BY <2>1, <2>2, <3>1
    <2>3. CASE m # 0
      <3>1. m \in Nat /\ m - 1 \in Nat /\ m - 1 \notin bad
        BY <2>1, <2>3
      <3>2. PICK f : IsFold(f, m - 1)
        BY <3>1
      <3> DEFINE g == [i \in 0..m |-> IF i = m THEN Cleaned(f[m - 1], seg[m]) ELSE f[i]]
      <3>3. \A i \in 0..(m - 1) : f[i] = IF i = 0 THEN <<>> ELSE Cleaned(f[i - 1], seg[i])
        BY <3>2, Zenon
      <3>4. \A i \in 0..m : g[i] = IF i = m THEN Cleaned(f[m - 1], seg[m]) ELSE f[i]
        BY Zenon
      <3>5. ASSUME NEW i \in 0..m
            PROVE  g[i] = IF i = 0 THEN <<>> ELSE Cleaned(g[i - 1], seg[i])
        <4>1. CASE i = 0
          <5>1. g[0] = f[0] /\ f[0] = <<>>
            BY <2>3, <3>1, <3>3, <3>4
          <5> QED
            BY <4>1, <5>1
        <4>2. CASE i # 0
          <5>1. i - 1 \in 0..m /\ i - 1 # m /\ i - 1 \in 0..(m - 1)
            BY <3>1, <4>2
          <5>2. g[i - 1] = f[i - 1]
            BY <3>4, <5>1
          <5>3. g[i] = Cleaned(f[i - 1], seg[i])
            <6>1. CASE i = m
              BY <3>4, <6>1
            <6>2. CASE i # m
              <7>1. i \in 0..(m - 1)
                BY <3>1, <6>2
              <7> QED
                BY <3>3, <3>4, <4>2, <6>2, <7>1
            <6> QED
              BY <6>1, <6>2
          <5> QED
            BY <4>2, <5>2, <5>3
        <4> QED
          BY <4>1, <4>2
      <3>6. IsFold(g, m)
        <4>1. g = [i \in 0..m |-> g[i]]
          BY Zenon
        <4> HIDE DEF g
        <4>2. [i \in 0..m |-> g[i]] = [i \in 0..m |-> IF i = 0 THEN <<>> ELSE Cleaned(g[i - 1], seg[i])]
          BY <3>5
        <4> QED
          BY <4>1, <4>2
      <3> QED
        BY <2>1, <3>6
    <2> QED
      BY <2>2, <2>3
  <1> QED
    BY <1>1

\* A cleaned path has none of what cleaning takes out.
LEMMA CleanIsClean ==
    ASSUME NEW seg \in Seq(Segments)
    PROVE  Clean(seg) \in Seq(Names)
  <1>1. PICK n \in Nat : n = Len(seg)
    OBVIOUS
  <1> DEFINE F == CHOOSE f : f = [i \in 0..Len(seg) |-> IF i = 0 THEN <<>> ELSE Cleaned(f[i - 1], seg[i])]
  <1>2. F = [i \in 0..n |-> IF i = 0 THEN <<>> ELSE Cleaned(F[i - 1], seg[i])]
    BY <1>1, CleaningEnds, Zenon
  <1>3. Clean(seg) = F[n]
    BY <1>1 DEF Clean
  <1> HIDE DEF F
  <1>4. \A i \in 0..n : F[i] = IF i = 0 THEN <<>> ELSE Cleaned(F[i - 1], seg[i])
    BY <1>2, Zenon
  <1> DEFINE bad == {m \in Nat : m \in 0..n /\ F[m] \notin Seq(Names)}
  <1>5. ASSUME bad # {}
        PROVE  FALSE
    <2>1. PICK m \in bad : \A j \in bad : m <= j
      BY <1>5, Least
    <2>2. m # 0
      <3>1. 0 \in 0..n /\ F[0] = <<>> /\ <<>> \in Seq(Names)
        BY <1>4
      <3> QED
        BY <2>1, <3>1
    <2>3. m - 1 \in 0..n /\ m - 1 \notin bad /\ m \in 1..Len(seg)
      BY <1>1, <2>1, <2>2
    <2>4. F[m - 1] \in Seq(Names) /\ seg[m] \in Segments
      BY <2>3
    <2>5. F[m] = Cleaned(F[m - 1], seg[m])
      BY <1>4, <2>1, <2>2
    <2> QED
      BY <2>1, <2>4, <2>5, CleanedIsClean
  <1>6. F[n] \in Seq(Names)
    BY <1>5
  <1> QED
    BY <1>3, <1>6

\* What stands below a directory is the directory and the rest.
RestOf(dir, s) == SubSeq(s, Len(dir) + 1, Len(s))

\* Where each segment of a path below a directory stands.
LEMMA BelowIsTheRest ==
    ASSUME NEW T, NEW dir \in Seq(T), NEW s \in Seq(T), IsBelow(dir, s)
    PROVE  /\ RestOf(dir, s) \in Seq(T) /\ Len(RestOf(dir, s)) = Len(s) - Len(dir)
           /\ \A i \in 1..(Len(s) - Len(dir)) : RestOf(dir, s)[i] = s[Len(dir) + i]
           /\ \A i \in 1..Len(dir) : s[i] = dir[i]
           /\ Len(dir) \in 0..Len(s)
           /\ RestOf(dir, s) = <<>> <=> s = dir
  <1>1. PICK k \in Nat, n \in Nat : k = Len(dir) /\ n = Len(s)
    OBVIOUS
  <1>2. k <= n /\ SubSeq(s, 1, k) = dir
    BY <1>1 DEF IsBelow
  <1> DEFINE rest == SubSeq(s, k + 1, n)
  <1>3. /\ rest \in Seq(T) /\ Len(rest) = n - k
        /\ \A i \in 1..(n - k) : rest[i] = s[k + i]
    BY <1>1, <1>2, Behind
  <1> HIDE DEF rest
  <1>4. \A i \in 1..k : s[i] = dir[i]
    <2>1. \A i \in 1..k : s[i] \in T
      BY <1>1, <1>2
    <2>2. \A i \in 1..(k - 1 + 1) : SubSeq(s, 1, k)[i] = s[1 + i - 1]
      BY <2>1, SubSeqProperties
    <2>3. \A i \in 1..k : i \in 1..(k - 1 + 1) /\ 1 + i - 1 = i
      OBVIOUS
    <2> QED
      BY <1>2, <2>2, <2>3
  <1>5. ASSUME rest = <<>>
        PROVE  s = dir
    <2>1. k = n
      BY <1>2, <1>3, <1>5
    <2> QED
      BY <1>1, <1>4, <2>1, SeqEqual
  <1>6. ASSUME s = dir
        PROVE  rest = <<>>
    <2>1. Len(rest) = 0
      BY <1>1, <1>3, <1>6
    <2> QED
      BY <1>3, <2>1
  <1> QED
    BY <1>1, <1>2, <1>3, <1>4, <1>5, <1>6 DEF rest, RestOf

\* Below one directory, the rest says which one it is.
LEMMA RestTellsApart ==
    ASSUME NEW T, NEW dir \in Seq(T), NEW p \in Seq(T), NEW q \in Seq(T),
           IsBelow(dir, p), IsBelow(dir, q),
           RestOf(dir, p) = RestOf(dir, q)
    PROVE  p = q
  <1>1. PICK k \in Nat, m \in Nat, n \in Nat : k = Len(dir) /\ m = Len(p) /\ n = Len(q)
    OBVIOUS
  <1>2. PICK rest : rest = RestOf(dir, p) /\ rest = RestOf(dir, q)
    OBVIOUS
  <1>3. /\ Len(rest) = m - k /\ k \in 0..m
        /\ \A i \in 1..(m - k) : rest[i] = p[k + i]
        /\ \A i \in 1..k : p[i] = dir[i]
    <2>1. /\ Len(RestOf(dir, p)) = Len(p) - Len(dir) /\ Len(dir) \in 0..Len(p)
          /\ \A i \in 1..(Len(p) - Len(dir)) : RestOf(dir, p)[i] = p[Len(dir) + i]
          /\ \A i \in 1..Len(dir) : p[i] = dir[i]
      BY BelowIsTheRest
    <2> QED
      BY <1>1, <1>2, <2>1
  <1>4. /\ Len(rest) = n - k /\ k \in 0..n
        /\ \A i \in 1..(n - k) : rest[i] = q[k + i]
        /\ \A i \in 1..k : q[i] = dir[i]
    <2>1. /\ Len(RestOf(dir, q)) = Len(q) - Len(dir) /\ Len(dir) \in 0..Len(q)
          /\ \A i \in 1..(Len(q) - Len(dir)) : RestOf(dir, q)[i] = q[Len(dir) + i]
          /\ \A i \in 1..Len(dir) : q[i] = dir[i]
      BY BelowIsTheRest
    <2> QED
      BY <1>1, <1>2, <2>1
  <1>5. m = n
    BY <1>3, <1>4
  <1>6. ASSUME NEW i \in 1..m
        PROVE  p[i] = q[i]
    <2>1. CASE i <= k
      BY <1>3, <1>4, <2>1
    <2>2. CASE i > k
      <3>1. i - k \in 1..(m - k) /\ k + (i - k) = i
        BY <2>2
      <3> QED
        BY <1>3, <1>4, <1>5, <3>1
    <2> QED
      BY <2>1, <2>2
  <1> QED
    BY <1>1, <1>5, <1>6, SeqEqual

\* Names of files are told apart on either side of the home directory, and are
\* valid where their segments are.
LEMMA DefaultNames ==
    ASSUME NEW a, NEW b, ~a.rel, ~b.rel, a.seg \in Seq(Segments), b.seg \in Seq(Segments)
    PROVE  LET p == Clean(a.seg)
               q == Clean(b.seg)
           IN  /\ (p # q /\ DefaultLogicalPath(a) = DefaultLogicalPath(b)) =>
                     IsBelow(Home, p) # IsBelow(Home, q)
               /\ (p \notin {<<>>, Home} /\ \A i \in DOMAIN p : p[i] \notin {"\\", "c:"}) =>
                     NormalizePath(DefaultLogicalPath(a)).ok
  <1>1. PICK p, q : p = Clean(a.seg) /\ q = Clean(b.seg)
    OBVIOUS
  <1>2. p \in Seq(Names) /\ q \in Seq(Names)
    BY <1>1, CleanIsClean
  <1>3. p \in Seq(Segments) /\ q \in Seq(Segments) /\ Home \in Seq(Segments)
    BY <1>2, FormatsConstants DEF Names
  <1> DEFINE FromHome(s) == [rel |-> TRUE, seg |-> IF RestOf(Home, s) = <<>> THEN <<".">> ELSE RestOf(Home, s)]
  <1>4. /\ DefaultLogicalPath(a) = IF ~IsBelow(Home, p) THEN [rel |-> TRUE, seg |-> p] ELSE FromHome(p)
        /\ DefaultLogicalPath(b) = IF ~IsBelow(Home, q) THEN [rel |-> TRUE, seg |-> q] ELSE FromHome(q)
    BY <1>1 DEF DefaultLogicalPath, RestOf
  <1>5. ASSUME NEW s \in Seq(Names), IsBelow(Home, s)
        PROVE  /\ RestOf(Home, s) \in Seq(Names)
               /\ RestOf(Home, s) = <<>> <=> s = Home
               /\ RestOf(Home, s) # <<".">>
    <2>1. s \in Seq(Segments) /\ Home \in Seq(Segments)
      BY FormatsConstants DEF Names
    <2>2. RestOf(Home, s) = <<>> <=> s = Home
      BY <1>5, <2>1, BelowIsTheRest
    <2>3. RestOf(Home, s) \in Seq(Names)
      <3>1. Len(Home) \in Nat /\ Len(Home) <= Len(s)
        BY <1>5, <2>1 DEF IsBelow
      <3> QED
        BY <3>1, Behind DEF RestOf
    <2>4. <<".">> \notin Seq(Names)
      <3>1. <<".">>[1] = "." /\ 1 \in 1..Len(<<".">>)
        OBVIOUS
      <3>2. "." \notin Names
        BY DEF Names
      <3> QED
        BY <3>1, <3>2
    <2> QED
      BY <2>2, <2>3, <2>4
  <1>6. ASSUME p # q, DefaultLogicalPath(a) = DefaultLogicalPath(b)
        PROVE  IsBelow(Home, p) # IsBelow(Home, q)
    <2>1. CASE ~IsBelow(Home, p) /\ ~IsBelow(Home, q)
      BY <1>4, <1>6, <2>1
    <2>2. CASE IsBelow(Home, p) /\ IsBelow(Home, q)
      <3>1. RestOf(Home, p) # <<".">> /\ RestOf(Home, q) # <<".">>
        BY <1>2, <1>5, <2>2
      <3>2. FromHome(p).seg = FromHome(q).seg
        BY <1>4, <1>6, <2>2
      <3>3. RestOf(Home, p) = RestOf(Home, q)
        BY <3>1, <3>2
      <3>4. p = q
        BY <1>3, <2>2, <3>3, RestTellsApart
      <3> QED
        BY <1>6, <3>4
    <2> QED
      BY <2>1, <2>2
  <1>7. ASSUME p \notin {<<>>, Home}, \A i \in DOMAIN p : p[i] \notin {"\\", "c:"}
        PROVE  NormalizePath(DefaultLogicalPath(a)).ok
    <2>1. ASSUME NEW s \in Seq(Names), s # <<>>, \A i \in DOMAIN s : s[i] \notin {"\\", "c:"}
          PROVE  NormalizePath([rel |-> TRUE, seg |-> s]).ok
      <3>1. ASSUME NEW i \in DOMAIN s
            PROVE  ~BadSegment(s, i)
        <4>1. s[i] \in Names /\ s[i] \notin {"\\", "c:"}
          BY <2>1
        <4> QED
          BY <4>1 DEF BadSegment, Names
      <3> QED
        BY <2>1, <3>1 DEF NormalizePath
    <2>2. CASE ~IsBelow(Home, p)
      BY <1>2, <1>4, <1>7, <2>1, <2>2
    <2>3. CASE IsBelow(Home, p)
      <3>1. RestOf(Home, p) \in Seq(Names) /\ RestOf(Home, p) # <<>>
        BY <1>2, <1>5, <1>7, <2>3
      <3>2. DefaultLogicalPath(a) = [rel |-> TRUE, seg |-> RestOf(Home, p)]
        BY <1>4, <2>3, <3>1
      <3>3. ASSUME NEW i \in DOMAIN RestOf(Home, p)
            PROVE  RestOf(Home, p)[i] \notin {"\\", "c:"}
        <4>1. /\ Len(RestOf(Home, p)) = Len(p) - Len(Home) /\ Len(Home) \in 0..Len(p)
              /\ \A j \in 1..(Len(p) - Len(Home)) : RestOf(Home, p)[j] = p[Len(Home) + j]
          BY <1>3, <2>3, BelowIsTheRest
        <4>2. i \in 1..(Len(p) - Len(Home)) /\ Len(Home) + i \in DOMAIN p
          BY <1>3, <3>1, <4>1
        <4> QED
          BY <1>7, <4>1, <4>2
      <3> QED
        BY <2>1, <3>1, <3>2, <3>3
    <2> QED
      BY <2>2, <2>3
  <1> QED
    BY <1>1, <1>6, <1>7

---------------------------------------------------------------------------
\* The questions are about what they say they are about.
WellAsked ==
    /\ asked.about = "two" => asked.a \in Version(MaxParts) /\ asked.b \in Version(MaxParts)
    /\ asked.about = "three" =>
          asked.a \in Version(MaxOrdered) /\ asked.b \in Version(MaxOrdered)
            /\ asked.c \in Version(MaxOrdered)
    /\ asked.about = "duration" =>
          asked.n \in (-Word64)..Word64 /\ asked.unit \in {"none", "s", "h", "d", "w"}
    /\ asked.about = "paths" => asked.p.seg \in Seq(Segments) /\ asked.q.seg \in Seq(Segments)
    /\ asked.about = "blob" => asked.payload \in Seq(Bytes) /\ asked.encoding \in Encodings
    /\ asked.about = "name" =>
          /\ asked.kind \in {<<"angou">>, <<"angou", "gui">>} /\ asked.os # "gui"
          /\ asked.version \in Seq({"1", "gui", "linux"}) /\ asked.version # <<>>

\* No question is of another kind than its answers take it for.
LEMMA QuestionsAreWellAsked == Spec => []WellAsked
  <1>1. Init => WellAsked
    BY DEF Init, WellAsked
  <1>2. WellAsked /\ [Next]_asked => WellAsked'
    <2> SUFFICES ASSUME WellAsked, [Next]_asked
                 PROVE  WellAsked'
      OBVIOUS
    <2>1. CASE AskTwoVersions
      BY <2>1 DEF AskTwoVersions, WellAsked
    <2>2. CASE AskThreeVersions
      BY <2>2 DEF AskThreeVersions, WellAsked
    <2>3. CASE AskName
      <3>1. ASSUME NEW v \in UpTo({"1", "gui", "linux"}, 1, 2)
            PROVE  v \in Seq({"1", "gui", "linux"}) /\ v # <<>>
        <4>1. v \in Seq({"1", "gui", "linux"}) /\ Len(v) \in 1..2
          BY Sequences
        <4> QED
          BY <4>1
      <3>2. "linux" # "gui" /\ "angou" # "gui"
        OBVIOUS
      <3> QED
        BY <2>3, <3>1, <3>2 DEF AskName, WellAsked
    <2>4. CASE AskDuration
      BY <2>4 DEF AskDuration, WellAsked
    <2>5. CASE AskPaths
      <3>1. ASSUME NEW s \in UpTo(Segments, 0, MaxSegments)
            PROVE  s \in Seq(Segments)
        BY FormatsConstants, Sequences
      <3> QED
        BY <2>5, <3>1 DEF AskPaths, Path, WellAsked
    <2>6. CASE AskBlob
      <3>1. ASSUME NEW t \in UpTo(Bytes, 0, MaxPayload)
            PROVE  t \in Seq(Bytes)
        BY FormatsConstants, Sequences
      <3> QED
        BY <2>6, <3>1 DEF AskBlob, WellAsked
    <2>7. CASE UNCHANGED asked
      BY <2>7 DEF WellAsked
    <2> QED
      BY <2>1, <2>2, <2>3, <2>4, <2>5, <2>6, <2>7 DEF Next
  <1> QED
    BY <1>1, <1>2, PTL DEF Spec

\* The floor, retention and the listings sort by one order, whatever the tags
\* hold and however many parts they have.
THEOREM SortingByVersionsIsSound == Spec => []VersionsAreOrdered
  <1>1. WellAsked => VersionsAreOrdered
    <2> SUFFICES ASSUME WellAsked, asked.about = "three"
                 PROVE  VersionsAreOrdered
      BY DEF VersionsAreOrdered
    <2>1. /\ asked.a \in Version(MaxOrdered) /\ asked.b \in Version(MaxOrdered)
          /\ asked.c \in Version(MaxOrdered) /\ MaxOrdered \in Nat
      BY FormatsConstants DEF WellAsked
    <2> QED
      BY <2>1, VersionOrder DEF VersionsAreOrdered
  <1> QED
    BY <1>1, QuestionsAreWellAsked, PTL

\* The suffixes of two versions are put alike by all three where the locale sorts
\* them as bytes.
LEMMA SuffixesAlike ==
    ASSUME NEW a \in Version(MaxParts), NEW b \in Version(MaxParts)
    PROVE  /\ WindowsPreGreater(a.pre, b.pre) = PreGreater(a.pre, b.pre)
           /\ SortedAsBytes(a.pre, b.pre) =>
                 ShellPreGreater(a.pre, b.pre) = PreGreater(a.pre, b.pre)
  <1>1. a.pre \in Nat /\ b.pre \in Nat
    BY FormatsConstants DEF Version
  <1>2. WindowsPreGreater(a.pre, b.pre) <=> PreGreater(a.pre, b.pre)
    BY <1>1 DEF WindowsPreGreater, PreGreater
  <1>3. SortedAsBytes(a.pre, b.pre) => (ShellPreGreater(a.pre, b.pre) <=> PreGreater(a.pre, b.pre))
    <2>1. SortedAsBytes(a.pre, b.pre) /\ a.pre # 0 /\ b.pre # 0 =>
             (SortsAfter(a.pre, b.pre) <=> a.pre > b.pre)
      BY DEF SortedAsBytes
    <2> QED
      BY <1>1, <2>1 DEF ShellPreGreater, PreGreater
  <1>4. WindowsPreGreater(a.pre, b.pre) \in BOOLEAN
    BY ZenonT(30) DEF WindowsPreGreater
  <1>5. PreGreater(a.pre, b.pre) \in BOOLEAN
    BY ZenonT(30) DEF PreGreater
  <1>6. ShellPreGreater(a.pre, b.pre) \in BOOLEAN
    BY ZenonT(30) DEF ShellPreGreater
  <1> QED
    BY <1>2, <1>3, <1>4, <1>5, <1>6, ZenonT(30)

\* Of two versions of a release's form, bootstrap.ps1 takes the one CompareVersions
\* takes, and bootstrap.sh does where the user's locale does not put their suffixes
\* the other way: the four parts they look at are all there are, though a missing
\* part, a suffix and a dash are read by three programs.
THEOREM InstallersChooseAlike == Spec => []InstallersAgree
  <1>1. WellAsked => InstallersAgree
    <2> SUFFICES ASSUME WellAsked, asked.about = "two",
                        IsReleaseVersion(asked.a), IsReleaseVersion(asked.b)
                 PROVE  InstallersAgree
      BY DEF InstallersAgree
    <2>1. asked.a \in Version(MaxParts) /\ asked.b \in Version(MaxParts) /\ MaxParts \in Nat
      BY FormatsConstants DEF WellAsked
    <2>2. /\ Four(ShellPart, asked.a) = [i \in 1..4 |-> At(asked.a.num, i)]
          /\ Four(ShellPart, asked.b) = [i \in 1..4 |-> At(asked.b.num, i)]
          /\ Four(WindowsPart, asked.a) = [i \in 1..4 |-> At(asked.a.num, i)]
          /\ Four(WindowsPart, asked.b) = [i \in 1..4 |-> At(asked.b.num, i)]
      BY <2>1, InstallersSeeThem
    <2>3. Greater([i \in 1..4 |-> At(asked.a.num, i)], [i \in 1..4 |-> At(asked.b.num, i)],
                  PreGreater(asked.a.pre, asked.b.pre)) = (CompareVersions(asked.a, asked.b) = 1)
      BY <2>1, FourPartsSuffice
    <2>4. WindowsPreGreater(asked.a.pre, asked.b.pre) = PreGreater(asked.a.pre, asked.b.pre)
      BY <2>1, SuffixesAlike
    <2>5. SortedAsBytes(asked.a.pre, asked.b.pre) =>
             ShellPreGreater(asked.a.pre, asked.b.pre) = PreGreater(asked.a.pre, asked.b.pre)
      BY <2>1, SuffixesAlike
    <2>6. WindowsGreater(asked.a, asked.b) = (CompareVersions(asked.a, asked.b) = 1)
      BY <2>2, <2>3, <2>4 DEF WindowsGreater
    <2>7. SortedAsBytes(asked.a.pre, asked.b.pre) =>
             ShellGreater(asked.a, asked.b) = (CompareVersions(asked.a, asked.b) = 1)
      BY <2>2, <2>3, <2>5 DEF ShellGreater
    <2> QED
      BY <2>6, <2>7 DEF InstallersAgree
  <1> QED
    BY <1>1, QuestionsAreWellAsked, PTL

\* A lifetime that is accepted is the one asked for, whatever the width of the
\* clock's word, unless a multiplication leaves it.
THEOREM LifetimesAreExact == Spec => []LifetimeExact
  <1>1. WellAsked => LifetimeExact
    <2> SUFFICES ASSUME WellAsked, asked.about = "duration"
                 PROVE  LifetimeExact
      BY DEF LifetimeExact
    <2>1. asked.n \in (-Word64)..Word64 /\ asked.unit \in {"none", "s", "h", "d", "w"}
      BY DEF WellAsked
    <2> QED
      BY <2>1, LifetimeIsExact DEF LifetimeExact
  <1> QED
    BY <1>1, QuestionsAreWellAsked, PTL

\* A blob is read back whatever its payload is made of and however long it is,
\* and the parts of a name as they were put together.
THEOREM WhatIsWrittenIsReadBack == Spec => []RoundTrips
  <1>1. WellAsked => RoundTrips
    <2> SUFFICES ASSUME WellAsked
                 PROVE  RoundTrips
      OBVIOUS
    <2>1. CASE asked.about = "blob"
      <3>1. asked.payload \in Seq(Bytes) /\ asked.encoding \in Encodings
        BY <2>1 DEF WellAsked
      <3>2. Unmarshal(Marshal(asked.payload, asked.encoding)) =
              [ok |-> TRUE, payload |-> asked.payload, encoding |-> asked.encoding]
        BY <3>1, ReadBack
      <3>3. asked.about # "name"
        BY <2>1
      <3> QED
        BY <3>2, <3>3 DEF RoundTrips
    <2>2. CASE asked.about = "name"
      <3>1. /\ asked.kind \in {<<"angou">>, <<"angou", "gui">>} /\ asked.os # "gui"
            /\ asked.version \in Seq({"1", "gui", "linux"}) /\ asked.version # <<>>
        BY <2>2 DEF WellAsked
      <3>2. ParseBinaryName(BinaryName(asked.kind, asked.os, "amd64", asked.version)) =
              [ok |-> TRUE, kind |-> asked.kind, os |-> asked.os, arch |-> "amd64",
               version |-> asked.version]
        BY <3>1, NameReadBack
      <3>3. asked.about # "blob"
        BY <2>2
      <3> QED
        BY <3>2, <3>3 DEF RoundTrips
    <2> QED
      BY <2>1, <2>2 DEF RoundTrips
  <1> QED
    BY <1>1, QuestionsAreWellAsked, PTL

\* Files anywhere in any directories get names of their own, and valid ones.
THEOREM NamesAreKept == Spec => []NamesKeepDirectories
  <1>1. WellAsked => NamesKeepDirectories
    <2> SUFFICES ASSUME WellAsked, asked.about = "paths", ~asked.p.rel, ~asked.q.rel
                 PROVE  NamesKeepDirectories
      BY DEF NamesKeepDirectories
    <2>1. asked.p.seg \in Seq(Segments) /\ asked.q.seg \in Seq(Segments)
      BY DEF WellAsked
    <2> QED
      BY <2>1, DefaultNames DEF NamesKeepDirectories
  <1> QED
    BY <1>1, QuestionsAreWellAsked, PTL
=============================================================================
