--------------------------- MODULE IdentityProofs ---------------------------
(***************************************************************************)
(* Theorems of identity (id.rs, module/pdb.rs): what the rest of the       *)
(* system assumes of it (module Ids) holds of the derivation, for digits,  *)
(* GUIDs, notes and ages of any number.                                    *)
(***************************************************************************)
EXTENDS Identity, SequenceLemmas, TLAPS

(* The characters of a spelling.                                           *)
UpperDigit == {Upper[i] : i \in DOMAIN Upper}
Chars == Digit \cup UpperDigit \cup Separators

(* Digits and their upper-case forms are characters, no separators.        *)
LEMMA DigitProps ==
    /\ Len(Digits) \in Nat /\ DOMAIN Digits = 1..Len(Digits) /\ DOMAIN Upper = 1..Len(Digits)
    /\ Digit \cap Separators = {} /\ UpperDigit \cap Separators = {}
    /\ \A c \in Digit : lower(c) = c
    /\ \A i \in 1..Len(Digits) : lower(Upper[i]) = Digits[i] /\ Digits[i] \in Digit
<1> DEFINE n == Len(Digits)
<1>1. n \in Nat /\ DOMAIN Digits = 1..n /\ DOMAIN Upper = 1..n
  BY IdentityConstants
<1>2. \A i, j \in 1..n : Digits[i] = Digits[j] \/ Upper[i] = Upper[j] \/ Upper[i] = Digits[j] => i = j
  BY <1>1, IdentityConstants
<1>3. \A i \in 1..n : Digits[i] \notin Separators /\ Upper[i] \notin Separators
  BY <1>1, IdentityConstants
<1> HIDE DEF n
<1>4. Digit \cap Separators = {} /\ UpperDigit \cap Separators = {}
  BY <1>1, <1>3 DEF Digit, UpperDigit
<1>5. ASSUME NEW i \in 1..n PROVE lower(Upper[i]) = Digits[i]
  <2> DEFINE k == CHOOSE j \in 1..n : Upper[j] = Upper[i]
  <2>1. k \in 1..n /\ Upper[k] = Upper[i]
    OBVIOUS
  <2>2. k = i
    BY <1>2, <2>1
  <2>3. lower(Upper[i]) = Digits[k]
    BY <1>1 DEF lower
  <2> QED BY <2>2, <2>3
<1>6. ASSUME NEW i \in 1..n PROVE lower(Digits[i]) = Digits[i]
  <2>1. CASE \E j \in 1..n : Upper[j] = Digits[i]
    <3>1. Upper[i] = Digits[i]
      BY <1>2, <2>1
    <3> QED BY <1>5, <3>1
  <2>2. CASE ~\E j \in 1..n : Upper[j] = Digits[i]
    BY <1>1, <2>2 DEF lower
  <2> QED BY <2>1, <2>2
<1>7. \A c \in Digit : lower(c) = c
  BY <1>1, <1>6 DEF Digit
<1>8. \A i \in 1..n : Digits[i] \in Digit
  BY <1>1 DEF Digit
<1> QED BY <1>1, <1>4, <1>5, <1>7, <1>8 DEF n

-----------------------------------------------------------------------------
(* canonical_token *)

(* The token after i characters, from the one before.                      *)
TokenStep(s, F, i) ==
    IF i = 0 THEN <<>>
    ELSE IF s[i] \in Separators THEN F[i - 1]
    ELSE Append(F[i - 1], lower(s[i]))

Scans(s, F) == F = [i \in 0..Len(s) |-> TokenStep(s, F, i)]

(* The loop has one outcome: any account of it ends in the token.          *)
LEMMA TokenIs ==
    ASSUME NEW s, Len(s) \in Nat, NEW F, Scans(s, F)
    PROVE  canonical_token(s) = F[Len(s)]
<1> DEFINE n == Len(s)
           G == CHOOSE g : Scans(s, g)
           Bad == {i \in 0..n : G[i] # F[i]}
<1>1. Scans(s, G)
  OBVIOUS
<1>2. canonical_token(s) = G[n]
  BY DEF canonical_token, Scans, TokenStep
<1> PICK g : g = G
  OBVIOUS
<1>3. \A i \in 0..n : g[i] = TokenStep(s, g, i) /\ F[i] = TokenStep(s, F, i)
  BY <1>1 DEF Scans
<1>4. SUFFICES ASSUME Bad # {} PROVE FALSE
  <2>1. n \in 0..n
    OBVIOUS
  <2> HIDE DEF G
  <2> QED BY <1>2, <2>1
<1>5. Min(Bad) \in Bad /\ \A i \in Bad : Min(Bad) <= i
  <2>1. Bad \in SUBSET Nat
    OBVIOUS
  <2> HIDE DEF Bad
  <2> QED BY <1>4, <2>1, MinProps
<1>6. PICK k \in 0..n : k = Min(Bad) /\ g[k] # F[k]
  <2> HIDE DEF G
  <2> QED BY <1>5
<1>7. k # 0
  BY <1>3, <1>6 DEF TokenStep
<1>8. k - 1 \in 0..n /\ k - 1 \notin Bad
  <2> HIDE DEF Bad
  <2> QED BY <1>5, <1>6, <1>7
<1>9. g[k - 1] = F[k - 1]
  <2> HIDE DEF G
  <2> QED BY <1>8
<1> HIDE DEF G, Bad
<1> QED BY <1>3, <1>6, <1>7, <1>9 DEF TokenStep

(* The loop has an outcome.                                                *)
LEMMA ScanExists ==
    ASSUME NEW s, Len(s) \in Nat
    PROVE  \E F : Scans(s, F)
<1> DEFINE n == Len(s)
           Good(k) == \E F : F = [i \in 0..k |-> TokenStep(s, F, i)]
           Bad == {k \in 0..n : ~Good(k)}
<1>1. SUFFICES ASSUME Bad # {} PROVE FALSE
  <2>1. n \in 0..n
    OBVIOUS
  <2>2. Good(n)
    BY <2>1
  <2> QED BY <2>2 DEF Scans
<1>2. Min(Bad) \in Bad /\ \A i \in Bad : Min(Bad) <= i
  <2>1. Bad \in SUBSET Nat
    OBVIOUS
  <2> HIDE DEF Bad
  <2> QED BY <1>1, <2>1, MinProps
<1>3. PICK k \in 0..n : k = Min(Bad) /\ ~Good(k)
  BY <1>2
<1>4. k # 0
  <2>1. [i \in 0..0 |-> <<>>] = [i \in 0..0 |-> TokenStep(s, [j \in 0..0 |-> <<>>], i)]
    BY DEF TokenStep
  <2>2. Good(0)
    BY <2>1
  <2> HIDE DEF Good
  <2> QED BY <1>3, <2>2
<1>5. Good(k - 1)
  <2>1. k - 1 \in 0..n /\ k - 1 \notin Bad
    <3> HIDE DEF Bad
    <3> QED BY <1>2, <1>3, <1>4
  <2> HIDE DEF Good
  <2> QED BY <2>1
<1>6. PICK F : F = [i \in 0..(k - 1) |-> TokenStep(s, F, i)]
  BY <1>5
<1> DEFINE H == [i \in 0..k |-> IF i = k THEN TokenStep(s, F, k) ELSE F[i]]
<1>7. ASSUME NEW i \in 0..k PROVE H[i] = TokenStep(s, H, i)
  <2>1. i # 0 => H[i - 1] = F[i - 1]
    BY <1>3
  <2>2. CASE i = k
    <3>1. H[i] = TokenStep(s, F, i)
      BY <2>2
    <3> HIDE DEF H
    <3> QED BY <2>1, <3>1 DEF TokenStep
  <2>3. CASE i # k
    <3>1. i \in 0..(k - 1)
      BY <2>3, <1>3
    <3>2. H[i] = F[i]
      BY <2>3
    <3>3. F[i] = TokenStep(s, F, i)
      BY <1>6, <3>1
    <3> HIDE DEF H
    <3> QED BY <2>1, <3>2, <3>3 DEF TokenStep
  <2> QED BY <2>2, <2>3
<1>8. H = [i \in 0..k |-> TokenStep(s, H, i)]
  <2>1. \A f : f = [i \in 0..k |-> IF i = k THEN TokenStep(s, F, k) ELSE F[i]]
                 /\ (\A i \in 0..k : f[i] = TokenStep(s, f, i))
               => f = [i \in 0..k |-> TokenStep(s, f, i)]
    OBVIOUS
  <2> QED BY <1>7, <2>1
<1>9. Good(k)
  <2> HIDE DEF H
  <2> QED BY <1>8
<1> QED BY <1>3, <1>9

(* A token is made of digits.                                              *)
LEMMA TokenOfDigits ==
    ASSUME NEW s \in Seq(Chars)
    PROVE  canonical_token(s) \in Seq(Digit)
<1> DEFINE n == Len(s)
<1>1. n \in Nat /\ \A i \in 1..n : s[i] \in Chars
  OBVIOUS
<1>2. PICK F : Scans(s, F)
  BY <1>1, ScanExists
<1>3. \A i \in 0..n : F[i] = TokenStep(s, F, i)
  BY <1>2 DEF Scans
<1> DEFINE Bad == {i \in 0..n : F[i] \notin Seq(Digit)}
<1>4. SUFFICES ASSUME Bad # {} PROVE FALSE
  <2>1. n \in 0..n
    BY <1>1
  <2>2. F[n] \in Seq(Digit)
    BY <2>1
  <2> QED BY <1>1, <1>2, <2>2, TokenIs
<1>5. Min(Bad) \in Bad /\ \A i \in Bad : Min(Bad) <= i
  <2>1. Bad \in SUBSET Nat
    OBVIOUS
  <2> HIDE DEF Bad
  <2> QED BY <1>4, <2>1, MinProps
<1>6. PICK k \in 0..n : k = Min(Bad) /\ F[k] \notin Seq(Digit)
  BY <1>5
<1> HIDE DEF n
<1>7. k # 0
  <2>1. SUFFICES ASSUME k = 0 PROVE FALSE
    OBVIOUS
  <2>2. F[k] = <<>>
    BY <1>3, <1>6, <2>1 DEF TokenStep
  <2>3. <<>> \in Seq(Digit)
    OBVIOUS
  <2>4. F[k] \in Seq(Digit)
    BY <2>2, <2>3, Zenon
  <2> QED BY <1>6, <2>4
<1>8. k - 1 \in 0..n /\ k - 1 \notin Bad
  <2> HIDE DEF Bad
  <2> QED BY <1>1, <1>5, <1>6, <1>7
<1>9. F[k - 1] \in Seq(Digit)
  BY <1>8
<1>10. s[k] \notin Separators => lower(s[k]) \in Digit
  <2>1. s[k] \in Chars
    BY <1>1, <1>6, <1>7
  <2>2. s[k] \notin Separators => s[k] \in Digit \/ \E i \in 1..Len(Digits) : s[k] = Upper[i]
    BY <2>1, DigitProps DEF Chars, UpperDigit
  <2> QED BY <2>2, DigitProps
<1>11. F[k] = F[k - 1] \/ (s[k] \notin Separators /\ F[k] = Append(F[k - 1], lower(s[k])))
  BY <1>3, <1>6, <1>7 DEF TokenStep
<1>12. CASE F[k] = F[k - 1]
  BY <1>6, <1>9, <1>12
<1>13. CASE s[k] \notin Separators /\ F[k] = Append(F[k - 1], lower(s[k]))
  BY <1>6, <1>9, <1>10, <1>13
<1> QED BY <1>11, <1>12, <1>13

(* A sequence of digits is its own token.                                  *)
LEMMA DigitsAreCanonical ==
    ASSUME NEW t \in Seq(Digit)
    PROVE  canonical_token(t) = t
<1> DEFINE n == Len(t)
           F == [i \in 0..n |-> SubSeq(t, 1, i)]
<1>1. n \in Nat /\ \A i \in 1..n : t[i] \in Digit
  OBVIOUS
<1>2. ASSUME NEW i \in 0..n PROVE F[i] = TokenStep(t, F, i)
  <2>1. CASE i = 0
    BY <2>1 DEF TokenStep
  <2>2. CASE i # 0
    <3>1. i \in 1..n /\ i - 1 \in 0..n
      BY <1>1, <2>2
    <3>2. t[i] \notin Separators /\ lower(t[i]) = t[i]
      BY <1>1, <3>1, DigitProps
    <3>3. F[i - 1] = SubSeq(t, 1, i - 1) /\ F[i] = SubSeq(t, 1, i)
      BY <3>1
    <3>4. SubSeq(t, 1, i) = Append(SubSeq(t, 1, i - 1), t[i])
      BY <1>1, <3>1
    <3> HIDE DEF F
    <3> QED BY <2>2, <3>2, <3>3, <3>4 DEF TokenStep
  <2> QED BY <2>1, <2>2
<1>3. Scans(t, F)
  <2>1. \A f : f = [i \in 0..n |-> SubSeq(t, 1, i)] /\ (\A i \in 0..n : f[i] = TokenStep(t, f, i))
               => f = [i \in 0..n |-> TokenStep(t, f, i)]
    OBVIOUS
  <2>2. F = [i \in 0..n |-> TokenStep(t, F, i)]
    BY <1>2, <2>1
  <2> QED BY <2>2 DEF Scans
<1>4. F[n] = t
  BY <1>1
<1> HIDE DEF F
<1> QED BY <1>1, <1>3, <1>4, TokenIs

(* A token in the spelling of a registry, upper case between braces and    *)
(* separators, is read as that token.                                      *)
LEMMA BracedIsRead ==
    ASSUME NEW t \in Seq(Digit)
    PROVE  canonical_token(Braced(t)) = t
<1> PICK n : n = Len(t)
  OBVIOUS
<1> DEFINE up == [i \in DOMAIN t |-> Upper[CHOOSE k \in DOMAIN Digits : Digits[k] = t[i]]]
<1>1. n \in Nat /\ DOMAIN t = 1..n /\ \A i \in 1..n : t[i] \in Digit
  OBVIOUS
<1>2. up \in [1..n -> UpperDigit] /\ \A i \in 1..n : lower(up[i]) = t[i] /\ up[i] \notin Separators
  <2> SUFFICES ASSUME NEW i \in 1..n
               PROVE  up[i] \in UpperDigit /\ lower(up[i]) = t[i] /\ up[i] \notin Separators
    BY <1>1
  <2> DEFINE k == CHOOSE j \in DOMAIN Digits : Digits[j] = t[i]
  <2>1. \E j \in DOMAIN Digits : Digits[j] = t[i]
    BY <1>1 DEF Digit
  <2>2. k \in DOMAIN Digits /\ Digits[k] = t[i]
    BY <2>1
  <2>3. up[i] = Upper[k]
    BY <1>1
  <2> HIDE DEF up, k
  <2>4. k \in 1..Len(Digits) /\ up[i] \in UpperDigit
    BY <2>2, <2>3, DigitProps DEF UpperDigit
  <2> QED BY <2>2, <2>3, <2>4, DigitProps
<1> PICK u : u = up
  OBVIOUS
<1>3. u \in Seq(UpperDigit) /\ Len(u) = n /\ DOMAIN u = 1..n
      /\ \A i \in 1..n : lower(u[i]) = t[i] /\ u[i] \notin Separators
  <2> HIDE DEF up
  <2> QED BY <1>1, <1>2
<1>4. Braced(t) = IF u = <<>> THEN <<"open", "space", "close">>
                  ELSE <<"open", Head(u), "dash">> \o Tail(u) \o <<"close">>
  BY DEF Braced
<1> HIDE DEF up
<1>5. CASE n = 0
  <2> DEFINE s == <<"open", "space", "close">>
             F == [i \in 0..3 |-> <<>>]
  <2>1. u = <<>> /\ t = <<>>
    BY <1>1, <1>3, <1>5
  <2>2. Len(s) = 3 /\ \A i \in 1..3 : s[i] \in Separators
    BY DEF Separators
  <2>3. \A i \in 0..3 : TokenStep(s, F, i) = <<>>
    BY <2>2 DEF TokenStep
  <2>4. Scans(s, F)
    <3> HIDE DEF s
    <3>1. Scans(s, F) <=> F = [i \in 0..3 |-> TokenStep(s, F, i)]
      BY <2>2 DEF Scans
    <3> QED BY <2>3, <3>1
  <2> PICK ss : ss = s
    OBVIOUS
  <2> PICK ff : ff = F
    OBVIOUS
  <2>5. canonical_token(ss) = ff[Len(ss)]
    <3>1. Len(ss) \in Nat /\ Scans(ss, ff)
      BY <2>2, <2>4
    <3> HIDE DEF s, F
    <3> QED BY <3>1, TokenIs
  <2> QED BY <1>4, <2>1, <2>2, <2>5
<1>6. CASE n # 0
  <2> DEFINE s == <<"open", Head(u), "dash">> \o Tail(u) \o <<"close">>
             m(i) == IF i = 0 THEN 0 ELSE IF i = 1 THEN 0 ELSE IF i = 2 THEN 1
                     ELSE IF i = n + 3 THEN n ELSE i - 2
             F == [i \in 0..(n + 3) |-> SubSeq(t, 1, m(i))]
  <2>1. u # <<>>
    BY <1>3, <1>6
  <2>2. Len(s) = n + 3 /\ s[1] = "open" /\ s[2] = u[1] /\ s[3] = "dash" /\ s[n + 3] = "close"
        /\ \A i \in 4..(n + 2) : s[i] = u[i - 2]
    <3> PICK a : a = <<"open", Head(u), "dash">>
      OBVIOUS
    <3> PICK b : b = Tail(u)
      OBVIOUS
    <3> PICK c : c = <<"close">>
      OBVIOUS
    <3> PICK C : C = {"open", "dash", "close"} \cup UpperDigit
      OBVIOUS
    <3>1. Head(u) = u[1] /\ b \in Seq(UpperDigit) /\ Len(b) = n - 1 /\ \A i \in 1..(n - 1) : b[i] = u[i + 1]
      BY <1>1, <1>3, <1>6, <2>1
    <3>2. Len(a) = 3 /\ a[1] = "open" /\ a[2] = u[1] /\ a[3] = "dash" /\ Len(c) = 1 /\ c[1] = "close"
      BY <3>1
    <3>3. u[1] \in UpperDigit
      BY <1>1, <1>3, <1>6
    <3>4. a \in Seq(C) /\ c \in Seq(C)
      BY <3>1, <3>3
    <3>5. b \in Seq(C)
      BY <3>1
    <3> PICK ab : ab = a \o b
      OBVIOUS
    <3>6. /\ ab \in Seq(C) /\ Len(ab) = n + 2 /\ (\A i \in 1..3 : ab[i] = a[i])
          /\ \A i \in 1..(n - 1) : ab[3 + i] = b[i]
      <4>1. Len(a) = 3 /\ Len(b) = n - 1
        BY <3>1, <3>2
      <4> QED BY <1>1, <1>6, <3>4, <3>5, <4>1, JoinProps
    <3>7. Len(s) = n + 3 /\ (\A i \in 1..(n + 2) : s[i] = ab[i]) /\ s[n + 3] = "close"
      <4>1. s = ab \o c
        OBVIOUS
      <4> HIDE DEF s
      <4>2. /\ Len(ab \o c) = Len(ab) + Len(c) /\ (\A i \in 1..Len(ab) : (ab \o c)[i] = ab[i])
            /\ \A i \in 1..Len(c) : (ab \o c)[Len(ab) + i] = c[i]
        BY <3>4, <3>6, JoinProps
      <4>3. (n + 2) + 1 = n + 3
        BY <1>1
      <4> QED BY <3>2, <3>6, <4>1, <4>2, <4>3
    <3>8. ASSUME NEW i \in 4..(n + 2) PROVE s[i] = u[i - 2]
      <4> PICK k : k = i - 3
        OBVIOUS
      <4>1. k \in 1..(n - 1) /\ i = 3 + k /\ k + 1 = i - 2 /\ i \in 1..(n + 2)
        BY <1>1, <1>6
      <4>2. s[i] = ab[i] /\ ab[i] = b[k] /\ b[k] = u[k + 1]
        <5> HIDE DEF s
        <5> QED BY <3>1, <3>6, <3>7, <4>1
      <4> QED BY <4>1, <4>2
    <3>9. s[1] = ab[1] /\ s[2] = ab[2] /\ s[3] = ab[3]
      <4>1. 1 \in 1..(n + 2) /\ 2 \in 1..(n + 2) /\ 3 \in 1..(n + 2)
        BY <1>1, <1>6
      <4> HIDE DEF s
      <4> QED BY <3>7, <4>1
    <3> HIDE DEF s
    <3> QED BY <3>2, <3>6, <3>7, <3>8, <3>9
  <2> HIDE DEF s
  <2>3. ASSUME NEW i \in 0..(n + 3) PROVE F[i] = TokenStep(s, F, i)
    <3>1. m(i) \in 0..n /\ F[i] = SubSeq(t, 1, m(i))
      BY <1>1, <1>6
    <3>2. i # 0 => i - 1 \in 0..(n + 3) /\ F[i - 1] = SubSeq(t, 1, m(i - 1))
      BY <1>1
    <3>3. CASE i = 0
      <4>1. SubSeq(t, 1, 0) = <<>>
        BY <1>1
      <4> QED BY <3>1, <3>3, <4>1 DEF TokenStep
    <3>4. CASE i = 1 \/ i = 3 \/ i = n + 3
      <4>1. m(i) = m(i - 1) /\ i # 0
        BY <1>1, <1>6, <3>4
      <4>2. s[i] \in Separators
        BY <2>2, <3>4 DEF Separators
      <4> HIDE DEF F, m
      <4> QED BY <3>1, <3>2, <4>1, <4>2 DEF TokenStep
    <3>5. CASE i = 2 \/ i \in 4..(n + 2)
      <4>1. m(i) \in 1..n /\ m(i - 1) = m(i) - 1 /\ i # 0 /\ s[i] = u[m(i)]
        <5>1. CASE i = 2
          BY <1>1, <1>6, <2>2, <5>1
        <5>2. CASE i \in 4..(n + 2)
          <6>1. i \in Nat /\ i # 0 /\ i # 1 /\ i # 2 /\ i # n + 3 /\ i - 1 # n + 3
                /\ i - 1 # 0 /\ i - 1 # 1 /\ i - 1 # 2 /\ i - 2 \in 1..n
            BY <1>1, <5>2
          <6>2. m(i) = i - 2
            BY <6>1
          <6>3. m(i - 1) = i - 3
            BY <6>1
          <6> QED BY <2>2, <5>2, <6>1, <6>2, <6>3
        <5> QED BY <3>5, <5>1, <5>2
      <4> PICK k : k = m(i)
        OBVIOUS
      <4>2. k \in 1..n /\ m(i - 1) = k - 1 /\ s[i] = u[k] /\ F[i] = SubSeq(t, 1, k)
            /\ F[i - 1] = SubSeq(t, 1, k - 1)
        BY <3>1, <3>2, <4>1
      <4>3. s[i] \notin Separators /\ lower(s[i]) = t[k]
        BY <1>3, <4>2
      <4>4. SubSeq(t, 1, k) = Append(SubSeq(t, 1, k - 1), t[k])
        BY <1>1, <4>2, PrefixStep
      <4> HIDE DEF F, m
      <4> QED BY <4>1, <4>2, <4>3, <4>4 DEF TokenStep
    <3>6. i = 0 \/ i = 1 \/ i = 2 \/ i = 3 \/ i \in 4..(n + 2) \/ i = n + 3
      BY <1>1, <1>6
    <3> QED BY <3>3, <3>4, <3>5, <3>6
  <2>4. Scans(s, F)
    <3>1. Scans(s, F) <=> F = [i \in 0..(n + 3) |-> TokenStep(s, F, i)]
      BY <2>2 DEF Scans
    <3>2. \A f : f = [i \in 0..(n + 3) |-> SubSeq(t, 1, m(i))]
                   /\ (\A i \in 0..(n + 3) : f[i] = TokenStep(s, f, i))
                 => f = [i \in 0..(n + 3) |-> TokenStep(s, f, i)]
      OBVIOUS
    <3> QED BY <2>3, <3>1, <3>2
  <2> PICK ss : ss = s
    OBVIOUS
  <2> PICK ff : ff = F
    OBVIOUS
  <2>5. canonical_token(ss) = ff[n + 3]
    <3>1. Len(ss) = n + 3 /\ Len(ss) \in Nat /\ Scans(ss, ff)
      BY <1>1, <2>2, <2>4
    <3> HIDE DEF F
    <3> QED BY <3>1, TokenIs
  <2>6. F[n + 3] = SubSeq(t, 1, n) /\ SubSeq(t, 1, n) = t
    BY <1>1, <1>6
  <2>7. Braced(t) = s
    BY <1>4, <2>1 DEF s
  <2> HIDE DEF F
  <2> QED BY <2>2, <2>5, <2>6, <2>7
<1> QED BY <1>5, <1>6

-----------------------------------------------------------------------------
(* Digits of bytes and of ages *)

(* A byte is written as its two digits.                                    *)
LEMMA HexProps ==
    ASSUME NEW b \in Seq(Bytes)
    PROVE  /\ hex_encode(b) \in Seq(Digit) /\ Len(hex_encode(b)) = 2 * Len(b)
           /\ \A i \in 1..Len(b) : b[i] = <<hex_encode(b)[2 * i - 1], hex_encode(b)[2 * i]>>
<1> PICK n : n = Len(b)
  OBVIOUS
<1> PICK h : h = hex_encode(b)
  OBVIOUS
<1>1. n \in Nat /\ \A i \in 1..n : b[i] \in Bytes
  OBVIOUS
<1>2. h = [i \in 1..2 * n |-> b[(i + 1) \div 2][IF i % 2 = 1 THEN 1 ELSE 2]]
  BY DEF hex_encode
<1>3. \A x \in Bytes : x[1] \in Digit /\ x[2] \in Digit /\ x = <<x[1], x[2]>>
  BY DEF Bytes
<1>4. ASSUME NEW i \in 1..2 * n PROVE h[i] \in Digit
  <2>1. (i + 1) \div 2 \in 1..n
    BY <1>1
  <2>2. h[i] = b[(i + 1) \div 2][1] \/ h[i] = b[(i + 1) \div 2][2]
    BY <1>2
  <2> PICK k \in 1..n : k = (i + 1) \div 2
    BY <2>1
  <2>3. h[i] = b[k][1] \/ h[i] = b[k][2]
    BY <2>2
  <2> QED BY <1>1, <1>3, <2>3
<1>5. 2 * n \in Nat
  BY <1>1
<1>6. h \in Seq(Digit) /\ Len(h) = 2 * n
  <2> PICK l \in Nat : l = 2 * n
    BY <1>5
  <2>1. h = [i \in 1..l |-> h[i]] /\ \A i \in 1..l : h[i] \in Digit
    BY <1>2, <1>4
  <2>2. h \in [1..l -> Digit]
    BY <2>1
  <2> QED BY <2>2
<1>7. ASSUME NEW i \in 1..n PROVE b[i] = <<h[2 * i - 1], h[2 * i]>>
  <2> PICK j : j = 2 * i - 1
    OBVIOUS
  <2> PICK k : k = 2 * i
    OBVIOUS
  <2>1. j \in 1..2 * n /\ (j + 1) \div 2 = i /\ j % 2 = 1
    BY <1>1
  <2>2. k \in 1..2 * n /\ (k + 1) \div 2 = i /\ k % 2 # 1
    BY <1>1
  <2>3. h[j] = b[i][1]
    BY <1>2, <2>1
  <2>4. h[k] = b[i][2]
    BY <1>2, <2>2
  <2>5. b[i] = <<b[i][1], b[i][2]>>
    BY <1>1, <1>3
  <2> QED BY <2>3, <2>4, <2>5
<1> QED BY <1>6, <1>7

(* Different bytes have different digits.                                  *)
LEMMA HexInjective ==
    ASSUME NEW a \in Seq(Bytes), NEW b \in Seq(Bytes), hex_encode(a) = hex_encode(b)
    PROVE  a = b
<1> PICK h : h = hex_encode(a)
  OBVIOUS
<1>1. Len(h) = 2 * Len(a) /\ \A i \in 1..Len(a) : a[i] = <<h[2 * i - 1], h[2 * i]>>
  BY HexProps
<1>2. Len(h) = 2 * Len(b) /\ \A i \in 1..Len(b) : b[i] = <<h[2 * i - 1], h[2 * i]>>
  BY HexProps
<1>3. Len(a) = Len(b) /\ Len(a) \in Nat
  BY <1>1, <1>2
<1>4. \A i \in 1..Len(a) : a[i] = b[i]
  BY <1>1, <1>2, <1>3
<1> QED BY <1>3, <1>4

(* One step of the age.                                                    *)
AgeStep(F, n) ==
    (IF n < Len(Digits) THEN <<>> ELSE F[n \div Len(Digits)]) \o <<Digits[(n % Len(Digits)) + 1]>>

(* What is left of an age when its last digit is cut, and that digit.      *)
LEMMA AgeParts ==
    ASSUME NEW n \in Nat
    PROVE  /\ (n % Len(Digits)) + 1 \in 1..Len(Digits)
           /\ n < Len(Digits) => n % Len(Digits) = n
           /\ n >= Len(Digits) => n \div Len(Digits) \in 0..(n - 1)
<1> PICK b : b = Len(Digits)
  OBVIOUS
<1>1. b \in Nat /\ b >= 2
  BY IdentityConstants, DigitProps
<1>2. n % b \in 0..(b - 1) /\ n = b * (n \div b) + (n % b) /\ n \div b \in Int
  BY <1>1
<1>3. n < b => n % b = n
  <2>1. b \in Nat \ {0} /\ n \in Int /\ (n < b => n \in 0..(b - 1))
    BY <1>1
  <2> QED BY <2>1, Remainder
<1> PICK q \in Int : q = n \div b
  BY <1>2
<1> PICK r \in 0..(b - 1) : r = n % b
  BY <1>2
<1>4. ASSUME n >= b PROVE q \in 0..(n - 1)
  <2>1. n = b * q + r /\ r < b /\ r >= 0
    BY <1>1, <1>2
  <2>2. q >= 1
    BY <1>1, <1>4, <2>1
  <2>3. b * q >= 2 * q
    BY <1>1, <2>2
  <2> QED BY <1>1, <2>1, <2>2, <2>3
<1> QED BY <1>1, <1>2, <1>3, <1>4

(* The recursion has a solution.                                           *)
LEMMA AgeDigitsIs ==
    /\ MaxAge \in Nat
    /\ \A n \in 0..MaxAge : AgeDigits[n] = AgeStep(AgeDigits, n)
<1> DEFINE Good(k) == \E F : F = [n \in 0..k |-> AgeStep(F, n)]
           Bad == {k \in 0..MaxAge : ~Good(k)}
<1>1. MaxAge \in Nat
  BY IdentityConstants
<1>2. SUFFICES ASSUME Bad # {} PROVE FALSE
  <2>1. MaxAge \in 0..MaxAge
    BY <1>1
  <2>2. Good(MaxAge)
    BY <2>1
  <2>3. AgeDigits = CHOOSE F : F = [n \in 0..MaxAge |-> AgeStep(F, n)]
    BY DEF AgeDigits, AgeStep
  <2>4. AgeDigits = [n \in 0..MaxAge |-> AgeStep(AgeDigits, n)]
    BY <2>2, <2>3
  <2> QED BY <1>1, <2>4
<1>3. Min(Bad) \in Bad /\ \A i \in Bad : Min(Bad) <= i
  <2>1. Bad \in SUBSET Nat
    BY <1>1
  <2> HIDE DEF Bad
  <2> QED BY <1>2, <2>1, MinProps
<1>4. PICK k \in 0..MaxAge : k = Min(Bad) /\ ~Good(k)
  BY <1>3
<1>5. \A n \in 0..k : n >= Len(Digits) => n \div Len(Digits) \in 0..(n - 1)
  BY <1>1, AgeParts
<1>6. k # 0
  <2>1. SUFFICES ASSUME k = 0 PROVE FALSE
    OBVIOUS
  <2> DEFINE F == [n \in 0..0 |-> <<Digits[(n % Len(Digits)) + 1]>>]
  <2>2. 0 < Len(Digits)
    BY IdentityConstants, DigitProps
  <2>3. \A n \in 0..0 : F[n] = AgeStep(F, n)
    <3>1. AgeStep(F, 0) = <<>> \o <<Digits[(0 % Len(Digits)) + 1]>>
      BY <2>2 DEF AgeStep
    <3>2. <<>> \o <<Digits[(0 % Len(Digits)) + 1]>> = <<Digits[(0 % Len(Digits)) + 1]>>
      OBVIOUS
    <3>3. F[0] = <<Digits[(0 % Len(Digits)) + 1]>>
      OBVIOUS
    <3> HIDE DEF F
    <3> QED BY <3>1, <3>2, <3>3
  <2>4. F = [n \in 0..0 |-> AgeStep(F, n)]
    <3>1. \A f : f = [n \in 0..0 |-> <<Digits[(n % Len(Digits)) + 1]>>]
                   /\ (\A n \in 0..0 : f[n] = AgeStep(f, n))
                 => f = [n \in 0..0 |-> AgeStep(f, n)]
      OBVIOUS
    <3> QED BY <2>3, <3>1
  <2>5. Good(0)
    <3> HIDE DEF F
    <3> QED BY <2>4
  <2> HIDE DEF Good
  <2> QED BY <1>4, <2>1, <2>5
<1>7. Good(k - 1)
  <2>1. k - 1 \in 0..MaxAge /\ k - 1 \notin Bad
    <3> HIDE DEF Bad
    <3> QED BY <1>1, <1>3, <1>4, <1>6
  <2> HIDE DEF Good
  <2> QED BY <2>1
<1>8. PICK F : F = [n \in 0..(k - 1) |-> AgeStep(F, n)]
  BY <1>7
<1> DEFINE H == [n \in 0..k |-> IF n = k THEN AgeStep(F, k) ELSE F[n]]
<1>9. ASSUME NEW n \in 0..k PROVE H[n] = AgeStep(H, n)
  <2>1. n >= Len(Digits) => H[n \div Len(Digits)] = F[n \div Len(Digits)]
    <3>1. SUFFICES ASSUME n >= Len(Digits) PROVE H[n \div Len(Digits)] = F[n \div Len(Digits)]
      OBVIOUS
    <3> PICK q : q = n \div Len(Digits)
      OBVIOUS
    <3>2. q \in 0..k /\ q # k
      BY <1>1, <1>5, <3>1
    <3> QED BY <3>2
  <2>2. n < Len(Digits) \/ n >= Len(Digits)
    BY <1>1, DigitProps
  <2>3. AgeStep(H, n) = AgeStep(F, n)
    <3> HIDE DEF H
    <3> QED BY <2>1, <2>2 DEF AgeStep
  <2>4. H[n] = AgeStep(F, n)
    <3>1. CASE n = k
      BY <3>1
    <3>2. CASE n # k
      <4>1. n \in 0..(k - 1) /\ H[n] = F[n]
        BY <1>1, <3>2
      <4> HIDE DEF H
      <4> QED BY <1>8, <4>1
    <3> QED BY <3>1, <3>2
  <2> HIDE DEF H
  <2> QED BY <2>3, <2>4
<1>10. H = [n \in 0..k |-> AgeStep(H, n)]
  <2>1. \A f : f = [n \in 0..k |-> IF n = k THEN AgeStep(F, k) ELSE F[n]]
                 /\ (\A n \in 0..k : f[n] = AgeStep(f, n))
               => f = [n \in 0..k |-> AgeStep(f, n)]
    OBVIOUS
  <2> QED BY <1>9, <2>1
<1>11. Good(k)
  <2> HIDE DEF H
  <2> QED BY <1>10
<1> HIDE DEF Good
<1> QED BY <1>4, <1>11

(* An age is written in digits, of which it has one if it is less than the *)
(* number of digits there are, and more otherwise.                         *)
LEMMA AgeProps ==
    ASSUME NEW n \in 0..MaxAge
    PROVE  /\ AgeDigits[n] \in Seq(Digit)
           /\ n < Len(Digits) => AgeDigits[n] = <<Digits[n + 1]>>
           /\ n >= Len(Digits) => Len(AgeDigits[n]) >= 2
<1> DEFINE b == Len(Digits)
           Right(k) == AgeDigits[k] \in Seq(Digit) /\ Len(AgeDigits[k]) >= 1
           Bad == {k \in 0..MaxAge : ~Right(k)}
<1>1. MaxAge \in Nat /\ b \in Nat /\ \A k \in 0..MaxAge : k \in Nat
  BY IdentityConstants, DigitProps
<1>2. \A k \in 1..b : Digits[k] \in Digit /\ <<Digits[k]>> \in Seq(Digit) /\ Len(<<Digits[k]>>) = 1
  BY DigitProps
<1>3. ASSUME NEW k \in 0..MaxAge
      PROVE  \E d \in Seq(Digit) : Len(d) = 1 /\ d = <<Digits[(k % b) + 1]>> /\
               AgeDigits[k] = (IF k < b THEN <<>> ELSE AgeDigits[k \div b]) \o d
  <2>1. (k % b) + 1 \in 1..b
    BY <1>1, AgeParts
  <2>2. <<Digits[(k % b) + 1]>> \in Seq(Digit) /\ Len(<<Digits[(k % b) + 1]>>) = 1
    BY <1>2, <2>1
  <2>3. AgeDigits[k] = (IF k < b THEN <<>> ELSE AgeDigits[k \div b]) \o <<Digits[(k % b) + 1]>>
    BY AgeDigitsIs DEF AgeStep
  <2> QED BY <2>2, <2>3
<1>4. \A x \in Seq(Digit), y \in Seq(Digit) :
         Len(y) = 1 => x \o y \in Seq(Digit) /\ Len(x \o y) = Len(x) + 1 /\ Len(x) \in Nat /\ <<>> \o y = y
  <2> SUFFICES ASSUME NEW x \in Seq(Digit), NEW y \in Seq(Digit), Len(y) = 1
               PROVE  x \o y \in Seq(Digit) /\ Len(x \o y) = Len(x) + 1 /\ Len(x) \in Nat /\ <<>> \o y = y
    OBVIOUS
  <2>1. x \o y \in Seq(Digit) /\ Len(x \o y) = Len(x) + Len(y)
    BY JoinProps
  <2>2. <<>> \o y = y /\ Len(x) \in Nat
    OBVIOUS
  <2> QED BY <2>1, <2>2
<1>5. Bad = {}
  <2>1. SUFFICES ASSUME Bad # {} PROVE FALSE
    OBVIOUS
  <2>2. Min(Bad) \in Bad /\ \A i \in Bad : Min(Bad) <= i
    <3>1. Bad \in SUBSET Nat
      BY <1>1
    <3> HIDE DEF Bad
    <3> QED BY <2>1, <3>1, MinProps
  <2>3. PICK k \in 0..MaxAge : k = Min(Bad) /\ ~Right(k)
    BY <2>2
  <2>4. PICK d \in Seq(Digit) : Len(d) = 1 /\
          AgeDigits[k] = (IF k < b THEN <<>> ELSE AgeDigits[k \div b]) \o d
    BY <1>3
  <2>5. CASE k < b
    <3>1. AgeDigits[k] = d
      BY <1>4, <2>4, <2>5
    <3> PICK a : a = AgeDigits[k]
      OBVIOUS
    <3>2. a \in Seq(Digit)
      BY <3>1
    <3>3. Len(a) = Len(d) /\ Len(d) = 1
      BY <2>4, <3>1, Zenon
    <3>4. Right(k)
      BY <3>2, <3>3
    <3> HIDE DEF Right
    <3> QED BY <2>3, <3>4
  <2>6. CASE k >= b
    <3>1. k \div b \in 0..(k - 1)
      BY <1>1, <2>6, AgeParts
    <3> PICK q \in 0..(k - 1) : q = k \div b
      BY <3>1
    <3>2. q \in 0..MaxAge /\ q \notin Bad
      <4> HIDE DEF Bad
      <4> QED BY <1>1, <2>2, <2>3
    <3>3. Right(q)
      <4> HIDE DEF Right
      <4> QED BY <3>2
    <3>4. AgeDigits[k] = AgeDigits[q] \o d
      <4>1. ~(k < b)
        BY <1>1, <2>6
      <4> QED BY <2>4, <4>1
    <3>5. AgeDigits[k] \in Seq(Digit) /\ Len(AgeDigits[k]) = Len(AgeDigits[q]) + 1 /\ Len(AgeDigits[q]) \in Nat
      BY <1>4, <2>4, <3>3, <3>4
    <3> QED BY <2>3, <3>3, <3>5
  <2>7. k < b \/ k >= b
    BY <1>1
  <2> QED BY <2>5, <2>6, <2>7
<1>6. \A k \in 0..MaxAge : Right(k)
  <2> HIDE DEF Right
  <2> QED BY <1>5
<1>7. ASSUME n < b PROVE AgeDigits[n] = <<Digits[n + 1]>>
  <2>1. n % b = n
    BY <1>1, <1>7, AgeParts
  <2>2. PICK d \in Seq(Digit) : Len(d) = 1 /\ d = <<Digits[(n % b) + 1]>> /\ AgeDigits[n] = <<>> \o d
    BY <1>3, <1>7
  <2> QED BY <1>4, <2>1, <2>2
<1>8. ASSUME n >= b PROVE Len(AgeDigits[n]) >= 2
  <2>1. n \div b \in 0..(n - 1)
    BY <1>1, <1>8, AgeParts
  <2> PICK q \in 0..MaxAge : q = n \div b
    BY <1>1, <2>1
  <2>2. PICK d \in Seq(Digit) : Len(d) = 1 /\ AgeDigits[n] = AgeDigits[q] \o d
    <3>1. ~(n < b)
      BY <1>1, <1>8
    <3> QED BY <1>3, <3>1
  <2>3. AgeDigits[q] \in Seq(Digit) /\ Len(AgeDigits[q]) >= 1
    BY <1>6
  <2>4. Len(AgeDigits[n]) = Len(AgeDigits[q]) + 1 /\ Len(AgeDigits[q]) \in Nat
    BY <1>4, <2>2, <2>3
  <2> QED BY <2>3, <2>4
<1> QED BY <1>6, <1>7, <1>8

-----------------------------------------------------------------------------
(* The identity of a file *)

(* The headers that have an identity.                                      *)
Identified == {h \in Headers : h.format # "other"}

(* The UUID is a GUID, what is stored a sequence of bytes.                 *)
LEMMA UuidProps ==
    ASSUME NEW h \in Identified
    PROVE  /\ Uuid(h) \in Guids /\ h.id \in Seq(Bytes) /\ h.age \in 0..MaxAge
           /\ h.format # "ELF" => h.id \in Guids
           /\ h.format \in {"ELF", "MachO", "PE", "PDB"}
<1>1. GuidLen \in Nat /\ GuidLen >= 2 /\ MaxAge \in Nat /\ MaxNote \in Nat
  BY IdentityConstants
<1>2. \A g \in Guids : Swapped(g) \in Guids
  BY <1>1 DEF Swapped, Guids
<1>3. Guids \in SUBSET Seq(Bytes)
  BY <1>1 DEF Guids
<1>4. Notes \in SUBSET Seq(Bytes)
  BY <1>1 DEF Notes
<1>5. \A note \in Seq(Bytes) : NoteGuid(note) \in Guids
  <2>1. Zero \in Bytes
    <3>1. Digits[1] \in Digit
      BY IdentityConstants, DigitProps
    <3> QED BY <3>1 DEF Zero, Bytes
  <2> SUFFICES ASSUME NEW note \in Seq(Bytes) PROVE NoteGuid(note) \in Guids
    OBVIOUS
  <2>2. \A i \in 1..GuidLen : (IF i <= Len(note) THEN note[i] ELSE Zero) \in Bytes
    BY <1>1, <2>1
  <2> QED BY <2>2 DEF NoteGuid, Guids
<1>6. \/ (h.format = "ELF" /\ h.id \in Notes /\ h.age = 0)
      \/ (h.format \in {"MachO", "PE", "PDB"} /\ h.id \in Guids /\ h.age \in 0..MaxAge)
  BY <1>1 DEF Identified, Headers
<1>7. CASE h.format = "ELF" /\ h.id \in Notes /\ h.age = 0
  <2>1. Uuid(h) = Swapped(NoteGuid(h.id))
    BY <1>7 DEF Uuid
  <2> QED BY <1>1, <1>2, <1>4, <1>5, <1>7, <2>1
<1>8. CASE h.format \in {"MachO", "PE", "PDB"} /\ h.id \in Guids /\ h.age \in 0..MaxAge
  <2>1. Uuid(h) = h.id \/ Uuid(h) = Swapped(h.id)
    BY <1>8 DEF Uuid
  <2> QED BY <1>2, <1>3, <1>8, <2>1
<1> QED BY <1>6, <1>7, <1>8

(* What a file is named by is made of digits.                              *)
LEMMA NamedProps ==
    ASSUME NEW h \in Identified
    PROVE  /\ hex_encode(Uuid(h)) \in Seq(Digit) /\ Len(hex_encode(Uuid(h))) = 2 * GuidLen
           /\ AgeDigits[h.age] \in Seq(Digit)
           /\ \A form \in Forms : Named(h, form) \in Seq(Digit)
           /\ \E k \in Nat : Len(raw_build_id(h)) = 2 * k
<1>1. GuidLen \in Nat /\ GuidLen >= 2
  BY IdentityConstants
<1>2. Guids \in SUBSET Seq(Bytes) /\ \A g \in Guids : Len(g) = GuidLen
  BY <1>1 DEF Guids
<1>3. Uuid(h) \in Seq(Bytes) /\ Len(Uuid(h)) = GuidLen /\ h.id \in Seq(Bytes) /\ h.age \in 0..MaxAge
  BY <1>2, UuidProps
<1>4. hex_encode(Uuid(h)) \in Seq(Digit) /\ Len(hex_encode(Uuid(h))) = 2 * GuidLen
  BY <1>3, HexProps
<1>5. AgeDigits[h.age] \in Seq(Digit)
  BY <1>3, AgeProps
<1>6. debug_id_str(h) \in Seq(Digit)
  BY <1>4, <1>5, JoinProps DEF debug_id_str
<1>7. PICK b \in Seq(Bytes) : raw_build_id(h) = hex_encode(b)
  BY <1>3 DEF raw_build_id
<1>8. raw_build_id(h) \in Seq(Digit) /\ Len(raw_build_id(h)) = 2 * Len(b) /\ Len(b) \in Nat
  BY <1>7, HexProps
<1>9. \A form \in Forms : Named(h, form) \in Seq(Digit)
  BY <1>4, <1>6, <1>8 DEF Named, Forms
<1> QED BY <1>4, <1>5, <1>8, <1>9

(* The aliases of a file are what it is named by.                          *)
LEMMA AliasesAre ==
    ASSUME NEW h \in Identified
    PROVE  aliases(h) = {Named(h, form) : form \in Forms}
<1>1. aliases(h) = {canonical_token(t) : t \in {debug_id_str(h), hex_encode(Uuid(h)), raw_build_id(h)}}
  BY DEF aliases, Identified
<1>2. {debug_id_str(h), hex_encode(Uuid(h)), raw_build_id(h)} = {Named(h, form) : form \in Forms}
  <2>1. /\ Named(h, "debug_id") = debug_id_str(h) /\ Named(h, "uuid") = hex_encode(Uuid(h))
        /\ Named(h, "raw") = raw_build_id(h)
    BY DEF Named
  <2> QED BY <2>1 DEF Forms
<1>3. \A form \in Forms : canonical_token(Named(h, form)) = Named(h, form)
  BY NamedProps, DigitsAreCanonical
<1> QED BY <1>1, <1>2, <1>3, Zenon

(* A debug-id with an age of one digit is no bare UUID and no raw build-id *)
(* of any file, and the debug-id of those files alone that have the same   *)
(* UUID and age.                                                           *)
LEMMA DebugIdIsOnes ==
    ASSUME NEW g \in Identified, NEW h \in Identified,
           h.age < Len(Digits), debug_id_str(h) \in aliases(g)
    PROVE  Uuid(g) = Uuid(h) /\ g.age = h.age /\ debug_id_str(g) = debug_id_str(h)
<1> PICK u : u = hex_encode(Uuid(h))
  OBVIOUS
<1> PICK v : v = hex_encode(Uuid(g))
  OBVIOUS
<1> PICK x : x = AgeDigits[h.age]
  OBVIOUS
<1> PICK y : y = AgeDigits[g.age]
  OBVIOUS
<1>1. /\ u \in Seq(Digit) /\ v \in Seq(Digit) /\ Len(u) = 2 * GuidLen /\ Len(v) = 2 * GuidLen
      /\ x \in Seq(Digit) /\ y \in Seq(Digit) /\ GuidLen \in Nat
  BY NamedProps, IdentityConstants
<1>2. h.age \in 0..MaxAge /\ g.age \in 0..MaxAge /\ MaxAge \in Nat /\ Len(Digits) \in Nat
  BY UuidProps, DigitProps, IdentityConstants
<1>3. x = <<Digits[h.age + 1]>> /\ Len(x) = 1
  <2> PICK k \in 0..MaxAge : k = h.age
    BY <1>2
  <2>1. AgeDigits[k] = <<Digits[k + 1]>>
    BY AgeProps
  <2> QED BY <2>1
<1>4. debug_id_str(h) = u \o x /\ debug_id_str(g) = v \o y
  BY DEF debug_id_str
<1>5. Len(u \o x) = 2 * GuidLen + 1 /\ Len(v \o y) = 2 * GuidLen + Len(y) /\ Len(y) \in Nat
  <2>1. Len(u \o x) = Len(u) + Len(x)
    <3>1. u \in Seq(Digit) /\ x \in Seq(Digit)
      BY <1>1
    <3> QED BY ONLY <3>1, JoinProps
  <2>2. Len(v \o y) = Len(v) + Len(y)
    <3>1. v \in Seq(Digit) /\ y \in Seq(Digit)
      BY <1>1
    <3> QED BY ONLY <3>1, JoinProps
  <2>3. Len(y) \in Nat
    BY <1>1
  <2> QED BY <1>1, <1>3, <2>1, <2>2, <2>3
<1>6. PICK form \in Forms : u \o x = Named(g, form)
  BY <1>4, AliasesAre
<1>7. form = "debug_id"
  <2>1. Named(g, "uuid") = v /\ Named(g, "raw") = raw_build_id(g)
    BY DEF Named
  <2>2. Len(v) # 2 * GuidLen + 1
    BY <1>1
  <2>3. Len(raw_build_id(g)) # 2 * GuidLen + 1
    <3>1. PICK k \in Nat : Len(raw_build_id(g)) = 2 * k
      BY NamedProps
    <3> QED BY <1>1, <3>1
  <2> QED BY <1>5, <1>6, <2>1, <2>2, <2>3 DEF Forms
<1>8. u \o x = v \o y
  BY <1>4, <1>6, <1>7 DEF Named
<1>9. Len(y) = 1
  <2> PICK l : l = Len(y)
    OBVIOUS
  <2>1. Len(u \o x) = Len(v \o y)
    BY <1>8, Zenon
  <2>2. 2 * GuidLen + 1 = 2 * GuidLen + l /\ l \in Nat
    BY <1>5, <2>1, Zenon
  <2>3. GuidLen \in Nat
    BY <1>1
  <2>4. l = 1
    BY ONLY <2>2, <2>3
  <2> QED BY <2>4
<1>10. y = <<Digits[g.age + 1]>>
  <2>1. g.age < Len(Digits)
    <3>1. g.age >= Len(Digits) => Len(y) >= 2
      BY AgeProps, <1>2
    <3> QED BY <1>2, <1>9, <3>1
  <2> QED BY <1>2, <2>1, AgeProps
<1> PICK n \in Nat : n = 2 * GuidLen
  BY <1>1
<1>11. \A i \in 1..n : u[i] = v[i]
  <2>1. \A i \in 1..Len(u) : (u \o x)[i] = u[i]
    BY <1>1, JoinProps
  <2>2. \A i \in 1..Len(v) : (v \o y)[i] = v[i]
    BY <1>1, JoinProps
  <2> QED BY <1>1, <1>8, <2>1, <2>2
<1>12. u = v
  BY <1>1, <1>11
<1>13. Uuid(h) = Uuid(g)
  <2>1. Uuid(h) \in Seq(Bytes) /\ Uuid(g) \in Seq(Bytes)
    BY UuidProps, <1>1 DEF Guids
  <2> QED BY <1>12, <2>1, HexInjective
<1>14. g.age = h.age
  <2>1. x[1] = y[1]
    <3>1. \A i \in 1..Len(x) : (u \o x)[Len(u) + i] = x[i]
      BY <1>1, JoinProps
    <3>2. \A i \in 1..Len(y) : (v \o y)[Len(v) + i] = y[i]
      BY <1>1, JoinProps
    <3>3. 1 \in 1..Len(x) /\ 1 \in 1..Len(y)
      BY <1>3, <1>9
    <3>4. (u \o x)[Len(u) + 1] = x[1] /\ (v \o y)[Len(v) + 1] = y[1]
      BY <3>1, <3>2, <3>3
    <3> QED BY <1>1, <1>8, <3>4
  <2>2. Digits[h.age + 1] = Digits[g.age + 1]
    BY <1>3, <1>10, <2>1
  <2>3. h.age + 1 \in DOMAIN Digits /\ g.age + 1 \in DOMAIN Digits
    <3>1. g.age < Len(Digits)
      <4>1. g.age >= Len(Digits) => Len(y) >= 2
        BY AgeProps, <1>2
      <4> QED BY <1>2, <1>9, <4>1
    <3> QED BY <1>2, <3>1, DigitProps
  <2>4. h.age + 1 = g.age + 1
    BY <2>2, <2>3, IdentityConstants
  <2> QED BY <1>2, <2>4
<1> QED BY <1>4, <1>8, <1>13, <1>14

-----------------------------------------------------------------------------
(* Indexing and matching *)

(* The index holds the aliases of the file or is empty, and stays empty    *)
(* where the file has no identity; the token of a frame is read as what    *)
(* names its module, and the index was complete when it was looked up.     *)
IdInv ==
    /\ file \in Headers
    /\ file.format = "other" => index = {}
    /\ index # {} => index = aliases(file)
    /\ frame = NoFrame \/
         (/\ frame.of \in Identified /\ frame.form \in Forms
          /\ canonical_token(frame.token) = Named(frame.of, frame.form)
          /\ located = (canonical_token(frame.token) \in index)
          /\ index # {} \/ file.format = "other")

(* A file is indexed once, and looked up only after that.                  *)
LEMMA IdInvHolds == IdSpec => []IdInv
<1>1. IdInit => IdInv
  BY DEF IdInit, IdInv
<1>2. IdInv /\ [IdNext]_idVars => IdInv'
  <2> SUFFICES ASSUME IdInv, [IdNext]_idVars PROVE IdInv'
    OBVIOUS
  <2>1. CASE IndexFile
    BY <2>1 DEF IdInv, IndexFile
  <2>2. CASE Locate
    <3>1. PICK h \in Identified, form \in Forms :
             \E t \in {Plain(Named(h, form)), Braced(Named(h, form))} :
               /\ frame' = [of |-> h, form |-> form, token |-> t]
               /\ located' = (canonical_token(t) \in index)
      BY <2>2 DEF Locate, Identified
    <3> PICK t \in {Plain(Named(h, form)), Braced(Named(h, form))} :
               /\ frame' = [of |-> h, form |-> form, token |-> t]
               /\ located' = (canonical_token(t) \in index)
      BY <3>1
    <3>2. canonical_token(t) = Named(h, form)
      <4>1. Named(h, form) \in Seq(Digit)
        BY NamedProps
      <4>2. canonical_token(Named(h, form)) = Named(h, form)
        BY <4>1, DigitsAreCanonical
      <4>3. canonical_token(Braced(Named(h, form))) = Named(h, form)
        BY <4>1, BracedIsRead
      <4> QED BY <4>2, <4>3 DEF Plain
    <3>3. frame'.of = h /\ frame'.form = form /\ frame'.token = t
          /\ located' = (canonical_token(t) \in index)
      OBVIOUS
    <3>4. index' = index /\ file' = file /\ (index # {} \/ file.format = "other")
      BY <2>2 DEF Locate
    <3> QED BY <3>1, <3>2, <3>3, <3>4 DEF IdInv
  <2>3. CASE UNCHANGED idVars
    BY <2>3 DEF IdInv, idVars
  <2> QED BY <2>1, <2>2, <2>3 DEF IdNext
<1> QED BY <1>1, <1>2, PTL DEF IdSpec

(* "Resolve is a key lookup, never a filename guess" (resolve.rs, id.rs):  *)
(* by debug-id and by UUID, in either spelling, a frame finds the symbols  *)
(* of its build, a PDB those of the PE image too.                          *)
THEOREM FramesFindTheirFiles == IdSpec => []FrameFindsItsFile
<1>1. IdInv => FrameFindsItsFile
  <2> SUFFICES ASSUME IdInv, frame # NoFrame, SameBuild(file, frame.of), frame.form # "raw"
               PROVE  located
    BY DEF FrameFindsItsFile
  <2> PICK h \in Identified : h = frame.of
    BY DEF IdInv
  <2> PICK form \in Forms : form = frame.form
    BY DEF IdInv
  <2>1. /\ file.id = h.id /\ file.age = h.age
        /\ file.format = h.format \/ {file.format, h.format} = {"PE", "PDB"}
    BY DEF SameBuild
  <2>2. h.format \in {"ELF", "MachO", "PE", "PDB"}
    BY UuidProps
  <2>3. file.format \in {"ELF", "MachO", "PE", "PDB"}
    BY <2>1, <2>2
  <2>4. file \in Identified /\ index = aliases(file)
    BY <2>3 DEF IdInv, Identified
  <2>5. Uuid(file) = Uuid(h)
    BY <2>1, <2>2 DEF Uuid
  <2>6. debug_id_str(file) = debug_id_str(h)
    BY <2>1, <2>5 DEF debug_id_str
  <2>7. Named(file, form) = Named(h, form)
    BY <2>5, <2>6 DEF Named, Forms
  <2>8. Named(file, form) \in index
    BY <2>4, AliasesAre
  <2> QED BY <2>7, <2>8 DEF IdInv
<1> QED BY <1>1, IdInvHolds, PTL

(* A debug-id whose age has one digit leads to a file of that UUID and age *)
(* alone (debug_id_str: the age appended to the UUID without a separator). *)
THEOREM DebugIdsAreApart == IdSpec => []DebugIdsApart
<1>1. IdInv => DebugIdsApart
  <2> SUFFICES ASSUME IdInv, frame # NoFrame, frame.form = "debug_id",
                      frame.of.age < Len(Digits), located
               PROVE  Uuid(file) = Uuid(frame.of) /\ file.age = frame.of.age
    BY DEF DebugIdsApart
  <2> PICK h \in Identified : h = frame.of
    BY DEF IdInv
  <2>1. debug_id_str(h) \in index
    BY DEF IdInv, Named
  <2>2. file \in Identified /\ index = aliases(file)
    BY <2>1 DEF IdInv, Identified
  <2> QED BY <2>1, <2>2, DebugIdIsOnes
<1> QED BY <1>1, IdInvHolds, PTL

(* The keys of an index and of its lookups are canonical (canonical_token, *)
(* aliases).                                                               *)
THEOREM KeysAreCanonical == IdSpec => []CanonicalKeys
<1>1. IdInv => CanonicalKeys
  <2> SUFFICES ASSUME IdInv, NEW t \in index \cup {canonical_token(frame.token)}
               PROVE  t \in Seq(Digit)
    BY DigitsAreCanonical DEF CanonicalKeys
  <2>1. CASE t \in index
    <3>1. file \in Identified /\ index = aliases(file)
      BY <2>1 DEF IdInv, Identified
    <3> QED BY <2>1, <3>1, AliasesAre, NamedProps
  <2>2. CASE t = canonical_token(frame.token) /\ frame # NoFrame
    BY <2>2, NamedProps DEF IdInv
  <2>3. CASE t = canonical_token(frame.token) /\ frame = NoFrame
    <3>1. frame.token = <<>> /\ <<>> \in Seq(Digit)
      BY <2>3 DEF NoFrame
    <3> PICK e \in Seq(Digit) : e = frame.token
      BY <3>1
    <3>2. canonical_token(e) \in Seq(Digit)
      BY DigitsAreCanonical
    <3> QED BY <2>3, <3>2
  <2> QED BY <2>1, <2>2, <2>3
<1> QED BY <1>1, IdInvHolds, PTL

-----------------------------------------------------------------------------
(* What module Ids assumes *)

(* Ids has a constant for each operator of this module: spellings are      *)
(* sequences of characters, images the headers with an identity and an age *)
(* of one digit (the hypothesis of DebugIdsApart).  CanonAssumption,       *)
(* IdentityAssumption and DebugIdAssumption of Ids, on which the proofs of *)
(* the registry, the state machine and the worker rest, hold of them       *)
(* (canonical_token, debug_id_str and aliases of id.rs).                   *)
Spelled == Seq(Chars)
CanonicalTokens == {canonical_token(s) : s \in Spelled}
Shown == {h \in Identified : h.age < Len(Digits)}

THEOREM DerivationMeetsIds ==
    /\ \A s \in Spelled :
         canonical_token(s) \in Spelled /\ canonical_token(canonical_token(s)) = canonical_token(s)
    /\ \A h \in Shown :
         /\ debug_id_str(h) \in CanonicalTokens /\ aliases(h) \in SUBSET CanonicalTokens
         /\ debug_id_str(h) \in aliases(h)
    /\ \A g, h \in Shown : debug_id_str(g) \in aliases(h) => debug_id_str(g) = debug_id_str(h)
<1>1. Seq(Digit) \in SUBSET Spelled
  BY DEF Spelled, Chars
<1>2. Seq(Digit) \in SUBSET CanonicalTokens
  <2> SUFFICES ASSUME NEW t \in Seq(Digit) PROVE t \in CanonicalTokens
    OBVIOUS
  <2>1. t \in Spelled /\ canonical_token(t) = t
    BY <1>1, DigitsAreCanonical
  <2> QED BY <2>1 DEF CanonicalTokens
<1>3. ASSUME NEW s \in Spelled
      PROVE  canonical_token(s) \in Spelled /\ canonical_token(canonical_token(s)) = canonical_token(s)
  <2>1. canonical_token(s) \in Seq(Digit)
    BY TokenOfDigits DEF Spelled
  <2> QED BY <1>1, <2>1, DigitsAreCanonical
<1>4. ASSUME NEW h \in Shown
      PROVE  /\ debug_id_str(h) \in CanonicalTokens /\ aliases(h) \in SUBSET CanonicalTokens
             /\ debug_id_str(h) \in aliases(h)
  <2>1. h \in Identified
    BY DEF Shown
  <2>2. aliases(h) = {Named(h, form) : form \in Forms}
    BY <2>1, AliasesAre
  <2>3. \A form \in Forms : Named(h, form) \in CanonicalTokens
    BY <1>2, <2>1, NamedProps
  <2>4. debug_id_str(h) = Named(h, "debug_id") /\ "debug_id" \in Forms
    BY DEF Named, Forms
  <2> QED BY <2>2, <2>3, <2>4
<1>5. ASSUME NEW g \in Shown, NEW h \in Shown, debug_id_str(g) \in aliases(h)
      PROVE  debug_id_str(g) = debug_id_str(h)
  BY <1>5, DebugIdIsOnes DEF Shown
<1> QED BY <1>3, <1>4, <1>5
=============================================================================
