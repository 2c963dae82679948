--------------------------- MODULE SequenceLemmas ---------------------------
(***************************************************************************)
(* What the other proofs use of numbers and of sequences that are joined:  *)
(* a least number, and what FlattenSeq makes of a sequence of sequences.   *)
(***************************************************************************)
EXTENDS Integers, SequencesExt, FunctionTheorems, FiniteSetTheorems, SequenceTheorems, WellFoundedInduction, TLAPS

(* A set of numbers has a least one. *)
LEMMA LeastNumber ==
  ASSUME NEW T, T \subseteq Nat, T # {}
  PROVE  \E x \in T : \A y \in T : x <= y
<1>1. PICK R : R = {ss \in Nat \X Nat : ss[1] < ss[2]}
  OBVIOUS
<1>2. IsWellFoundedOn(R, Nat)
  BY <1>1, NatLessThanWellFounded DEF OpToRel
<1>3. PICK x \in T : \A y \in T : ~(<<y, x>> \in R)
  BY <1>2, WFMin
<1>4. ASSUME NEW y \in T PROVE x <= y
  <2>1. x \in Nat /\ y \in Nat
    OBVIOUS
  <2>2. <<y, x>> \in Nat \X Nat /\ <<y, x>>[1] = y /\ <<y, x>>[2] = x
    BY <2>1
  <2>3. ~(y < x)
    BY <1>1, <1>3, <2>2
  <2> QED BY <2>1, <2>3
<1> QED BY <1>4

-----------------------------------------------------------------------------
(* Sequences that are joined. *)

(* FlattenSeq names a function that satisfies its recursion, if there is one. *)
LEMMA FlattenNames ==
  ASSUME NEW ss, Len(ss) # 0,
         \E f : f = [i \in 1..Len(ss) |-> IF i = 1 THEN ss[i] ELSE f[i - 1] \o ss[i]]
  PROVE  \E f : /\ f = [i \in 1..Len(ss) |-> IF i = 1 THEN ss[i] ELSE f[i - 1] \o ss[i]]
                /\ FlattenSeq(ss) = f[Len(ss)]
<1> DEFINE g == CHOOSE f : f = [i \in 1..Len(ss) |-> IF i = 1 THEN ss[i] ELSE f[i - 1] \o ss[i]]
<1>1. g = [i \in 1..Len(ss) |-> IF i = 1 THEN ss[i] ELSE g[i - 1] \o ss[i]]
  BY Zenon
<1>2. FlattenSeq(ss) = g[Len(ss)]
  BY Zenon DEF FlattenSeq
<1> HIDE DEF g
<1> QED BY <1>1, <1>2, Zenon

(* The sequences of ss joined one after the other, up to the n-th. *)
Joins(f, ss, n) ==
  /\ f[1] = ss[1]
  /\ \A i \in 2..n : f[i] = f[i - 1] \o ss[i]

LEMMA JoinsExist ==
  ASSUME NEW S, NEW ss \in Seq(Seq(S)), Len(ss) # 0
  PROVE  \E f \in [1..Len(ss) -> Seq(S)] : Joins(f, ss, Len(ss))
<1>1. Len(ss) \in Nat \ {0} /\ \A i \in 1..Len(ss) : ss[i] \in Seq(S)
  OBVIOUS
<1>2. PICK T : T = {n \in 1..Len(ss) : ~\E f \in [1..n -> Seq(S)] : Joins(f, ss, n)}
  OBVIOUS
<1>3. SUFFICES ASSUME T # {} PROVE FALSE
  BY <1>1, <1>2
<1> T \subseteq Nat
  BY <1>2
<1>4. PICK n \in T : \A y \in T : n <= y
  BY <1>3, LeastNumber
<1>5. n \in 1..Len(ss) /\ ~\E f \in [1..n -> Seq(S)] : Joins(f, ss, n)
  BY <1>2
<1>6. n # 1
  <2> SUFFICES ASSUME n = 1 PROVE FALSE
    OBVIOUS
  <2>1. PICK f : f = [i \in 1..1 |-> ss[1]]
    OBVIOUS
  <2>2. f \in [1..1 -> Seq(S)]
    BY <2>1, <1>1
  <2>3. Joins(f, ss, 1)
    BY <2>1 DEF Joins
  <2> QED BY <2>2, <2>3, <1>5
<1>7. n - 1 \in 1..Len(ss) /\ ~(n - 1 \in T) /\ n \in 2..Len(ss)
  BY <1>4, <1>5, <1>6, <1>1
<1>8. PICK f \in [1..(n - 1) -> Seq(S)] : Joins(f, ss, n - 1)
  BY <1>7, <1>2
<1>9. PICK g : g = [i \in 1..n |-> IF i = n THEN f[n - 1] \o ss[n] ELSE f[i]]
  OBVIOUS
<1>10. f[n - 1] \in Seq(S) /\ ss[n] \in Seq(S)
  BY <1>7, <1>1
<1>11. f[n - 1] \o ss[n] \in Seq(S)
  BY <1>10
<1>12. g \in [1..n -> Seq(S)]
  BY <1>9, <1>11, <1>7
<1>13. g[1] = ss[1]
  BY <1>9, <1>8, <1>7 DEF Joins
<1>14. ASSUME NEW i \in 2..n PROVE g[i] = g[i - 1] \o ss[i]
  <2>1. i \in 1..n /\ i - 1 \in 1..n /\ i - 1 # n
    BY <1>7
  <2>2. g[i - 1] = f[i - 1]
    BY <2>1, <1>9
  <2>3. CASE i = n
    BY <2>1, <2>2, <2>3, <1>9
  <2>4. CASE i # n
    <3>1. i \in 2..(n - 1)
      BY <2>4, <1>7
    <3> QED BY <3>1, <2>1, <2>2, <2>4, <1>9, <1>8 DEF Joins
  <2> QED BY <2>3, <2>4
<1> QED BY <1>12, <1>13, <1>14, <1>5 DEF Joins

LEMMA FlattenSteps ==
  ASSUME NEW S, NEW ss \in Seq(Seq(S)), Len(ss) # 0
  PROVE  \E f \in [1..Len(ss) -> Seq(S)] : Joins(f, ss, Len(ss)) /\ FlattenSeq(ss) = f[Len(ss)]
<1>1. Len(ss) \in Nat \ {0}
  OBVIOUS
<1>2. PICK f \in [1..Len(ss) -> Seq(S)] : Joins(f, ss, Len(ss))
  BY JoinsExist
<1>3. f = [i \in 1..Len(ss) |-> IF i = 1 THEN ss[i] ELSE f[i - 1] \o ss[i]]
  <2>1. ASSUME NEW i \in 1..Len(ss) PROVE f[i] = IF i = 1 THEN ss[i] ELSE f[i - 1] \o ss[i]
    <3>1. CASE i = 1
      BY <3>1, <1>2 DEF Joins
    <3>2. CASE i # 1
      <4>1. i \in 2..Len(ss)
        BY <3>2, <1>1
      <4> QED BY <4>1, <3>2, <1>2 DEF Joins
    <3> QED BY <3>1, <3>2
  <2>2. f = [i \in 1..Len(ss) |-> f[i]]
    BY Zenon
  <2> QED BY <2>1, <2>2, Zenon
<1>4. PICK g : /\ g = [i \in 1..Len(ss) |-> IF i = 1 THEN ss[i] ELSE g[i - 1] \o ss[i]]
               /\ FlattenSeq(ss) = g[Len(ss)]
  BY <1>1, <1>3, FlattenNames
<1>5. Joins(g, ss, Len(ss))
  <2>1. \A i \in 1..Len(ss) : g[i] = IF i = 1 THEN ss[i] ELSE g[i - 1] \o ss[i]
    BY <1>4, Zenon
  <2>2. 1 \in 1..Len(ss) /\ \A i \in 2..Len(ss) : i \in 1..Len(ss) /\ i # 1
    BY <1>1
  <2> QED BY <2>1, <2>2, Zenon DEF Joins
<1>6. ASSUME NEW n \in 1..Len(ss) PROVE g[n] = f[n]
  <2>1. PICK T : T = {i \in 1..Len(ss) : g[i] # f[i]}
    OBVIOUS
  <2>2. SUFFICES ASSUME T # {} PROVE FALSE
    BY <2>1
  <2> T \subseteq Nat
    BY <2>1
  <2>3. PICK k \in T : \A y \in T : k <= y
    BY <2>2, LeastNumber
  <2>4. k \in 1..Len(ss) /\ g[k] # f[k]
    BY <2>1
  <2>5. k # 1
    BY <2>4, <1>5, <1>2 DEF Joins
  <2>6. k \in 2..Len(ss) /\ k - 1 \in 1..Len(ss) /\ ~(k - 1 \in T)
    BY <2>3, <2>4, <2>5, <1>1
  <2>7. g[k - 1] = f[k - 1]
    BY <2>6, <2>1
  <2> QED BY <2>4, <2>6, <2>7, <1>5, <1>2 DEF Joins
<1>7. FlattenSeq(ss) = f[Len(ss)]
  <2>1. Len(ss) \in 1..Len(ss)
    BY <1>1
  <2> QED BY <2>1, <1>4, <1>6, Zenon
<1> QED BY <1>2, <1>7

LEMMA FlattenInSeq ==
  ASSUME NEW S, NEW ss \in Seq(Seq(S))
  PROVE  FlattenSeq(ss) \in Seq(S)
<1>1. CASE Len(ss) = 0
  <2>1. ss = <<>>
    BY <1>1
  <2>2. FlattenSeq(ss) = ss
    BY <1>1, Zenon DEF FlattenSeq
  <2>3. <<>> \in Seq(S)
    OBVIOUS
  <2> QED BY <2>1, <2>2, <2>3, Zenon
<1>2. CASE Len(ss) # 0
  <2>1. PICK f \in [1..Len(ss) -> Seq(S)] : Joins(f, ss, Len(ss)) /\ FlattenSeq(ss) = f[Len(ss)]
    BY <1>2, FlattenSteps
  <2>2. Len(ss) \in 1..Len(ss)
    BY <1>2
  <2>3. f[Len(ss)] \in Seq(S)
    BY <2>2, Zenon
  <2> QED BY <2>1, <2>3
<1> QED BY <1>1, <1>2

LEMMA FlattenEmpty == FlattenSeq(<<>>) = <<>>
<1>1. Len(<<>>) = 0
  OBVIOUS
<1> QED BY <1>1, Zenon DEF FlattenSeq

LEMMA FlattenAppend ==
  ASSUME NEW S, NEW ss \in Seq(Seq(S)), NEW s \in Seq(S)
  PROVE  FlattenSeq(Append(ss, s)) = FlattenSeq(ss) \o s
<1>1. PICK tt : tt = Append(ss, s)
  OBVIOUS
<1>2. /\ tt \in Seq(Seq(S)) /\ Len(tt) = Len(ss) + 1 /\ Len(ss) \in Nat /\ tt[Len(ss) + 1] = s
      /\ \A i \in 1..Len(ss) : tt[i] = ss[i]
  BY <1>1
<1> Len(tt) # 0
  BY <1>2
<1>3. PICK g \in [1..Len(tt) -> Seq(S)] : Joins(g, tt, Len(tt)) /\ FlattenSeq(tt) = g[Len(tt)]
  BY <1>2, FlattenSteps
<1>4. CASE Len(ss) = 0
  <2>1. ss = <<>>
    BY <1>4
  <2>2. FlattenSeq(tt) = s
    BY <1>2, <1>3, <1>4 DEF Joins
  <2>3. <<>> \o s = s
    OBVIOUS
  <2> QED BY <2>1, <2>2, <2>3, <1>1, FlattenEmpty
<1>5. CASE Len(ss) # 0
  <2>1. PICK f \in [1..Len(ss) -> Seq(S)] : Joins(f, ss, Len(ss)) /\ FlattenSeq(ss) = f[Len(ss)]
    BY <1>5, FlattenSteps
  <2>2. ASSUME NEW n \in 1..Len(ss) PROVE g[n] = f[n]
    <3>1. PICK T : T = {i \in 1..Len(ss) : g[i] # f[i]}
      OBVIOUS
    <3> T \subseteq Nat
      BY <3>1
    <3>2. SUFFICES ASSUME T # {} PROVE FALSE
      BY <3>1
    <3>3. PICK k \in T : \A y \in T : k <= y
      BY <3>2, LeastNumber
    <3>4. k \in 1..Len(ss) /\ g[k] # f[k] /\ tt[k] = ss[k]
      BY <3>1, <1>2
    <3>5. k # 1
      BY <3>4, <1>3, <2>1 DEF Joins
    <3>6. k \in 2..Len(ss) /\ k \in 2..Len(tt) /\ k - 1 \in 1..Len(ss) /\ ~(k - 1 \in T)
      BY <3>3, <3>4, <3>5, <1>2
    <3>7. g[k - 1] = f[k - 1]
      BY <3>6, <3>1
    <3>8. g[k] = g[k - 1] \o tt[k]
      BY <3>6, <1>3 DEF Joins
    <3>9. f[k] = f[k - 1] \o ss[k]
      BY <3>6, <2>1 DEF Joins
    <3> QED BY <3>4, <3>7, <3>8, <3>9
  <2>3. Len(ss) \in 1..Len(ss) /\ Len(tt) \in 2..Len(tt) /\ Len(tt) - 1 = Len(ss)
    BY <1>2, <1>5
  <2>4. g[Len(tt)] = g[Len(ss)] \o s
    BY <2>3, <1>3, <1>2 DEF Joins
  <2> QED BY <2>1, <2>2, <2>3, <2>4, <1>1, <1>3
<1> QED BY <1>4, <1>5

(* Where each of the joined sequences begins and ends. *)
Places(o, ss, joined, n) ==
  /\ o[0] = 0 /\ Len(joined) = o[n]
  /\ \A i \in 1..n : o[i] = o[i - 1] + Len(ss[i]) /\ o[i] <= Len(joined)
  /\ \A i \in 1..n : \A j \in 1..Len(ss[i]) : joined[o[i - 1] + j] = ss[i][j]

LEMMA FlattenPlaces ==
  ASSUME NEW S, NEW ss \in Seq(Seq(S))
  PROVE  \E o \in [0..Len(ss) -> Nat] : Places(o, ss, FlattenSeq(ss), Len(ss))
<1>1. CASE Len(ss) = 0
  <2>1. ss = <<>>
    BY <1>1
  <2>2. PICK o : o = [i \in 0..0 |-> 0]
    OBVIOUS
  <2>3. o \in [0..Len(ss) -> Nat]
    BY <2>2, <1>1
  <2>4. Len(FlattenSeq(ss)) = 0
    BY <2>1, FlattenEmpty
  <2> QED BY <2>2, <2>3, <2>4, <1>1 DEF Places
<1>2. CASE Len(ss) # 0
  <2>1. PICK f \in [1..Len(ss) -> Seq(S)] : Joins(f, ss, Len(ss)) /\ FlattenSeq(ss) = f[Len(ss)]
    BY <1>2, FlattenSteps
  <2>2. Len(ss) \in Nat \ {0} /\ Len(ss) \in 1..Len(ss) /\ \A i \in 1..Len(ss) : ss[i] \in Seq(S)
    BY <1>2
  <2>f. \A i \in 1..Len(ss) : f[i] \in Seq(S)
    BY Zenon
  <2>3. PICK T : T = {n \in 1..Len(ss) : ~\E o \in [0..n -> Nat] : Places(o, ss, f[n], n)}
    OBVIOUS
  <2> T \subseteq Nat
    BY <2>3
  <2>4. SUFFICES ASSUME T # {} PROVE FALSE
    <3>1. ASSUME T = {} PROVE \E o \in [0..Len(ss) -> Nat] : Places(o, ss, f[Len(ss)], Len(ss))
      BY <3>1, <2>2, <2>3
    <3> QED BY <3>1, <2>1
  <2>5. PICK n \in T : \A y \in T : n <= y
    BY <2>4, LeastNumber
  <2>6. n \in 1..Len(ss) /\ ~\E o \in [0..n -> Nat] : Places(o, ss, f[n], n)
    BY <2>3
  <2>7. n # 1
    <3> SUFFICES ASSUME n = 1 PROVE FALSE
      OBVIOUS
    <3>1. PICK o : o = [i \in 0..1 |-> IF i = 0 THEN 0 ELSE Len(ss[1])]
      OBVIOUS
    <3>2. f[1] = ss[1] /\ ss[1] \in Seq(S)
      BY <2>1, <2>2 DEF Joins
    <3>3. Len(ss[1]) \in Nat
      BY <3>2
    <3>4. o \in [0..1 -> Nat] /\ o[0] = 0 /\ o[1] = Len(ss[1])
      BY <3>1, <3>3
    <3>5. Places(o, ss, f[1], 1)
      <4>1. \A i \in 1..1 : i = 1 /\ i - 1 = 0
        OBVIOUS
      <4>2. \A j \in 1..Len(ss[1]) : 0 + j = j
        BY <3>3
      <4> QED BY <4>1, <4>2, <3>2, <3>3, <3>4 DEF Places
    <3> QED BY <3>4, <3>5, <2>6
  <2>8. n - 1 \in 1..Len(ss) /\ ~(n - 1 \in T) /\ n \in 2..Len(ss)
    BY <2>5, <2>6, <2>7, <2>2
  <2>9. PICK o \in [0..(n - 1) -> Nat] : Places(o, ss, f[n - 1], n - 1)
    BY <2>8, <2>3
  <2>10. f[n] = f[n - 1] \o ss[n] /\ f[n - 1] \in Seq(S) /\ ss[n] \in Seq(S)
    <3>1. f[n] = f[n - 1] \o ss[n]
      BY <2>8, <2>1 DEF Joins
    <3>2. f[n - 1] \in Seq(S)
      BY <2>8, <2>f, Zenon
    <3>3. ss[n] \in Seq(S)
      BY <2>6, <2>2
    <3> QED BY <3>1, <3>2, <3>3
  <2>11. PICK a \in Nat, b \in Nat : a = Len(f[n - 1]) /\ b = Len(ss[n])
    BY <2>10
  <2>12. Len(f[n]) = a + b /\ (\A j \in 1..a : f[n][j] = f[n - 1][j]) /\ \A j \in 1..b : f[n][a + j] = ss[n][j]
    <3>1. PICK x \in Seq(S), y \in Seq(S) : x = f[n - 1] /\ y = ss[n]
      BY <2>10, Zenon
    <3>2. f[n] = x \o y /\ a = Len(x) /\ b = Len(y)
      BY <3>1, <2>10, <2>11, Zenon
    <3>3. /\ Len(x \o y) = Len(x) + Len(y)
          /\ \A i \in 1 .. Len(x) + Len(y) : (x \o y)[i] = IF i <= Len(x) THEN x[i] ELSE y[i - Len(x)]
      BY ConcatProperties
    <3>4. Len(f[n]) = a + b /\ \A i \in 1..(a + b) : f[n][i] = IF i <= a THEN x[i] ELSE y[i - a]
      BY <3>2, <3>3, Zenon
    <3>5. \A j \in 1..a : j \in 1..(a + b) /\ j <= a
      OBVIOUS
    <3>6. \A j \in 1..b : a + j \in 1..(a + b) /\ ~(a + j <= a) /\ (a + j) - a = j
      OBVIOUS
    <3>7. \A j \in 1..a : f[n][j] = x[j]
      BY <3>4, <3>5, Zenon
    <3>8. \A j \in 1..b : f[n][a + j] = y[j]
      <4> TAKE j \in 1..b
      <4>1. f[n][a + j] = y[(a + j) - a]
        BY <3>4, <3>6, Zenon
      <4> QED BY <4>1, <3>6, Zenon
    <3> QED BY <3>1, <3>4, <3>7, <3>8, Zenon
  <2>13. PICK g : g = [i \in 0..n |-> IF i = n THEN a + b ELSE o[i]]
    OBVIOUS
  <2>14. g \in [0..n -> Nat] /\ g[n] = a + b /\ \A i \in 0..(n - 1) : g[i] = o[i]
    <3>1. n \in Nat /\ \A i \in 0..(n - 1) : i \in 0..n /\ i # n /\ o[i] \in Nat
      BY <2>8
    <3>2. \A i \in 0..n : i = n \/ i \in 0..(n - 1)
      BY <2>8
    <3>5. a + b \in Nat
      OBVIOUS
    <3>6. n \in 0..n
      BY <3>1
    <3>3. a + b \in Nat /\ n \in 0..n
      BY <3>5, <3>6
    <3>4. \A i \in 0..n : (IF i = n THEN a + b ELSE o[i]) \in Nat
      BY <3>1, <3>2, <3>3
    <3> QED BY <2>13, <3>1, <3>3, <3>4
  <2>15. o[0] = 0 /\ o[n - 1] = a /\ g[n - 1] = a
    BY <2>9, <2>11, <2>14, <2>8 DEF Places
  <2>16. ASSUME NEW i \in 1..n PROVE g[i] = g[i - 1] + Len(ss[i]) /\ g[i] <= Len(f[n])
    <3>1. CASE i = n
      BY <3>1, <2>11, <2>12, <2>14, <2>15
    <3>2. CASE i # n
      <4>1. i \in 1..(n - 1) /\ i \in 0..(n - 1) /\ i - 1 \in 0..(n - 1)
        BY <3>2, <2>8
      <4>2. o[i] = o[i - 1] + Len(ss[i]) /\ o[i] <= a
        BY <4>1, <2>9, <2>11 DEF Places
      <4>3. g[i] = o[i] /\ g[i - 1] = o[i - 1] /\ o[i] \in Nat
        BY <4>1, <2>14
      <4>4. PICK x : x = o[i]
        OBVIOUS
      <4>5. x \in Nat /\ x <= a
        BY <4>2, <4>3, <4>4
      <4>6. x <= a + b
        BY <4>5
      <4> QED BY <4>2, <4>3, <4>4, <4>6, <2>12
    <3> QED BY <3>1, <3>2
  <2>17. ASSUME NEW i \in 1..n, NEW j \in 1..Len(ss[i]) PROVE f[n][g[i - 1] + j] = ss[i][j]
    <3>1. CASE i = n
      BY <3>1, <2>11, <2>12, <2>15
    <3>2. CASE i # n
      <4>1. i \in 1..(n - 1) /\ i \in 0..(n - 1) /\ i - 1 \in 0..(n - 1) /\ i \in 1..Len(ss)
        BY <3>2, <2>8
      <4>2. o[i] = o[i - 1] + Len(ss[i]) /\ o[i] <= a /\ f[n - 1][o[i - 1] + j] = ss[i][j]
        BY <4>1, <2>9, <2>11 DEF Places
      <4>3. o[i - 1] \in Nat /\ Len(ss[i]) \in Nat
        BY <4>1, <2>2
      <4>4. o[i - 1] + j \in 1..a
        <5>1. PICK x \in Nat, y \in Nat : x = o[i - 1] /\ y = Len(ss[i])
          BY <4>3
        <5>2. j \in 1..y /\ x + y <= a
          BY <4>2, <5>1
        <5>3. x + j \in 1..a
          BY <5>2, <2>11
        <5> QED BY <5>1, <5>3
      <4> QED BY <4>1, <4>2, <4>4, <2>12, <2>14
    <3> QED BY <3>1, <3>2
  <2>18. Places(g, ss, f[n], n)
    BY <2>12, <2>14, <2>15, <2>16, <2>17, <2>8 DEF Places
  <2> QED BY <2>6, <2>14, <2>18
<1> QED BY <1>1, <1>2

(* What is joined after something joined. *)
LEMMA FlattenJoin ==
  ASSUME NEW S, NEW ss \in Seq(Seq(S)), NEW tt \in Seq(Seq(S))
  PROVE  FlattenSeq(ss \o tt) = FlattenSeq(ss) \o FlattenSeq(tt)
<1> DEFINE pre(n) == SubSeq(tt, 1, n)
           T == {n \in 0..Len(tt) : FlattenSeq(ss \o pre(n)) # FlattenSeq(ss) \o FlattenSeq(pre(n))}
<1>1. Len(tt) \in Nat /\ FlattenSeq(ss) \in Seq(S)
  BY FlattenInSeq
<1>2. \A n \in 0..Len(tt) : pre(n) \in Seq(Seq(S))
  BY <1>1
<1>3. pre(Len(tt)) = tt
  BY <1>1
<1>4. pre(0) = <<>>
  BY <1>1
<1>5. ASSUME NEW n \in 1..Len(tt) PROVE pre(n) = Append(pre(n - 1), tt[n]) /\ tt[n] \in Seq(S) /\ n - 1 \in 0..Len(tt)
  BY <1>1
<1> HIDE DEF pre
<1>6. SUFFICES ASSUME T # {} PROVE FALSE
  <2>1. Len(tt) \in 0..Len(tt)
    BY <1>1
  <2> QED BY <2>1, <1>3
<1>7. T \subseteq Nat
  BY <1>1
<1>8. PICK n \in T : \A y \in T : n <= y
  BY <1>6, <1>7, LeastNumber
<1> HIDE DEF T
<1>9. n \in 0..Len(tt) /\ FlattenSeq(ss \o pre(n)) # FlattenSeq(ss) \o FlattenSeq(pre(n))
  BY DEF T
<1>10. n # 0
  <2>1. ss \o <<>> = ss /\ FlattenSeq(ss) \o <<>> = FlattenSeq(ss)
    BY <1>1
  <2> QED BY <2>1, <1>4, <1>9, FlattenEmpty
<1>11. n \in 1..Len(tt) /\ ~(n - 1 \in T)
  BY <1>8, <1>9, <1>10, <1>1
<1>12. FlattenSeq(ss \o pre(n - 1)) = FlattenSeq(ss) \o FlattenSeq(pre(n - 1))
  BY <1>11, <1>5 DEF T
<1>13. PICK u \in Seq(Seq(S)), v \in Seq(S) : u = pre(n - 1) /\ v = tt[n] /\ pre(n) = Append(u, v)
  BY <1>11, <1>5, <1>2
<1>14. ss \o Append(u, v) = Append(ss \o u, v) /\ ss \o u \in Seq(Seq(S))
  OBVIOUS
<1>15. FlattenSeq(ss \o pre(n)) = FlattenSeq(ss \o u) \o v
  BY <1>13, <1>14, FlattenAppend, Zenon
<1>16. FlattenSeq(pre(n)) = FlattenSeq(u) \o v /\ FlattenSeq(u) \in Seq(S)
  BY <1>13, FlattenAppend, FlattenInSeq
<1>17. (FlattenSeq(ss) \o FlattenSeq(u)) \o v = FlattenSeq(ss) \o (FlattenSeq(u) \o v)
  BY <1>1, <1>16
<1> QED BY <1>9, <1>12, <1>13, <1>15, <1>16, <1>17

(* One piece, a first piece, and pieces that are all empty. *)
LEMMA FlattenOne ==
  ASSUME NEW S, NEW s \in Seq(S)
  PROVE  FlattenSeq(<<s>>) = s
<1>1. <<>> \in Seq(Seq(S)) /\ Append(<<>>, s) = <<s>> /\ <<>> \o s = s
  OBVIOUS
<1> QED BY <1>1, FlattenAppend, FlattenEmpty

LEMMA FlattenHead ==
  ASSUME NEW S, NEW ss \in Seq(Seq(S)), ss # <<>>
  PROVE  FlattenSeq(ss) = Head(ss) \o FlattenSeq(Tail(ss))
<1>0. Head(ss) \in Seq(S) /\ Tail(ss) \in Seq(Seq(S))
  OBVIOUS
<1>1. PICK h \in Seq(S), t \in Seq(Seq(S)) : h = Head(ss) /\ t = Tail(ss)
  BY <1>0, Zenon
<1>2. ss = <<h>> \o t /\ <<h>> \in Seq(Seq(S))
  BY <1>1
<1>3. FlattenSeq(<<h>> \o t) = FlattenSeq(<<h>>) \o FlattenSeq(t)
  BY <1>2, FlattenJoin
<1> QED BY <1>1, <1>2, <1>3, FlattenOne

LEMMA FlattenNothing ==
  ASSUME NEW S, NEW ss \in Seq(Seq(S)), \A i \in 1..Len(ss) : ss[i] = <<>>
  PROVE  FlattenSeq(ss) = <<>>
<1>1. CASE Len(ss) = 0
  <2>1. ss = <<>>
    BY <1>1
  <2> QED BY <2>1, FlattenEmpty
<1>2. CASE Len(ss) # 0
  <2>1. PICK f \in [1..Len(ss) -> Seq(S)] : Joins(f, ss, Len(ss)) /\ FlattenSeq(ss) = f[Len(ss)]
    BY <1>2, FlattenSteps
  <2>2. PICK T : T = {i \in 1..Len(ss) : f[i] # <<>>}
    OBVIOUS
  <2>3. Len(ss) \in Nat /\ Len(ss) \in 1..Len(ss)
    BY <1>2
  <2>4. SUFFICES ASSUME T # {} PROVE FALSE
    BY <2>1, <2>2, <2>3
  <2> T \subseteq Nat
    BY <2>2
  <2>5. PICK k \in T : \A y \in T : k <= y
    BY <2>4, LeastNumber
  <2>6. k \in 1..Len(ss) /\ f[k] # <<>> /\ ss[k] = <<>>
    BY <2>2
  <2>7. k # 1
    BY <2>6, <2>1 DEF Joins
  <2>8. k \in 2..Len(ss) /\ k - 1 \in 1..Len(ss) /\ ~(k - 1 \in T)
    BY <2>5, <2>6, <2>7, <2>3
  <2>9. f[k - 1] = <<>>
    BY <2>8, <2>2
  <2>10. f[k] = f[k - 1] \o ss[k]
    BY <2>8, <2>1 DEF Joins
  <2> QED BY <2>6, <2>9, <2>10
<1> QED BY <1>1, <1>2

LEMMA SeqAssoc ==
  ASSUME NEW S, NEW a \in Seq(S), NEW b \in Seq(S), NEW c \in Seq(S)
  PROVE  a \o (b \o c) = (a \o b) \o c
OBVIOUS

(* A sequence that is two others, place by place. *)
LEMMA JoinedByPlace ==
  ASSUME NEW S, NEW f \in Seq(S), NEW g \in Seq(S), NEW h \in Seq(S), Len(h) = Len(f) + Len(g),
         \A k \in 1..Len(f) : h[k] = f[k], \A k \in 1..Len(g) : h[Len(f) + k] = g[k]
  PROVE  h = f \o g
<1>1. Len(f) \in Nat /\ Len(g) \in Nat
  OBVIOUS
<1>2. PICK w : w = f \o g
  OBVIOUS
<1>3. w \in Seq(S) /\ Len(w) = Len(f) + Len(g) /\ \A k \in 1..(Len(f) + Len(g)) : w[k] = IF k <= Len(f) THEN f[k] ELSE g[k - Len(f)]
  BY <1>2, ConcatProperties
<1>4. ASSUME NEW k \in 1..(Len(f) + Len(g)) PROVE h[k] = w[k]
  <2>1. CASE k <= Len(f)
    BY <2>1, <1>1, <1>3
  <2>2. CASE ~(k <= Len(f))
    <3>1. k - Len(f) \in 1..Len(g) /\ Len(f) + (k - Len(f)) = k
      BY <2>2, <1>1
    <3> QED BY <3>1, <2>2, <1>3
  <2> QED BY <2>1, <2>2
<1>5. h = w
  BY <1>1, <1>3, <1>4
<1> QED BY <1>2, <1>5
=============================================================================
