-------------------------- MODULE RateLimiter_proofs --------------------------
(***************************************************************************)
(* Proofs about RateLimiter, for any set of keys, any limit, window and    *)
(* sweep period and any clock: the type invariant, the limit over every    *)
(* window, that a refusal is earned, and what a sweep leaves behind.       *)
(***************************************************************************)
EXTENDS RateLimiter, FiniteSetTheorems, SequenceTheorems, NaturalsInduction,
        WellFoundedInduction, TLAPS

\* A key is allowed at times that never go back and are not in the future.
OrderInv ==
    \A k \in Keys :
        /\ \A i \in 1 .. Len(allowed[k]) : allowed[k][i] <= now
        /\ \A i, j \in 1 .. Len(allowed[k]) : i <= j => allowed[k][i] <= allowed[k][j]

\* s is what is left of a after its first d entries.
IsRest(s, a, d) ==
    /\ d \in 0 .. Len(a)
    /\ Len(s) = Len(a) - d
    /\ \A i \in 1 .. Len(s) : s[i] = a[d + i]

\* What the limiter retains of a key is a suffix of what it allowed, and what
\* it has forgotten had left the window.
RetainInv ==
    \A k \in Keys : \E d \in 0 .. Len(allowed[k]) :
        /\ IsRest(hits[k], allowed[k], d)
        /\ \A i \in 1 .. d : allowed[k][i] <= Cutoff

IInv == TypeOK /\ OrderInv /\ RetainInv /\ LimitHolds

-----------------------------------------------------------------------------
(* The loop over a key's hits. *)

\* A set of naturals that is not empty has a least member.
LEMMA LeastNat ==
    ASSUME NEW S, S \subseteq Nat, S # {}
    PROVE  \E x \in S : \A y \in S : x <= y
<1>1. PICK x \in S : \A y \in S : ~(<<y, x>> \in OpToRel(<, Nat))
  BY WFMin, NatLessThanWellFounded
<1>2. \A y \in S : ~(y < x)
  BY <1>1 DEF OpToRel
<1> QED BY <1>2

\* In a sequence of times that never go back, the ones after a cutoff are the
\* ones behind some position.
LEMMA CutExists ==
    ASSUME NEW s \in Seq(Nat), NEW cutoff \in Int,
           \A i, j \in 1 .. Len(s) : i <= j => s[i] <= s[j]
    PROVE  \E m \in 0 .. Len(s) : \A i \in 1 .. Len(s) : s[i] > cutoff <=> i > m
<1> DEFINE Late == {n \in 0 .. Len(s) : n = Len(s) \/ s[n + 1] > cutoff}
<1>1. Len(s) \in Nat /\ \A i \in 1 .. Len(s) : s[i] \in Nat
  OBVIOUS
<1>2. Late \subseteq Nat /\ Len(s) \in Late
  BY <1>1
<1>3. PICK m \in Late : \A n \in Late : m <= n
  BY <1>2, LeastNat
<1>4. m \in 0 .. Len(s)
  OBVIOUS
<1>5. ASSUME NEW i \in 1 .. Len(s) PROVE s[i] > cutoff <=> i > m
  <2>1. CASE i > m
    <3>1. m + 1 \in 1 .. Len(s) /\ m + 1 <= i
      BY <1>1, <1>4, <2>1
    <3>2. s[m + 1] > cutoff
      BY <1>1, <3>1
    <3> QED BY <1>1, <2>1, <3>1, <3>2
  <2>2. CASE ~(i > m)
    <3>1. i - 1 \in 0 .. Len(s) /\ i - 1 < m
      BY <1>1, <1>4, <2>2
    <3>2. i - 1 \notin Late
      <4> HIDE DEF Late
      <4>1. ~(m <= i - 1)
        BY <1>1, <1>4, <3>1
      <4> QED BY <1>3, <4>1
    <3>3. ~(s[i] > cutoff)
      BY <1>1, <3>1, <3>2
    <3> QED BY <2>2, <3>3
  <2> QED BY <2>1, <2>2
<1> QED BY <1>4, <1>5

\* One turn of the loop, given what the turns before it kept.
Turn(s, cutoff, kept, i) ==
    IF i = 0 THEN <<>>
    ELSE IF s[i] > cutoff THEN Append(kept[i - 1], s[i]) ELSE kept[i - 1]

\* The loop in full: kept is the function its turns define.
LEMMA UnexpiredUnfolds ==
    ASSUME NEW s, NEW cutoff, NEW g, g = [i \in 0 .. Len(s) |-> Turn(s, cutoff, g, i)]
    PROVE  \E kept : /\ kept = [i \in 0 .. Len(s) |-> Turn(s, cutoff, kept, i)]
                     /\ Unexpired(s, cutoff) = kept[Len(s)]
<1> DEFINE kept == CHOOSE f : f = [i \in 0 .. Len(s) |-> Turn(s, cutoff, f, i)]
<1>1. kept = [i \in 0 .. Len(s) |-> Turn(s, cutoff, kept, i)]
  OBVIOUS
<1>2. Unexpired(s, cutoff) = kept[Len(s)]
  BY DEF Unexpired, Turn
<1> QED BY <1>1, <1>2

\* On times that never go back, the loop keeps exactly what follows the cut.
LEMMA UnexpiredIsRest ==
    ASSUME NEW S, S \subseteq Nat, NEW s \in Seq(S), NEW cutoff \in Int, NEW m \in 0 .. Len(s),
           \A i \in 1 .. Len(s) : s[i] > cutoff <=> i > m
    PROVE  IsRest(Unexpired(s, cutoff), s, m) /\ Unexpired(s, cutoff) \in Seq(S)
<1> DEFINE R(i) == SubSeq(s, m + 1, i)
           g == [i \in 0 .. Len(s) |-> R(i)]
<1>1. Len(s) \in Nat /\ \A i \in 1 .. Len(s) : s[i] \in S /\ s[i] \in Nat
  <2>1. Len(s) \in Nat /\ \A i \in 1 .. Len(s) : s[i] \in S
    OBVIOUS
  <2> QED BY <2>1, Zenon
<1>2. ASSUME NEW i \in 0 .. Len(s)
      PROVE  /\ R(i) \in Seq(S) /\ Len(R(i)) = (IF m + 1 <= i THEN i - m ELSE 0)
             /\ \A j \in 1 .. i - m : R(i)[j] = s[m + j]
  <2>1. \A j \in m + 1 .. i : s[j] \in S
    BY <1>1
  <2>2. m + 1 \in Int /\ i \in Int
    BY <1>1
  <2>3. /\ R(i) \in Seq(S) /\ Len(R(i)) = (IF m + 1 <= i THEN i - (m + 1) + 1 ELSE 0)
        /\ \A j \in 1 .. i - (m + 1) + 1 : R(i)[j] = s[(m + 1) + j - 1]
    BY <2>1, <2>2, SubSeqProperties
  <2> QED BY <1>1, <2>2, <2>3
<1> HIDE DEF R
<1>3. R(0) = <<>>
  BY <1>1, <1>2
<1>4. ASSUME NEW i \in 1 .. Len(s)
      PROVE  R(i) = IF s[i] > cutoff THEN Append(R(i - 1), s[i]) ELSE R(i - 1)
  <2>0. i - 1 \in 0 .. Len(s) /\ i \in 0 .. Len(s) /\ s[i] \in S
    BY <1>1
  <2>1. CASE i > m
    <3>1. /\ Append(R(i - 1), s[i]) \in Seq(S)
          /\ Len(Append(R(i - 1), s[i])) = i - m
          /\ Append(R(i - 1), s[i])[i - m] = s[i]
          /\ \A j \in 1 .. i - 1 - m : Append(R(i - 1), s[i])[j] = R(i - 1)[j]
      <4>1. Len(R(i - 1)) = i - 1 - m /\ R(i - 1) \in Seq(S)
        <5>1. /\ R(i - 1) \in Seq(S)
              /\ Len(R(i - 1)) = (IF m + 1 <= i - 1 THEN i - 1 - m ELSE 0)
          BY <1>2, <2>0
        <5>2. m \in Int /\ i \in Int /\ (m + 1 <= i - 1 \/ i - 1 - m = 0)
          BY <1>1, <2>1
        <5> QED BY <5>1, <5>2
      <4> QED BY <1>1, <2>0, <2>1, <4>1
    <3>2. Len(R(i)) = i - m /\ R(i) \in Seq(S)
      BY <1>1, <1>2, <2>0, <2>1
    <3>3. \A j \in 1 .. i - m : R(i)[j] = Append(R(i - 1), s[i])[j]
      <4> TAKE j \in 1 .. i - m
      <4>1. R(i)[j] = s[m + j]
        BY <1>2, <2>0
      <4>2. CASE j = i - m
        BY <1>1, <2>1, <3>1, <4>1, <4>2
      <4>3. CASE j # i - m
        <5>1. j \in 1 .. i - 1 - m
          BY <1>1, <2>1, <4>3
        <5> QED BY <1>2, <2>0, <3>1, <4>1, <5>1
      <4> QED BY <4>2, <4>3
    <3>4. R(i) = Append(R(i - 1), s[i])
      BY <3>1, <3>2, <3>3, SeqEqual
    <3> QED BY <2>1, <3>4
  <2>2. CASE ~(i > m)
    <3>1. Len(R(i)) = 0 /\ Len(R(i - 1)) = 0 /\ R(i) \in Seq(S) /\ R(i - 1) \in Seq(S)
      BY <1>1, <1>2, <2>0, <2>2
    <3> QED BY <2>2, <3>1
  <2> QED BY <2>1, <2>2
<1>5. g = [i \in 0 .. Len(s) |-> Turn(s, cutoff, g, i)]
  <2>1. ASSUME NEW i \in 0 .. Len(s) PROVE R(i) = Turn(s, cutoff, g, i)
    <3>1. CASE i = 0
      BY <1>3, <3>1 DEF Turn
    <3>2. CASE i # 0
      <4>1. i \in 1 .. Len(s) /\ i - 1 \in 0 .. Len(s)
        BY <1>1, <3>2
      <4>2. g[i - 1] = R(i - 1)
        BY <4>1
      <4> QED BY <1>4, <3>2, <4>1, <4>2 DEF Turn
    <3> QED BY <3>1, <3>2
  <2> QED BY <2>1
<1>6. PICK kept : /\ kept = [i \in 0 .. Len(s) |-> Turn(s, cutoff, kept, i)]
                  /\ Unexpired(s, cutoff) = kept[Len(s)]
  BY <1>5, UnexpiredUnfolds
<1>7. \A i \in 0 .. Len(s) : kept[i] = R(i)
  <2> DEFINE Bad == {i \in 0 .. Len(s) : kept[i] # R(i)}
  <2>1. SUFFICES ASSUME Bad # {} PROVE FALSE
    OBVIOUS
  <2>2. Bad \subseteq Nat
    BY <1>1
  <2>3. PICK i \in Bad : \A j \in Bad : i <= j
    BY <2>1, <2>2, LeastNat
  <2>4. kept[i] = Turn(s, cutoff, kept, i) /\ i \in 0 .. Len(s) /\ kept[i] # R(i)
    BY <1>6
  <2>5. CASE i = 0
    BY <1>3, <2>4, <2>5 DEF Turn
  <2>6. CASE i # 0
    <3>1. i \in 1 .. Len(s) /\ i - 1 \in 0 .. Len(s) /\ ~(i <= i - 1)
      BY <1>1, <2>4, <2>6
    <3>2. kept[i - 1] = R(i - 1)
      BY <2>3, <3>1
    <3> QED BY <1>4, <2>4, <2>6, <3>1, <3>2 DEF Turn
  <2> QED BY <2>5, <2>6
<1>8. Unexpired(s, cutoff) = R(Len(s))
  BY <1>1, <1>6, <1>7
<1>9. R(Len(s)) \in Seq(S) /\ IsRest(R(Len(s)), s, m)
  <2>1. Len(s) \in 0 .. Len(s)
    BY <1>1
  <2>2. Len(R(Len(s))) = Len(s) - m
    <3>1. Len(R(Len(s))) = (IF m + 1 <= Len(s) THEN Len(s) - m ELSE 0)
      BY <1>2, <2>1
    <3>2. m \in Int /\ (m + 1 <= Len(s) \/ Len(s) - m = 0)
      BY <1>1
    <3> QED BY <3>1, <3>2
  <2> QED BY <1>1, <1>2, <2>1, <2>2 DEF IsRest
<1> QED BY <1>8, <1>9

-----------------------------------------------------------------------------
(* What the limiter keeps. *)

\* The clock and the constants are numbers, and every window has some length.
LEMMA Numbers ==
    ASSUME TypeOK
    PROVE  /\ now \in Nat /\ Cutoff \in Int /\ Cutoff < now /\ Cutoff = now - Window
           /\ Limit \in Nat /\ Window \in Nat /\ Window > 0
           /\ \A k \in Keys : /\ hits[k] \in Seq(Nat) /\ allowed[k] \in Seq(Nat)
                              /\ Len(hits[k]) \in Nat /\ Len(allowed[k]) \in Nat
<1>1. now \in Nat /\ Limit \in Nat /\ Window \in Nat /\ Window > 0
  BY LimiterAssumption DEF TypeOK
<1>2. Cutoff \in Int /\ Cutoff < now /\ Cutoff = now - Window
  BY <1>1 DEF Cutoff
<1>3. ASSUME NEW k \in Keys
      PROVE  /\ hits[k] \in Seq(Nat) /\ allowed[k] \in Seq(Nat)
             /\ Len(hits[k]) \in Nat /\ Len(allowed[k]) \in Nat
  <2>1. 0 .. MaxTime \subseteq Nat
    BY LimiterAssumption
  <2>2. hits[k] \in Seq(0 .. MaxTime) /\ allowed[k] \in Seq(0 .. MaxTime)
    BY DEF TypeOK
  <2>3. hits[k] \in Seq(Nat)
    BY <2>1, <2>2, SeqMonotonic, Zenon
  <2>4. allowed[k] \in Seq(Nat)
    BY <2>1, <2>2, SeqMonotonic, Zenon
  <2> QED BY <2>3, <2>4
<1> QED BY <1>1, <1>2, <1>3

\* What Allow counts for a key is what was allowed after some position, and
\* those are exactly the calls within the window: neither a sweep nor an
\* earlier call has lost one of them.
LEMMA KeptIsWindow ==
    ASSUME TypeOK, OrderInv, RetainInv, NEW k \in Keys
    PROVE  \E m \in 0 .. Len(allowed[k]) :
             /\ IsRest(Kept(k), allowed[k], m)
             /\ Kept(k) \in Seq(0 .. MaxTime)
             /\ \A i \in 1 .. Len(allowed[k]) : allowed[k][i] > Cutoff <=> i > m
<1>1. PICK a : a = allowed[k]
  OBVIOUS
<1>2. PICK h : h = hits[k]
  OBVIOUS
<1>3. /\ a \in Seq(Nat) /\ h \in Seq(Nat) /\ Cutoff \in Int /\ Len(a) \in Nat /\ Len(h) \in Nat
      /\ \A i \in 1 .. Len(a) : a[i] \in Nat
  <2>1. a \in Seq(Nat) /\ h \in Seq(Nat) /\ Cutoff \in Int /\ Len(a) \in Nat /\ Len(h) \in Nat
    BY <1>1, <1>2, Numbers
  <2> QED BY <2>1
<1>4. \A i, j \in 1 .. Len(a) : i <= j => a[i] <= a[j]
  BY <1>1 DEF OrderInv
<1>5. PICK d \in 0 .. Len(a) : IsRest(h, a, d) /\ \A i \in 1 .. d : a[i] <= Cutoff
  BY <1>1, <1>2 DEF RetainInv
<1>6. /\ Len(h) = Len(a) - d /\ \A i \in 1 .. Len(h) : h[i] = a[d + i]
  BY <1>5 DEF IsRest
<1>7. CASE Swept(k)
  <2>1. Kept(k) = <<>>
    BY <1>7 DEF Kept
  <2>2. ASSUME NEW i \in 1 .. Len(a) PROVE ~(a[i] > Cutoff)
    <3>1. CASE i <= d
      BY <1>3, <1>5, <3>1
    <3>2. CASE ~(i <= d)
      <4>1. Len(h) \in 1 .. Len(h) /\ d + Len(h) = Len(a) /\ Len(a) \in 1 .. Len(a)
        BY <1>3, <1>6, <3>2
      <4>2. h # <<>>
        BY <4>1
      <4>3. h[Len(h)] <= Cutoff
        BY <1>2, <1>7, <4>2 DEF Swept, Stale, Last
      <4>4. a[Len(a)] <= Cutoff
        BY <1>6, <4>1, <4>3
      <4>5. a[i] <= a[Len(a)]
        BY <1>3, <1>4, <4>1
      <4> QED BY <1>3, <4>1, <4>4, <4>5
    <3> QED BY <3>1, <3>2
  <2>3. IsRest(<<>>, a, Len(a))
    BY <1>3 DEF IsRest
  <2>4. \A i \in 1 .. Len(a) : a[i] > Cutoff <=> i > Len(a)
    BY <1>3, <2>2
  <2>5. <<>> \in Seq(0 .. MaxTime) /\ Len(a) \in 0 .. Len(a)
    BY <1>3
  <2> QED BY <1>1, <2>1, <2>3, <2>4, <2>5
<1>8. CASE ~Swept(k)
  <2>1. Kept(k) = Unexpired(h, Cutoff)
    BY <1>2, <1>8 DEF Kept
  <2>2. \A i, j \in 1 .. Len(h) : i <= j => h[i] <= h[j]
    <3> TAKE i, j \in 1 .. Len(h)
    <3>1. d + i \in 1 .. Len(a) /\ d + j \in 1 .. Len(a) /\ (i <= j => d + i <= d + j)
      BY <1>3, <1>6
    <3> QED BY <1>4, <1>6, <3>1
  <2>3. PICK n \in 0 .. Len(h) : \A i \in 1 .. Len(h) : h[i] > Cutoff <=> i > n
    BY <1>3, <2>2, CutExists
  <2>4. IsRest(Unexpired(h, Cutoff), h, n) /\ Unexpired(h, Cutoff) \in Seq(0 .. MaxTime)
    <3>1. h \in Seq(0 .. MaxTime) /\ 0 .. MaxTime \subseteq Nat
      BY <1>2, LimiterAssumption DEF TypeOK
    <3> QED BY <1>3, <2>3, <3>1, UnexpiredIsRest
  <2>5. PICK u : u = Unexpired(h, Cutoff)
    OBVIOUS
  <2>6. /\ u \in Seq(0 .. MaxTime) /\ Len(u) \in Nat /\ Len(u) = Len(h) - n
        /\ \A i \in 1 .. Len(u) : u[i] = h[n + i]
    BY <2>4, <2>5 DEF IsRest
  <2>7. d + n \in 0 .. Len(a) /\ Len(u) = Len(a) - (d + n)
    BY <1>3, <1>6, <2>6
  <2>8. \A i \in 1 .. Len(u) : u[i] = a[(d + n) + i]
    <3> TAKE i \in 1 .. Len(u)
    <3>1. n + i \in 1 .. Len(h) /\ d + (n + i) = (d + n) + i
      BY <1>3, <2>6
    <3> QED BY <1>6, <2>6, <3>1
  <2>9. ASSUME NEW i \in 1 .. Len(a) PROVE a[i] > Cutoff <=> i > d + n
    <3>1. CASE i <= d
      BY <1>3, <1>5, <3>1
    <3>2. CASE ~(i <= d)
      <4>1. i - d \in 1 .. Len(h) /\ d + (i - d) = i
        BY <1>3, <1>6, <3>2
      <4>2. h[i - d] = a[i]
        BY <1>6, <4>1
      <4>3. a[i] > Cutoff <=> i - d > n
        BY <2>3, <4>1, <4>2
      <4> QED BY <1>3, <4>1, <4>3
    <3> QED BY <3>1, <3>2
  <2> QED BY <1>1, <2>1, <2>5, <2>7, <2>6, <2>8, <2>9 DEF IsRest
<1> QED BY <1>7, <1>8

-----------------------------------------------------------------------------
(* The steps. *)

\* A new limiter has allowed nothing and retains nothing.
LEMMA InitIInv == Init => IInv
<1> SUFFICES ASSUME Init PROVE IInv
  OBVIOUS
<1>1. TypeOK
  <2>1. <<>> \in Seq(0 .. MaxTime)
    OBVIOUS
  <2> QED BY <2>1, LimiterAssumption DEF Init, TypeOK
<1>2. \A k \in Keys : allowed[k] = <<>> /\ hits[k] = <<>> /\ Len(allowed[k]) = 0
  BY DEF Init
<1>3. OrderInv /\ LimitHolds
  BY <1>2, LimiterAssumption DEF OrderInv, LimitHolds
<1>4. RetainInv
  <2> SUFFICES ASSUME NEW k \in Keys
               PROVE  \E d \in 0 .. Len(allowed[k]) :
                        /\ IsRest(hits[k], allowed[k], d)
                        /\ \A i \in 1 .. d : allowed[k][i] <= Cutoff
    BY DEF RetainInv
  <2>1. 0 \in 0 .. Len(allowed[k]) /\ IsRest(hits[k], allowed[k], 0)
    BY <1>2 DEF IsRest
  <2> QED BY <2>1
<1> QED BY <1>1, <1>3, <1>4 DEF IInv

\* The window moves on: what had left it stays out of it.
LEMMA TickStep == ASSUME IInv, Tick PROVE IInv'
<1>1. TypeOK'
  BY LimiterAssumption DEF IInv, TypeOK, Tick
<1>2. /\ now \in Nat /\ now' = now + 1 /\ Cutoff \in Int /\ Cutoff' = Cutoff + 1
      /\ hits' = hits /\ allowed' = allowed
      /\ \A k \in Keys : \A i \in 1 .. Len(allowed[k]) : allowed[k][i] \in Nat
  <2>1. TypeOK
    BY DEF IInv
  <2>2. now \in Nat /\ Cutoff = now - Window /\ Window \in Nat
    BY <2>1, Numbers
  <2>3. now' = now + 1 /\ hits' = hits /\ allowed' = allowed
    BY DEF Tick
  <2>4. \A k \in Keys : \A i \in 1 .. Len(allowed[k]) : allowed[k][i] \in Nat
    BY <2>1, Numbers
  <2>5. Cutoff' = now' - Window
    BY DEF Cutoff
  <2> QED BY <2>2, <2>3, <2>4, <2>5
<1>3. OrderInv'
  BY <1>2 DEF IInv, OrderInv
<1>4. RetainInv'
  <2> SUFFICES ASSUME NEW k \in Keys
               PROVE  \E d \in 0 .. Len(allowed'[k]) :
                        /\ IsRest(hits'[k], allowed'[k], d)
                        /\ \A i \in 1 .. d : allowed'[k][i] <= Cutoff'
    BY DEF RetainInv, IsRest
  <2>1. PICK d \in 0 .. Len(allowed[k]) :
          IsRest(hits[k], allowed[k], d) /\ \A i \in 1 .. d : allowed[k][i] <= Cutoff
    BY DEF IInv, RetainInv
  <2>2. \A i \in 1 .. d : allowed'[k][i] <= Cutoff'
    <3>1. Len(allowed[k]) \in Nat
      BY Numbers DEF IInv
    <3> QED BY <1>2, <2>1, <3>1
  <2>3. IsRest(hits'[k], allowed'[k], d) /\ d \in 0 .. Len(allowed'[k])
    BY <1>2, <2>1
  <2> QED BY <2>2, <2>3
<1>5. LimitHolds'
  BY <1>2 DEF IInv, LimitHolds
<1> QED BY <1>1, <1>3, <1>4, <1>5 DEF IInv

\* The same time at the end of both keeps a suffix a suffix.
LEMMA AppendRest ==
    ASSUME NEW S, NEW s \in Seq(S), NEW a \in Seq(S), NEW x \in S, NEW d, IsRest(s, a, d)
    PROVE  IsRest(Append(s, x), Append(a, x), d)
<1>1. /\ Len(s) \in Nat /\ Len(a) \in Nat /\ d \in 0 .. Len(a) /\ Len(s) = Len(a) - d
      /\ \A i \in 1 .. Len(s) : s[i] = a[d + i]
  BY DEF IsRest
<1>2. Len(Append(s, x)) = Len(s) + 1 /\ Len(Append(a, x)) = Len(a) + 1
  OBVIOUS
<1>3. ASSUME NEW i \in 1 .. Len(s) + 1 PROVE Append(s, x)[i] = Append(a, x)[d + i]
  <2>1. CASE i = Len(s) + 1
    <3>1. d + i = Len(a) + 1
      BY <1>1, <2>1
    <3> QED BY <1>1, <2>1, <3>1, AppendProperties
  <2>2. CASE i # Len(s) + 1
    <3>1. i \in 1 .. Len(s) /\ d + i \in 1 .. Len(a)
      BY <1>1, <2>2
    <3>2. Append(s, x)[i] = s[i] /\ Append(a, x)[d + i] = a[d + i]
      BY <3>1, AppendProperties
    <3> QED BY <1>1, <3>1, <3>2
  <2> QED BY <2>1, <2>2
<1>4. d \in 0 .. Len(Append(a, x)) /\ Len(Append(s, x)) = Len(Append(a, x)) - d
  BY <1>1, <1>2
<1> QED BY <1>2, <1>3, <1>4 DEF IsRest

\* What a call does to the hits and the history of every key.
LEMMA AllowFacts ==
    ASSUME TypeOK, NEW k \in Keys, Allow(k)
    PROVE  /\ now' = now /\ Cutoff' = Cutoff /\ Permits(k) \in BOOLEAN
           /\ Permits(k) => /\ hits'[k] = Append(Kept(k), now)
                            /\ allowed'[k] = Append(allowed[k], now)
           /\ ~Permits(k) => hits'[k] = Kept(k) /\ allowed'[k] = allowed[k]
           /\ \A j \in Keys \ {k} : allowed'[j] = allowed[j]
           /\ \A j \in Keys \ {k} : Swept(j) => hits'[j] = Kept(j)
           /\ \A j \in Keys \ {k} : ~Swept(j) => hits'[j] = hits[j]
           /\ DOMAIN hits' = Keys /\ DOMAIN allowed' = Keys
           /\ hits' = [j \in Keys |-> hits'[j]] /\ allowed' = [j \in Keys |-> allowed'[j]]
<1>1. now' = now /\ Cutoff' = Cutoff /\ Permits(k) \in BOOLEAN
  BY DEF Allow, Cutoff, Permits
<1>2. PICK h : h = hits'
  OBVIOUS
<1>3. h = [j \in Keys |-> CASE j = k /\ Permits(k)  -> Append(Kept(k), now)
                            [] j = k /\ ~Permits(k) -> Kept(k)
                            [] j # k /\ Swept(j)    -> <<>>
                            [] OTHER                -> hits[j]]
  BY <1>2 DEF Allow
<1>4. Permits(k) => h[k] = Append(Kept(k), now)
  BY <1>3
<1>5. ~Permits(k) => h[k] = Kept(k)
  BY <1>3
<1>6. \A j \in Keys \ {k} : Swept(j) => h[j] = Kept(j)
  BY <1>3 DEF Kept
<1>7. \A j \in Keys \ {k} : ~Swept(j) => h[j] = hits[j]
  BY <1>3
<1>8. DOMAIN h = Keys /\ h = [j \in Keys |-> h[j]]
  BY <1>3
<1>9. /\ Permits(k) => allowed'[k] = Append(allowed[k], now)
      /\ ~Permits(k) => allowed'[k] = allowed[k]
      /\ \A j \in Keys \ {k} : allowed'[j] = allowed[j]
      /\ DOMAIN allowed' = Keys /\ allowed' = [j \in Keys |-> allowed'[j]]
  BY DEF Allow, TypeOK
<1> QED BY <1>1, <1>2, <1>4, <1>5, <1>6, <1>7, <1>8, <1>9

\* A call permits one more event only when fewer than Limit are in the window,
\* and forgets only what is not.
LEMMA AllowStep == ASSUME IInv, NEW k \in Keys, Allow(k) PROVE IInv'
<1>1. TypeOK /\ OrderInv /\ RetainInv /\ LimitHolds
  BY DEF IInv
<1>2. /\ now \in Nat /\ Cutoff \in Int /\ Cutoff = now - Window
      /\ Limit \in Nat /\ Window \in Nat /\ now \in 0 .. MaxTime
      /\ \A j \in Keys : allowed[j] \in Seq(0 .. MaxTime) /\ hits[j] \in Seq(0 .. MaxTime)
      /\ \A j \in Keys : Len(allowed[j]) \in Nat /\ allowed[j] \in Seq(Nat)
  BY <1>1, Numbers DEF TypeOK
<1>3. PICK m \in 0 .. Len(allowed[k]) :
        /\ IsRest(Kept(k), allowed[k], m)
        /\ Kept(k) \in Seq(0 .. MaxTime)
        /\ \A i \in 1 .. Len(allowed[k]) : allowed[k][i] > Cutoff <=> i > m
  BY <1>1, KeptIsWindow
<1>4. PICK a : a = allowed[k]
  OBVIOUS
<1>5. PICK b : b = Append(a, now)
  OBVIOUS
<1>6. /\ a \in Seq(0 .. MaxTime) /\ b \in Seq(0 .. MaxTime) /\ Len(a) \in Nat
      /\ Len(b) = Len(a) + 1 /\ b[Len(a) + 1] = now
      /\ \A i \in 1 .. Len(a) : b[i] = a[i] /\ a[i] \in Nat
  BY <1>2, <1>4, <1>5
<1>7. (allowed'[k] = b /\ Permits(k)) \/ (allowed'[k] = a /\ ~Permits(k))
  <2>1. Permits(k) => allowed'[k] = Append(allowed[k], now)
    BY <1>1, AllowFacts
  <2>2. ~Permits(k) => allowed'[k] = allowed[k]
    BY <1>1, AllowFacts
  <2>3. CASE Permits(k)
    <3>1. allowed'[k] = b
      BY <1>4, <1>5, <2>1, <2>3
    <3> QED BY <2>3, <3>1, Zenon
  <2>4. CASE ~Permits(k)
    BY <1>4, <2>2, <2>4, Zenon
  <2> QED BY <2>3, <2>4
<1>8. \A j \in Keys : hits'[j] \in Seq(0 .. MaxTime) /\ allowed'[j] \in Seq(0 .. MaxTime)
  <2>1. ASSUME NEW j \in Keys \ {k}
        PROVE  hits'[j] \in Seq(0 .. MaxTime) /\ allowed'[j] \in Seq(0 .. MaxTime)
    <3>1. Swept(j) => hits'[j] = <<>>
      BY <1>1, AllowFacts DEF Kept
    <3>2. <<>> \in Seq(0 .. MaxTime)
      OBVIOUS
    <3>3. CASE Swept(j)
      BY <1>1, <1>2, <3>1, <3>2, <3>3, AllowFacts
    <3>4. CASE ~Swept(j)
      BY <1>1, <1>2, <3>4, AllowFacts
    <3> QED BY <3>3, <3>4
  <2>2. Append(Kept(k), now) \in Seq(0 .. MaxTime)
    BY <1>2, <1>3
  <2>3. hits'[k] \in Seq(0 .. MaxTime)
    BY <1>1, <1>3, <2>2, AllowFacts
  <2>4. allowed'[k] \in Seq(0 .. MaxTime)
    BY <1>6, <1>7
  <2> QED BY <2>1, <2>3, <2>4
<1>9. TypeOK'
  <2>1. now' \in 0 .. MaxTime /\ tracked' \subseteq Keys
    BY <1>1 DEF TypeOK, Allow
  <2>2. swept' \in 0 .. SweepEvery - 1
    BY <1>1, LimiterAssumption DEF TypeOK, Allow, Sweeps
  <2>3. hits' \in [Keys -> Seq(0 .. MaxTime)] /\ allowed' \in [Keys -> Seq(0 .. MaxTime)]
    <3>1. hits' = [j \in Keys |-> hits'[j]] /\ allowed' = [j \in Keys |-> allowed'[j]]
      BY <1>1, AllowFacts
    <3> QED BY <1>8, <3>1
  <2> QED BY <2>1, <2>2, <2>3 DEF TypeOK
<1>10. OrderInv'
  <2> SUFFICES ASSUME NEW j \in Keys
               PROVE  /\ \A i \in 1 .. Len(allowed'[j]) : allowed'[j][i] <= now'
                      /\ \A i, n \in 1 .. Len(allowed'[j]) :
                           i <= n => allowed'[j][i] <= allowed'[j][n]
    BY DEF OrderInv
  <2>1. now' = now
    BY <1>1, AllowFacts
  <2>2. CASE allowed'[j] = allowed[j]
    BY <1>1, <2>1, <2>2 DEF OrderInv
  <2>3. CASE j = k /\ allowed'[k] = b
    <3>1. /\ \A i \in 1 .. Len(a) : a[i] <= now
          /\ \A i, n \in 1 .. Len(a) : i <= n => a[i] <= a[n]
      BY <1>1, <1>4 DEF OrderInv
    <3>2. \A i \in 1 .. Len(b) : b[i] <= now
      <4> TAKE i \in 1 .. Len(b)
      <4>1. i \in 1 .. Len(a) \/ i = Len(a) + 1
        BY <1>6
      <4>2. CASE i \in 1 .. Len(a)
        BY <1>6, <3>1, <4>2
      <4>3. CASE i = Len(a) + 1
        BY <1>2, <1>6, <4>3
      <4> QED BY <4>1, <4>2, <4>3
    <3>3. ASSUME NEW i \in 1 .. Len(b), NEW n \in 1 .. Len(b), i <= n PROVE b[i] <= b[n]
      <4>1. CASE n = Len(a) + 1
        BY <1>6, <3>2, <4>1
      <4>2. CASE n # Len(a) + 1
        <5>1. n \in 1 .. Len(a) /\ i \in 1 .. Len(a)
          BY <1>6, <3>3, <4>2
        <5> QED BY <1>6, <3>1, <3>3, <5>1
      <4> QED BY <4>1, <4>2
    <3> QED BY <2>1, <2>3, <3>2, <3>3
  <2>4. allowed'[j] = allowed[j] \/ (j = k /\ allowed'[k] = b)
    BY <1>1, <1>4, <1>7, AllowFacts
  <2> QED BY <2>2, <2>3, <2>4
<1>11. RetainInv'
  <2> SUFFICES ASSUME NEW j \in Keys
               PROVE  \E d \in 0 .. Len(allowed'[j]) :
                        /\ IsRest(hits'[j], allowed'[j], d)
                        /\ \A i \in 1 .. d : allowed'[j][i] <= Cutoff'
    BY DEF RetainInv, IsRest
  <2>1. Cutoff' = Cutoff
    BY <1>1, AllowFacts
  <2>2. CASE j # k /\ ~Swept(j)
    BY <1>1, <2>1, <2>2, AllowFacts DEF RetainInv
  <2>3. CASE j # k /\ Swept(j)
    <3>1. PICK n \in 0 .. Len(allowed[j]) :
            /\ IsRest(Kept(j), allowed[j], n)
            /\ \A i \in 1 .. Len(allowed[j]) : allowed[j][i] > Cutoff <=> i > n
      BY <1>1, KeptIsWindow
    <3>2. hits'[j] = Kept(j) /\ allowed'[j] = allowed[j]
      BY <1>1, <2>3, AllowFacts
    <3>3. \A i \in 1 .. n : allowed[j][i] <= Cutoff
      <4>1. \A i \in 1 .. Len(allowed[j]) : allowed[j][i] \in Nat
        BY <1>2
      <4>2. \A i \in 1 .. n : i \in 1 .. Len(allowed[j]) /\ ~(i > n)
        BY <1>2
      <4> QED BY <1>2, <3>1, <4>1, <4>2
    <3> QED BY <2>1, <3>1, <3>2, <3>3
  <2>4. CASE j = k
    <3>1. \A i \in 1 .. m : a[i] <= Cutoff /\ b[i] = a[i]
      <4>1. \A i \in 1 .. m : i \in 1 .. Len(a) /\ ~(i > m)
        BY <1>4, <1>6
      <4>2. \A i \in 1 .. m : ~(a[i] > Cutoff)
        BY <1>3, <1>4, <4>1
      <4> QED BY <1>2, <1>6, <4>1, <4>2
    <3>2. CASE Permits(k)
      <4>1. hits'[k] = Append(Kept(k), now) /\ allowed'[k] = b
        BY <1>1, <1>4, <1>5, <3>2, AllowFacts
      <4>2. IsRest(Append(Kept(k), now), b, m)
        BY <1>2, <1>3, <1>4, <1>5, <1>6, AppendRest
      <4>3. m \in 0 .. Len(b)
        BY <1>4, <1>6
      <4> QED BY <2>1, <2>4, <3>1, <4>1, <4>2, <4>3
    <3>3. CASE ~Permits(k)
      <4>1. hits'[k] = Kept(k) /\ allowed'[k] = a
        BY <1>1, <1>4, <3>3, AllowFacts
      <4> QED BY <1>3, <1>4, <2>1, <2>4, <3>1, <4>1
    <3> QED BY <3>2, <3>3
  <2> QED BY <2>2, <2>3, <2>4
<1>12. LimitHolds'
  <2> SUFFICES ASSUME NEW j \in Keys, NEW i \in 1 .. Len(allowed'[j]) - Limit
               PROVE  allowed'[j][i + Limit] - allowed'[j][i] >= Window
    BY DEF LimitHolds
  <2>1. CASE allowed'[j] = allowed[j]
    BY <1>1, <2>1 DEF LimitHolds
  <2>2. CASE j = k /\ allowed'[k] = b /\ Permits(k)
    <3>1. i \in 1 .. Len(b) - Limit
      BY <2>2
    <3>2. CASE i + Limit = Len(a) + 1
      <4>1. Len(Kept(k)) = Len(a) - m /\ Len(Kept(k)) < Limit
        BY <1>3, <1>4, <2>2 DEF IsRest, Permits
      <4>2. i \in 1 .. Len(a) /\ ~(i > m)
        BY <1>2, <1>4, <1>6, <3>1, <3>2, <4>1
      <4>3. ~(a[i] > Cutoff) /\ b[i] = a[i] /\ a[i] \in Nat
        BY <1>3, <1>4, <1>6, <4>2
      <4> QED BY <1>2, <1>6, <2>2, <3>2, <4>3
    <3>3. CASE i + Limit # Len(a) + 1
      <4>1. i \in 1 .. Len(a) - Limit /\ i \in 1 .. Len(a) /\ i + Limit \in 1 .. Len(a)
        <5>1. i \in Int /\ i >= 1 /\ i <= Len(a) + 1 - Limit /\ Len(a) \in Nat /\ Limit \in Nat
          BY <1>2, <1>6, <3>1
        <5> QED BY <3>3, <5>1
      <4>2. a[i + Limit] - a[i] >= Window
        BY <1>1, <1>4, <4>1 DEF LimitHolds
      <4> QED BY <1>6, <2>2, <4>1, <4>2
    <3> QED BY <3>2, <3>3
  <2>3. allowed'[j] = allowed[j] \/ (j = k /\ allowed'[k] = b /\ Permits(k))
    BY <1>1, <1>4, <1>7, AllowFacts
  <2> QED BY <2>1, <2>2, <2>3
<1> QED BY <1>9, <1>10, <1>11, <1>12 DEF IInv

\* Every call and every tick of the clock, and a step of nothing.
LEMMA NextStep == ASSUME IInv, [Next]_vars PROVE IInv'
<1>1. ASSUME UNCHANGED vars PROVE IInv'
  BY <1>1 DEF vars, IInv, TypeOK, OrderInv, RetainInv, LimitHolds, Cutoff
<1> QED BY <1>1, TickStep, AllowStep DEF Next

-----------------------------------------------------------------------------
(* Theorems. *)

\* Whatever keys call and whenever a sweep falls due, IInv holds.
THEOREM InductiveInvariant == Spec => []IInv
<1>1. Init => IInv
  BY InitIInv
<1>2. IInv /\ [Next]_vars => IInv'
  BY NextStep
<1> QED BY <1>1, <1>2, PTL DEF Spec

\* The clock, the hits, the history and the sweep counter stay within bounds.
THEOREM TypeCorrect == Spec => []TypeOK
<1>1. IInv => TypeOK
  BY DEF IInv
<1> QED BY <1>1, InductiveInvariant, PTL

\* Allow lets no key act more than Limit times within a window, over any
\* window: filtering and sweeping drop only hits that no window ending now or
\* later can contain.
THEOREM LimitOverEveryWindow == Spec => []LimitHolds
<1>1. IInv => LimitHolds
  BY DEF IInv
<1> QED BY <1>1, InductiveInvariant, PTL

\* Allow refuses a key only when it was allowed Limit times within the window
\* that ends now.
THEOREM EarnedRefusals == Spec => []RefusalIsEarned
<1>1. IInv => RefusalIsEarned
  <2> SUFFICES ASSUME IInv, NEW k \in Keys, ~Permits(k)
               PROVE  Cardinality({i \in 1 .. Len(allowed[k]) : allowed[k][i] > Cutoff}) >= Limit
    BY DEF RefusalIsEarned
  <2>1. PICK m \in 0 .. Len(allowed[k]) :
          /\ IsRest(Kept(k), allowed[k], m)
          /\ \A i \in 1 .. Len(allowed[k]) : allowed[k][i] > Cutoff <=> i > m
    BY KeptIsWindow DEF IInv
  <2>2. Len(allowed[k]) \in Nat /\ Limit \in Nat
    BY Numbers DEF IInv
  <2>3. {i \in 1 .. Len(allowed[k]) : allowed[k][i] > Cutoff} = m + 1 .. Len(allowed[k])
    BY <2>1, <2>2
  <2>4. Cardinality(m + 1 .. Len(allowed[k])) = Len(allowed[k]) - m
    <3>1. Cardinality(m + 1 .. Len(allowed[k]))
            = (IF m + 1 > Len(allowed[k]) THEN 0 ELSE Len(allowed[k]) - (m + 1) + 1)
      <4>1. m + 1 \in Int /\ Len(allowed[k]) \in Int
        BY <2>2
      <4> QED BY <4>1, FS_Interval
    <3>2. m \in Int /\ (~(m + 1 > Len(allowed[k])) \/ Len(allowed[k]) - m = 0)
      BY <2>2
    <3> QED BY <2>2, <3>1, <3>2
  <2>5. Len(Kept(k)) = Len(allowed[k]) - m /\ ~(Len(Kept(k)) < Limit)
    BY <2>1 DEF IsRest, Permits
  <2>6. Len(allowed[k]) - m >= Limit
    BY <2>2, <2>5
  <2> QED BY <2>3, <2>4, <2>6
<1> QED BY <1>1, InductiveInvariant, PTL

\* A sweep inside Allow leaves no key in the map whose hits have all left the
\* window, the caller's own included: it then has no hits or a fresh one.
THEOREM SweepLeavesNoStaleKey == Spec => SweepForgets
<1>1. ASSUME IInv, [Next]_vars
      PROVE  [swept' = 0 /\ swept # swept' =>
                \A k \in tracked' : hits'[k] = <<>> \/ Last(hits'[k]) > Cutoff]_vars
  <2> SUFFICES ASSUME swept' = 0, swept # swept', NEW j \in tracked', hits'[j] # <<>>
               PROVE  Last(hits'[j]) > Cutoff
    OBVIOUS
  <2>1. PICK k \in Keys : Allow(k)
    BY <1>1 DEF Next, Tick, vars
  <2>2. TypeOK /\ OrderInv /\ RetainInv
    BY <1>1 DEF IInv
  <2>3. Sweeps
    BY <2>1, <2>2 DEF Allow, Sweeps, TypeOK
  <2>4. now \in Nat /\ Cutoff \in Int /\ Cutoff < now
    BY <2>2, Numbers
  <2>5. CASE j # k
    <3>1. j \in tracked /\ ~Swept(j) /\ j \in Keys
      BY <2>1, <2>2, <2>5 DEF Allow, TypeOK
    <3>2. hits'[j] = hits[j]
      BY <2>1, <2>2, <2>5, <3>1, AllowFacts
    <3>3. ~(Last(hits[j]) <= Cutoff) /\ hits[j] # <<>>
      BY <2>3, <3>1 DEF Swept, Stale
    <3>4. Last(hits[j]) \in Nat
      BY <2>2, <3>1, <3>3, Numbers DEF Last
    <3> QED BY <2>4, <3>2, <3>3, <3>4
  <2>6. CASE j = k
    <3>1. PICK m \in 0 .. Len(allowed[k]) :
            /\ IsRest(Kept(k), allowed[k], m)
            /\ Kept(k) \in Seq(0 .. MaxTime)
            /\ \A i \in 1 .. Len(allowed[k]) : allowed[k][i] > Cutoff <=> i > m
      BY <2>2, KeptIsWindow
    <3>2. CASE Permits(k)
      <4>1. hits'[k] = Append(Kept(k), now)
        BY <2>1, <2>2, <3>2, AllowFacts
      <4>2. now \in 0 .. MaxTime
        BY <2>2 DEF TypeOK
      <4>3. Last(Append(Kept(k), now)) = now
        BY <3>1, <4>2, AppendProperties DEF Last
      <4> QED BY <2>4, <2>6, <4>1, <4>3
    <3>3. CASE ~Permits(k)
      <4>1. hits'[k] = Kept(k)
        BY <2>1, <2>2, <3>3, AllowFacts
      <4>2. Len(Kept(k)) \in 1 .. Len(Kept(k))
        BY <2>6, <3>1, <4>1
      <4>3. /\ Kept(k)[Len(Kept(k))] = allowed[k][m + Len(Kept(k))]
            /\ Len(Kept(k)) = Len(allowed[k]) - m
        BY <3>1, <4>2 DEF IsRest
      <4>4. m + Len(Kept(k)) \in 1 .. Len(allowed[k]) /\ m + Len(Kept(k)) > m
        BY <4>2, <4>3
      <4>5. allowed[k][m + Len(Kept(k))] > Cutoff
        BY <3>1, <4>4
      <4> QED BY <2>6, <4>1, <4>3, <4>5 DEF Last
    <3> QED BY <3>2, <3>3
  <2> QED BY <2>5, <2>6
<1> QED BY <1>1, InductiveInvariant, PTL DEF Spec, SweepForgets
=============================================================================
