------------------------ MODULE RetainedHistory_proofs ------------------------
(***************************************************************************)
(* Proofs about RetainedHistory, for any capacity of at least one          *)
(* transition, any sizes of transitions and any ticks adopted: the type    *)
(* invariant, that the window holds whole transitions only, and that a     *)
(* client that resumes is given all it missed or none.                     *)
(***************************************************************************)
EXTENDS RetainedHistory, FiniteSetTheorems, SequenceTheorems, NaturalsInduction,
        WellFoundedInduction, TLAPS

\* In a window h on transitions of the sizes em, each event is one that its
\* transition emitted, and has its whole transition around it.
Blocks(h, em) ==
    \A i \in 1 .. Len(h) :
        /\ h[i].tick \in 1 .. Len(em) /\ h[i].nr \in 1 .. em[h[i].tick]
        /\ \A n \in 1 .. em[h[i].tick] :
              /\ i - h[i].nr + n \in 1 .. Len(h)
              /\ h[i - h[i].nr + n] = [tick |-> h[i].tick, nr |-> n]

\* Transitions follow one another in the order of their ticks, none twice.
Ordered(h) ==
    \A i, j \in 1 .. Len(h) : i < j =>
        \/ h[i].tick < h[j].tick
        \/ (h[i].tick = h[j].tick /\ j - i = h[j].nr - h[i].nr)

\* Every transition from b to tick that was not adopted is in the window h.
Complete(h, b, upto, skipped) ==
    \A t \in 1 .. upto : t \notin skipped /\ t >= b => \E i \in 1 .. Len(h) : h[i].tick = t

\* Nothing in the window h is older than b.
NoOlder(h, b) == \A i \in 1 .. Len(h) : h[i].tick >= b

IInv ==
    /\ TypeOK
    /\ Len(emitted) = tick
    /\ base <= tick
    /\ NoOlder(history, base)
    /\ Len(history) <= Cap
    /\ Blocks(history, emitted)
    /\ Ordered(history)
    /\ Complete(history, base, tick, adopted)

-----------------------------------------------------------------------------
(* Appending a transition. *)

\* What EventsOf(t, n) is: n events, numbered from one.
LEMMA EventsFacts ==
    ASSUME NEW t \in 1 .. MaxTick, NEW n \in 1 .. MaxEvents
    PROVE  /\ EventsOf(t, n) \in Seq(HistoryEvent)
           /\ Len(EventsOf(t, n)) = n
           /\ \A i \in 1 .. n : EventsOf(t, n)[i] = [tick |-> t, nr |-> i]
<1>1. MaxEvents \in Nat /\ MaxTick \in Nat
  BY HistoryAssumption
<1>2. \A i \in 1 .. n : [tick |-> t, nr |-> i] \in HistoryEvent
  BY <1>1 DEF HistoryEvent
<1>3. EventsOf(t, n) \in [1 .. n -> HistoryEvent]
  BY <1>2 DEF EventsOf
<1>4. n \in Nat
  BY <1>1
<1>5. EventsOf(t, n) \in Seq(HistoryEvent)
  BY <1>3, <1>4
<1>6. Len(EventsOf(t, n)) = n
  BY <1>3, <1>4, <1>5
<1> QED BY <1>5, <1>6 DEF EventsOf

\* The window h with one more transition of n events behind it.
Longer(h, em, n) == h \o EventsOf(Len(em) + 1, n)

\* Its events are the old ones, then the new ones.
LEMMA LongerFacts ==
    ASSUME NEW h \in Seq(HistoryEvent), NEW em \in Seq(1 .. MaxEvents), NEW n \in 1 .. MaxEvents,
           Len(em) < MaxTick
    PROVE  /\ Longer(h, em, n) \in Seq(HistoryEvent)
           /\ Len(Longer(h, em, n)) = Len(h) + n
           /\ Len(h) \in Nat /\ Len(em) \in Nat /\ n \in Nat /\ n >= 1
           /\ \A i \in 1 .. Len(h) : Longer(h, em, n)[i] = h[i]
           /\ \A i \in 1 .. n : Longer(h, em, n)[Len(h) + i] = [tick |-> Len(em) + 1, nr |-> i]
           /\ Append(em, n) \in Seq(1 .. MaxEvents)
           /\ Len(Append(em, n)) = Len(em) + 1
           /\ \A t \in 1 .. Len(em) : Append(em, n)[t] = em[t]
           /\ Append(em, n)[Len(em) + 1] = n
<1>1. MaxEvents \in Nat /\ MaxTick \in Nat /\ Len(em) \in Nat /\ Len(h) \in Nat
  BY HistoryAssumption
<1>2. n \in Nat /\ n >= 1 /\ Len(em) + 1 \in 1 .. MaxTick
  BY <1>1
<1>3. PICK e : e = EventsOf(Len(em) + 1, n)
  OBVIOUS
<1>4. /\ e \in Seq(HistoryEvent) /\ Len(e) = n
      /\ \A i \in 1 .. n : e[i] = [tick |-> Len(em) + 1, nr |-> i]
  BY <1>2, <1>3, EventsFacts
<1>5. Longer(h, em, n) = h \o e
  BY <1>3 DEF Longer
<1>6. /\ h \o e \in Seq(HistoryEvent) /\ Len(h \o e) = Len(h) + n
      /\ \A i \in 1 .. Len(h) + n : (h \o e)[i] = IF i <= Len(h) THEN h[i] ELSE e[i - Len(h)]
  BY <1>4, ConcatProperties
<1>7. \A i \in 1 .. Len(h) : (h \o e)[i] = h[i]
  BY <1>1, <1>2, <1>6
<1>8. ASSUME NEW i \in 1 .. n PROVE (h \o e)[Len(h) + i] = [tick |-> Len(em) + 1, nr |-> i]
  <2>1. Len(h) + i \in 1 .. Len(h) + n /\ ~(Len(h) + i <= Len(h)) /\ Len(h) + i - Len(h) = i
    BY <1>1, <1>2
  <2>2. (h \o e)[Len(h) + i] = e[Len(h) + i - Len(h)]
    BY <1>6, <2>1
  <2> QED BY <1>4, <2>1, <2>2
<1>9. /\ Append(em, n) \in Seq(1 .. MaxEvents) /\ Len(Append(em, n)) = Len(em) + 1
      /\ \A t \in 1 .. Len(em) : Append(em, n)[t] = em[t]
      /\ Append(em, n)[Len(em) + 1] = n
  BY AppendProperties
<1> QED BY <1>1, <1>2, <1>5, <1>6, <1>7, <1>8, <1>9

\* The whole transition arrives, behind all others.
LEMMA LongerInv ==
    ASSUME NEW h \in Seq(HistoryEvent), NEW em \in Seq(1 .. MaxEvents), NEW n \in 1 .. MaxEvents,
           Len(em) < MaxTick, Blocks(h, em), Ordered(h)
    PROVE  Blocks(Longer(h, em, n), Append(em, n)) /\ Ordered(Longer(h, em, n))
<1>1. PICK g : g = Longer(h, em, n)
  OBVIOUS
<1>2. PICK fm : fm = Append(em, n)
  OBVIOUS
<1>3. /\ g \in Seq(HistoryEvent) /\ Len(g) = Len(h) + n
      /\ Len(h) \in Nat /\ Len(em) \in Nat /\ n \in Nat /\ n >= 1
      /\ \A i \in 1 .. Len(h) : g[i] = h[i]
      /\ \A i \in 1 .. n : g[Len(h) + i] = [tick |-> Len(em) + 1, nr |-> i]
      /\ Len(fm) = Len(em) + 1
      /\ \A t \in 1 .. Len(em) : fm[t] = em[t]
      /\ fm[Len(em) + 1] = n
  BY <1>1, <1>2, LongerFacts
<1>4. ASSUME NEW i \in 1 .. Len(h)
      PROVE  /\ h[i].tick \in 1 .. Len(em) /\ h[i].nr \in 1 .. em[h[i].tick]
             /\ h[i].tick \in Nat /\ h[i].nr \in Nat
             /\ \A k \in 1 .. em[h[i].tick] :
                   /\ i - h[i].nr + k \in 1 .. Len(h)
                   /\ h[i - h[i].nr + k] = [tick |-> h[i].tick, nr |-> k]
  <2>1. h[i] \in HistoryEvent
    BY ElementOfSeq
  <2> QED BY <2>1, HistoryAssumption DEF Blocks, HistoryEvent
<1>5. ASSUME NEW i \in 1 .. Len(g), i \notin 1 .. Len(h)
      PROVE  /\ i - Len(h) \in 1 .. n /\ g[i] = [tick |-> Len(em) + 1, nr |-> i - Len(h)]
             /\ g[i].tick = Len(em) + 1 /\ g[i].nr = i - Len(h)
  <2>1. i - Len(h) \in 1 .. n /\ Len(h) + (i - Len(h)) = i
    BY <1>3, <1>5
  <2>2. g[i] = [tick |-> Len(em) + 1, nr |-> i - Len(h)]
    BY <1>3, <2>1
  <2> QED BY <2>1, <2>2
<1>6. Blocks(g, fm)
  <2> SUFFICES ASSUME NEW i \in 1 .. Len(g)
               PROVE  /\ g[i].tick \in 1 .. Len(fm) /\ g[i].nr \in 1 .. fm[g[i].tick]
                      /\ \A k \in 1 .. fm[g[i].tick] :
                            /\ i - g[i].nr + k \in 1 .. Len(g)
                            /\ g[i - g[i].nr + k] = [tick |-> g[i].tick, nr |-> k]
    BY DEF Blocks
  <2>1. CASE i \in 1 .. Len(h)
    <3>1. g[i] = h[i] /\ fm[g[i].tick] = em[h[i].tick] /\ g[i].tick \in 1 .. Len(fm)
      BY <1>3, <1>4, <2>1
    <3>2. ASSUME NEW k \in 1 .. em[h[i].tick]
          PROVE  /\ i - h[i].nr + k \in 1 .. Len(g)
                 /\ g[i - h[i].nr + k] = [tick |-> h[i].tick, nr |-> k]
      <4>1. /\ i - h[i].nr + k \in 1 .. Len(h)
            /\ h[i - h[i].nr + k] = [tick |-> h[i].tick, nr |-> k]
        BY <1>4, <2>1
      <4> QED BY <1>3, <4>1
    <3> QED BY <1>4, <2>1, <3>1, <3>2
  <2>2. CASE i \notin 1 .. Len(h)
    <3>1. g[i].tick = Len(em) + 1 /\ g[i].nr = i - Len(h) /\ i - Len(h) \in 1 .. n
      BY <1>5, <2>2
    <3>2. fm[g[i].tick] = n /\ g[i].tick \in 1 .. Len(fm)
      BY <1>3, <3>1
    <3>3. ASSUME NEW k \in 1 .. n
          PROVE  /\ i - g[i].nr + k \in 1 .. Len(g)
                 /\ g[i - g[i].nr + k] = [tick |-> g[i].tick, nr |-> k]
      <4>1. i - g[i].nr + k = Len(h) + k /\ Len(h) + k \in 1 .. Len(g)
        BY <1>3, <3>1
      <4> QED BY <1>3, <3>1, <4>1
    <3> QED BY <3>1, <3>2, <3>3
  <2> QED BY <2>1, <2>2
<1>7. Ordered(g)
  <2> SUFFICES ASSUME NEW i \in 1 .. Len(g), NEW j \in 1 .. Len(g), i < j
               PROVE  \/ g[i].tick < g[j].tick
                      \/ (g[i].tick = g[j].tick /\ j - i = g[j].nr - g[i].nr)
    BY DEF Ordered
  <2>1. CASE j \in 1 .. Len(h)
    <3>1. i \in 1 .. Len(h)
      BY <1>3, <2>1
    <3> QED BY <1>3, <2>1, <3>1 DEF Ordered
  <2>2. CASE j \notin 1 .. Len(h) /\ i \in 1 .. Len(h)
    <3>1. g[i].tick \in 1 .. Len(em) /\ g[j].tick = Len(em) + 1
      BY <1>3, <1>4, <1>5, <2>2
    <3> QED BY <1>3, <3>1
  <2>3. CASE j \notin 1 .. Len(h) /\ i \notin 1 .. Len(h)
    <3>1. /\ g[i].tick = Len(em) + 1 /\ g[j].tick = Len(em) + 1
          /\ g[i].nr = i - Len(h) /\ g[j].nr = j - Len(h)
      BY <1>5, <2>3
    <3> QED BY <1>3, <3>1
  <2> QED BY <2>1, <2>2, <2>3
<1> QED BY <1>1, <1>2, <1>6, <1>7

-----------------------------------------------------------------------------
(* Trimming the window. *)

\* A set of naturals that is not empty has a least member.
LEMMA LeastNat ==
    ASSUME NEW S, S \subseteq Nat, S # {}
    PROVE  \E x \in S : \A y \in S : x <= y
<1>1. PICK x \in S : \A y \in S : ~(<<y, x>> \in OpToRel(<, Nat))
  BY WFMin, NatLessThanWellFounded
<1>2. \A y \in S : ~(y < x)
  BY <1>1 DEF OpToRel
<1> QED BY <1>2

\* The cut falls at or after the capacity, behind the last event of the
\* transition found there, and leaves something: no transition is larger than
\* the window.
LEMMA DroppedFacts ==
    ASSUME NEW h \in Seq(HistoryEvent), Ordered(h), Len(h) > Cap
    PROVE  /\ Dropped(h) \in Len(h) - Cap .. Len(h) - 1
           /\ Len(h) - Cap \in 1 .. Len(h)
           /\ \A i \in Len(h) - Cap .. Dropped(h) : h[i].tick = h[Len(h) - Cap].tick
           /\ h[Dropped(h) + 1].tick # h[Len(h) - Cap].tick
<1> DEFINE over == Len(h) - Cap
           kept == {i \in over + 1 .. Len(h) : h[i].tick # h[over].tick}
<1>1. Len(h) \in Nat /\ Cap \in Nat /\ MaxEvents \in Nat /\ Cap >= MaxEvents /\ MaxEvents >= 1
  BY HistoryAssumption
<1>2. over \in 1 .. Len(h) /\ over \in Nat /\ over < Len(h)
  BY <1>1
<1>3. Len(h) \in kept
  <2>1. h[over] \in HistoryEvent /\ h[Len(h)] \in HistoryEvent
    BY <1>1, <1>2, ElementOfSeq
  <2>2. h[over].nr \in 1 .. MaxEvents /\ h[Len(h)].nr \in 1 .. MaxEvents
    BY <2>1 DEF HistoryEvent
  <2>3. SUFFICES ASSUME h[Len(h)].tick = h[over].tick PROVE FALSE
    BY <1>1, <1>2
  <2>4. h[over].tick \in Int
    BY <2>1, HistoryAssumption DEF HistoryEvent
  <2>5. Len(h) \in 1 .. Len(h)
    BY <1>1, <1>2
  <2>6. Len(h) - over = h[Len(h)].nr - h[over].nr
    BY <1>2, <2>3, <2>4, <2>5 DEF Ordered
  <2> QED BY <1>1, <2>2, <2>6
<1>4. kept \subseteq Nat /\ kept # {}
  BY <1>1, <1>2, <1>3
<1>5. \E x \in kept : \A y \in kept : x <= y
  <2> HIDE DEF kept
  <2> QED BY <1>4, LeastNat
<1>6. Min(kept) \in kept /\ \A y \in kept : Min(kept) <= y
  <2> HIDE DEF kept
  <2> QED BY <1>5 DEF Min
<1>7. Dropped(h) = Min(kept) - 1
  BY <1>3 DEF Dropped
<1>8. PICK k : k = Min(kept)
  OBVIOUS
<1>9. k \in over + 1 .. Len(h) /\ h[k].tick # h[over].tick /\ k \in Nat
  BY <1>1, <1>2, <1>6, <1>8
<1>10. ASSUME NEW i \in over .. k - 1 PROVE h[i].tick = h[over].tick
  <2>1. CASE i = over
    BY <2>1
  <2>2. CASE i # over
    <3>1. i \in over + 1 .. Len(h) /\ ~(k <= i)
      BY <1>1, <1>2, <1>9, <2>2
    <3>2. i \notin kept
      BY <1>6, <1>8, <3>1
    <3> QED BY <3>1, <3>2
  <2> QED BY <2>1, <2>2
<1>11. Dropped(h) = k - 1 /\ k - 1 + 1 = k /\ k - 1 \in over .. Len(h) - 1
  BY <1>1, <1>2, <1>7, <1>8, <1>9
<1> QED BY <1>2, <1>9, <1>10, <1>11

\* A window over its capacity loses its oldest transitions and keeps the
\* others whole; what it loses is older than what it keeps.
LEMMA TrimmedFacts ==
    ASSUME NEW h \in Seq(HistoryEvent), NEW em \in Seq(1 .. MaxEvents), Blocks(h, em), Ordered(h),
           Len(h) > Cap
    PROVE  /\ Trimmed(h) \in Seq(HistoryEvent)
           /\ Len(Trimmed(h)) \in 1 .. Cap
           /\ Blocks(Trimmed(h), em) /\ Ordered(Trimmed(h))
           /\ \A i \in 1 .. Len(h) : h[i].tick >= Trimmed(h)[1].tick =>
                \E j \in 1 .. Len(Trimmed(h)) : Trimmed(h)[j].tick = h[i].tick
           /\ \E i \in 1 .. Len(h) : Trimmed(h)[1] = h[i]
<1>1. PICK d : d = Dropped(h)
  OBVIOUS
<1>2. PICK over : over = Len(h) - Cap
  OBVIOUS
<1>3. /\ Len(h) \in Nat /\ Cap \in Nat /\ over \in 1 .. Len(h) /\ d \in over .. Len(h) - 1
      /\ d \in Nat /\ d + 1 \in 1 .. Len(h)
      /\ \A i \in over .. d : h[i].tick = h[over].tick
      /\ h[d + 1].tick # h[over].tick
  <2>1. /\ d \in over .. Len(h) - 1 /\ over \in 1 .. Len(h)
        /\ \A i \in over .. d : h[i].tick = h[over].tick
        /\ h[d + 1].tick # h[over].tick
    BY <1>1, <1>2, DroppedFacts
  <2>2. Len(h) \in Nat /\ Cap \in Nat
    BY HistoryAssumption
  <2> QED BY <2>1, <2>2
<1>4. \A i \in 1 .. Len(h) : h[i] \in HistoryEvent /\ h[i].tick \in Nat /\ h[i].nr \in Nat
  <2> TAKE i \in 1 .. Len(h)
  <2>1. h[i] \in HistoryEvent
    BY ElementOfSeq
  <2>2. h[i].tick \in 1 .. MaxTick /\ h[i].nr \in 1 .. MaxEvents
    BY <2>1 DEF HistoryEvent
  <2>3. h[i].tick \in Nat /\ h[i].nr \in Nat
    BY <2>2, HistoryAssumption
  <2> QED BY <2>1, <2>3
<1>5. PICK s : s = Trimmed(h)
  OBVIOUS
<1>6. s = SubSeq(h, d + 1, Len(h))
  <2>1. ~(Len(h) <= Cap)
    BY <1>3
  <2> QED BY <1>1, <1>5, <2>1 DEF Trimmed
<1>7. /\ s \in Seq(HistoryEvent) /\ Len(s) = Len(h) - d /\ Len(s) \in Nat
      /\ \A i \in 1 .. Len(s) : s[i] = h[d + i] /\ d + i \in 1 .. Len(h)
  <2>1. \A i \in d + 1 .. Len(h) : h[i] \in HistoryEvent
    BY <1>3, <1>4
  <2>2. d + 1 \in Int /\ Len(h) \in Int /\ d + 1 <= Len(h)
    BY <1>3
  <2>3. /\ s \in Seq(HistoryEvent)
        /\ Len(s) = (IF d + 1 <= Len(h) THEN Len(h) - (d + 1) + 1 ELSE 0)
        /\ \A i \in 1 .. Len(h) - (d + 1) + 1 : s[i] = h[d + 1 + i - 1]
    BY <1>6, <2>1, <2>2, SubSeqProperties
  <2>4. Len(s) = Len(h) - d
    BY <1>3, <2>2, <2>3
  <2>5. ASSUME NEW i \in 1 .. Len(s) PROVE s[i] = h[d + i] /\ d + i \in 1 .. Len(h)
    <3>1. i \in 1 .. Len(h) - (d + 1) + 1 /\ d + 1 + i - 1 = d + i /\ d + i \in 1 .. Len(h)
      BY <1>3, <2>4
    <3> QED BY <2>3, <3>1
  <2>6. Len(s) \in Nat
    BY <1>3, <2>4
  <2> QED BY <2>3, <2>4, <2>5, <2>6
<1>8. Len(s) \in 1 .. Cap
  BY <1>2, <1>3, <1>7
<1>9. \A i, j \in 1 .. Len(h) : i < j => h[i].tick <= h[j].tick
  <2> TAKE i, j \in 1 .. Len(h)
  <2>1. h[i].tick \in Nat /\ h[j].tick \in Nat
    BY <1>4
  <2>2. i < j => h[i].tick < h[j].tick \/ h[i].tick = h[j].tick
    BY DEF Ordered
  <2> QED BY <2>1, <2>2
<1>10. \A i \in 1 .. d : h[i].tick < h[d + 1].tick
  <2>1. d \in 1 .. Len(h) /\ d < d + 1 /\ d \in over .. d
    BY <1>3
  <2>2. h[d].tick = h[over].tick /\ h[d].tick <= h[d + 1].tick /\ h[d].tick # h[d + 1].tick
    BY <1>3, <1>9, <2>1
  <2>3. ASSUME NEW i \in 1 .. d PROVE i \in 1 .. Len(h) /\ h[i].tick <= h[d].tick
    <3>1. i \in 1 .. Len(h) /\ (i = d \/ i < d)
      BY <1>3
    <3> QED BY <1>4, <1>9, <2>1, <3>1
  <2> QED BY <1>3, <1>4, <2>1, <2>2, <2>3
<1>11. Blocks(s, em)
  <2> SUFFICES ASSUME NEW i \in 1 .. Len(s)
               PROVE  /\ s[i].tick \in 1 .. Len(em) /\ s[i].nr \in 1 .. em[s[i].tick]
                      /\ \A k \in 1 .. em[s[i].tick] :
                            /\ i - s[i].nr + k \in 1 .. Len(s)
                            /\ s[i - s[i].nr + k] = [tick |-> s[i].tick, nr |-> k]
    BY DEF Blocks
  <2>1. s[i] = h[d + i] /\ d + i \in 1 .. Len(h)
    BY <1>7
  <2>0. PICK y : y = d + i
    OBVIOUS
  <2>2. /\ s[i].tick \in 1 .. Len(em) /\ s[i].nr \in 1 .. em[s[i].tick]
        /\ \A k \in 1 .. em[s[i].tick] :
              /\ y - s[i].nr + k \in 1 .. Len(h)
              /\ h[y - s[i].nr + k] = [tick |-> s[i].tick, nr |-> k]
    <3>1. s[i] = h[y] /\ y \in 1 .. Len(h)
      BY <2>0, <2>1
    <3>2. /\ h[y].tick \in 1 .. Len(em) /\ h[y].nr \in 1 .. em[h[y].tick]
          /\ \A k \in 1 .. em[h[y].tick] :
                /\ y - h[y].nr + k \in 1 .. Len(h)
                /\ h[y - h[y].nr + k] = [tick |-> h[y].tick, nr |-> k]
      BY <3>1 DEF Blocks
    <3> QED BY <3>1, <3>2
  <2>3. s[i].nr \in Nat /\ s[i].tick \in Nat /\ s[i].tick >= h[d + 1].tick
    <3>1. d + 1 \in 1 .. Len(h) /\ (d + 1 = d + i \/ d + 1 < d + i)
      BY <1>3
    <3> QED BY <1>4, <1>9, <2>1, <3>1
  <2>4. ASSUME NEW k \in 1 .. em[s[i].tick]
        PROVE  /\ i - s[i].nr + k \in 1 .. Len(s)
               /\ s[i - s[i].nr + k] = [tick |-> s[i].tick, nr |-> k]
    <3>1. PICK x : x = y - s[i].nr + k
      OBVIOUS
    <3>2. x \in 1 .. Len(h) /\ h[x] = [tick |-> s[i].tick, nr |-> k] /\ h[x].tick = s[i].tick
      BY <2>2, <3>1
    <3>3. ~(x \in 1 .. d)
      <4>1. x \in 1 .. d => h[x].tick < h[d + 1].tick
        BY <1>10
      <4>2. h[d + 1].tick \in Nat
        BY <1>3, <1>4
      <4> QED BY <2>3, <3>2, <4>1, <4>2
    <3>4. k \in Int
      <4>1. em[s[i].tick] \in 1 .. MaxEvents
        BY <2>2, ElementOfSeq
      <4> QED BY <4>1, HistoryAssumption
    <3>5. i - s[i].nr + k = x - d /\ x - d \in 1 .. Len(s)
      <4>1. x \in Int /\ i \in Int /\ d \in Int /\ s[i].nr \in Int /\ x > d /\ x <= Len(h)
        BY <1>3, <1>7, <2>3, <3>2, <3>3
      <4>2. i - s[i].nr + k = x - d
        BY <2>0, <3>1, <3>4, <4>1
      <4>3. x - d \in 1 .. Len(s)
        BY <1>3, <1>7, <4>1
      <4> QED BY <4>2, <4>3
    <3>6. s[x - d] = h[x]
      <4>1. d + (x - d) = x
        BY <1>3, <3>2
      <4> QED BY <1>7, <3>5, <4>1
    <3> QED BY <3>2, <3>5, <3>6
  <2> QED BY <2>2, <2>4
<1>12. Ordered(s)
  <2> SUFFICES ASSUME NEW i \in 1 .. Len(s), NEW j \in 1 .. Len(s), i < j
               PROVE  \/ s[i].tick < s[j].tick
                      \/ (s[i].tick = s[j].tick /\ j - i = s[j].nr - s[i].nr)
    BY DEF Ordered
  <2>1. /\ s[i] = h[d + i] /\ d + i \in 1 .. Len(h) /\ s[j] = h[d + j] /\ d + j \in 1 .. Len(h)
        /\ d + i < d + j /\ (d + j) - (d + i) = j - i
    BY <1>3, <1>7
  <2> QED BY <2>1 DEF Ordered
<1>13. ASSUME NEW i \in 1 .. Len(h), h[i].tick >= s[1].tick
       PROVE  \E j \in 1 .. Len(s) : s[j].tick = h[i].tick
  <2>1. 1 \in 1 .. Len(s) /\ s[1] = h[d + 1]
    BY <1>7, <1>8
  <2>2. ~(i \in 1 .. d)
    <3>1. i \in 1 .. d => h[i].tick < h[d + 1].tick
      BY <1>10
    <3> QED BY <1>3, <1>4, <1>13, <2>1, <3>1
  <2>3. i - d \in 1 .. Len(s) /\ d + (i - d) = i
    BY <1>3, <1>7, <2>2
  <2> QED BY <1>7, <2>3
<1>14. \E i \in 1 .. Len(h) : s[1] = h[i]
  BY <1>7, <1>8
<1> QED BY <1>5, <1>7, <1>8, <1>11, <1>12, <1>13, <1>14

-----------------------------------------------------------------------------
(* The steps. *)

\* A new match has an empty window.
LEMMA InitIInv == Init => IInv
<1> SUFFICES ASSUME Init PROVE IInv
  OBVIOUS
<1>1. /\ tick = 0 /\ history = <<>> /\ emitted = <<>> /\ base = 0 /\ adopted = {}
      /\ Len(history) = 0 /\ Len(emitted) = 0
  BY DEF Init
<1>2. <<>> \in Seq(HistoryEvent) /\ <<>> \in Seq(1 .. MaxEvents)
  OBVIOUS
<1>3. TypeOK
  BY <1>1, <1>2, HistoryAssumption DEF TypeOK
<1>4. Blocks(history, emitted) /\ Ordered(history)
  BY <1>1 DEF Blocks, Ordered
<1>5. Complete(history, base, tick, adopted) /\ NoOlder(history, base)
  BY <1>1 DEF Complete, NoOlder
<1> QED BY <1>1, <1>3, <1>4, <1>5, HistoryAssumption DEF IInv

\* The transition is in the window whole, what is cut off is whole too, and
\* base moves past what is cut off.
LEMMA RecordStep == ASSUME IInv, NEW n \in 1 .. MaxEvents, Record(n) PROVE IInv'
<1>1. /\ history \in Seq(HistoryEvent) /\ emitted \in Seq(1 .. MaxEvents) /\ Len(emitted) = tick
      /\ tick \in Nat /\ tick < MaxTick /\ MaxTick \in Nat /\ Cap \in Nat /\ Len(emitted) < MaxTick
      /\ base \in 0 .. MaxTick /\ adopted \subseteq 1 .. tick
      /\ Blocks(history, emitted) /\ Ordered(history) /\ Complete(history, base, tick, adopted)
      /\ base <= tick /\ NoOlder(history, base)
  BY HistoryAssumption DEF IInv, TypeOK, Record
<1>2. PICK h : h = Longer(history, emitted, n)
  OBVIOUS
<1>3. h = history \o EventsOf(tick + 1, n)
  BY <1>1, <1>2 DEF Longer
<1>4. /\ tick' = tick + 1 /\ emitted' = Append(emitted, n) /\ adopted' = adopted
      /\ history' = Trimmed(h)
      /\ base' = IF Len(h) > Cap /\ Trimmed(h) # <<>> THEN Trimmed(h)[1].tick ELSE base
  BY <1>3 DEF Record
<1>5. /\ h \in Seq(HistoryEvent) /\ Len(h) = Len(history) + n
      /\ Len(history) \in Nat /\ n \in Nat /\ n >= 1 /\ Len(h) \in Nat
      /\ \A i \in 1 .. Len(history) : h[i] = history[i]
      /\ \A i \in 1 .. n : h[Len(history) + i] = [tick |-> tick + 1, nr |-> i]
      /\ emitted' \in Seq(1 .. MaxEvents) /\ Len(emitted') = tick + 1
  BY <1>1, <1>2, <1>4, LongerFacts
<1>6. Blocks(h, emitted') /\ Ordered(h)
  BY <1>1, <1>2, <1>4, LongerInv
<1>7. Complete(h, base, tick + 1, adopted)
  <2> SUFFICES ASSUME NEW t \in 1 .. tick + 1, t \notin adopted, t >= base
               PROVE  \E i \in 1 .. Len(h) : h[i].tick = t
    BY DEF Complete
  <2>1. CASE t = tick + 1
    <3>1. Len(history) + 1 \in 1 .. Len(h) /\ h[Len(history) + 1] = [tick |-> tick + 1, nr |-> 1]
      BY <1>5
    <3> QED BY <2>1, <3>1
  <2>2. CASE t # tick + 1
    <3>1. t \in 1 .. tick
      BY <1>1, <2>2
    <3>2. PICK i \in 1 .. Len(history) : history[i].tick = t
      BY <1>1, <3>1 DEF Complete
    <3>3. i \in 1 .. Len(h) /\ h[i] = history[i]
      BY <1>5
    <3> QED BY <3>2, <3>3
  <2> QED BY <2>1, <2>2
<1>8. \A i \in 1 .. Len(h) : h[i].tick \in 1 .. tick + 1 /\ h[i].tick >= base
  <2> TAKE i \in 1 .. Len(h)
  <2>1. h[i].tick \in 1 .. tick + 1
    BY <1>5, <1>6 DEF Blocks
  <2>2. CASE i \in 1 .. Len(history)
    BY <1>1, <1>5, <2>1, <2>2 DEF NoOlder
  <2>3. CASE i \notin 1 .. Len(history)
    <3>1. i - Len(history) \in 1 .. n /\ Len(history) + (i - Len(history)) = i
      BY <1>5, <2>3
    <3>2. h[i] = [tick |-> tick + 1, nr |-> i - Len(history)]
      BY <1>5, <3>1
    <3>3. h[i].tick = tick + 1
      BY <3>2
    <3> QED BY <1>1, <2>1, <3>3
  <2> QED BY <2>2, <2>3
<1>9. /\ history' \in Seq(HistoryEvent) /\ Len(history') <= Cap
      /\ Blocks(history', emitted') /\ Ordered(history')
      /\ Complete(history', base', tick + 1, adopted) /\ base' \in 0 .. tick + 1
      /\ NoOlder(history', base')
  <2>1. CASE Len(h) <= Cap
    <3>1. history' = h /\ base' = base
      BY <1>1, <1>4, <1>5, <2>1 DEF Trimmed
    <3>2. NoOlder(h, base) /\ base \in 0 .. tick + 1
      BY <1>1, <1>8 DEF NoOlder
    <3> QED BY <1>5, <1>6, <1>7, <2>1, <3>1, <3>2
  <2>2. CASE Len(h) > Cap
    <3>1. PICK s : s = Trimmed(h)
      OBVIOUS
    <3>2. /\ s \in Seq(HistoryEvent) /\ Len(s) \in 1 .. Cap /\ Blocks(s, emitted') /\ Ordered(s)
          /\ \A i \in 1 .. Len(h) : h[i].tick >= s[1].tick =>
               \E j \in 1 .. Len(s) : s[j].tick = h[i].tick
          /\ \E i \in 1 .. Len(h) : s[1] = h[i]
      BY <1>5, <1>6, <2>2, <3>1, TrimmedFacts
    <3>3. s # <<>> /\ 1 \in 1 .. Len(s) /\ Len(s) <= Cap
      BY <1>1, <3>2
    <3>4. history' = s /\ base' = s[1].tick
      BY <1>4, <2>2, <3>1, <3>3
    <3>5. \A i \in 1 .. Len(s) : s[i].tick \in 1 .. tick + 1
      BY <1>5, <3>2 DEF Blocks
    <3>6. s[1].tick >= base
      <4>1. PICK i \in 1 .. Len(h) : s[1] = h[i]
        BY <3>2
      <4> QED BY <1>8, <4>1
    <3>7. Complete(s, s[1].tick, tick + 1, adopted)
      <4> SUFFICES ASSUME NEW t \in 1 .. tick + 1, t \notin adopted, t >= s[1].tick
                   PROVE  \E j \in 1 .. Len(s) : s[j].tick = t
        BY DEF Complete
      <4>1. t >= base
        BY <1>1, <3>3, <3>5, <3>6
      <4>2. PICK i \in 1 .. Len(h) : h[i].tick = t
        BY <1>7, <4>1 DEF Complete
      <4> QED BY <3>2, <4>2
    <3>8. NoOlder(s, s[1].tick)
      <4> SUFFICES ASSUME NEW i \in 1 .. Len(s) PROVE s[i].tick >= s[1].tick
        BY DEF NoOlder
      <4>1. i = 1 \/ 1 < i
        BY <3>2
      <4> QED BY <3>2, <3>3, <3>5, <4>1 DEF Ordered
    <3> QED BY <1>1, <3>2, <3>3, <3>4, <3>5, <3>7, <3>8
  <2> QED BY <1>1, <1>5, <2>1, <2>2
<1>10. TypeOK'
  <2>1. tick' \in 0 .. MaxTick /\ base' \in 0 .. MaxTick /\ adopted' \subseteq 1 .. tick'
    BY <1>1, <1>4, <1>9
  <2> QED BY <1>5, <1>9, <2>1 DEF TypeOK
<1>11. base' <= tick' /\ Len(emitted') = tick'
  BY <1>1, <1>4, <1>5, <1>9
<1> QED BY <1>4, <1>9, <1>10, <1>11 DEF IInv

\* An adopted transition leaves the window as it was.
LEMMA AdoptStep == ASSUME IInv, NEW n \in 1 .. MaxEvents, Adopt(n) PROVE IInv'
<1>1. /\ history \in Seq(HistoryEvent) /\ emitted \in Seq(1 .. MaxEvents) /\ Len(emitted) = tick
      /\ tick \in Nat /\ tick < MaxTick /\ MaxTick \in Nat /\ base \in 0 .. MaxTick
      /\ adopted \subseteq 1 .. tick /\ base <= tick
  BY HistoryAssumption DEF IInv, TypeOK, Adopt
<1>2. /\ tick' = tick + 1 /\ history' = history /\ base' = base
      /\ emitted' = Append(emitted, n) /\ adopted' = adopted \cup {tick + 1}
  BY DEF Adopt
<1>3. /\ emitted' \in Seq(1 .. MaxEvents) /\ Len(emitted') = tick + 1
      /\ \A t \in 1 .. tick : emitted'[t] = emitted[t]
  BY <1>1, <1>2, AppendProperties
<1>4. TypeOK' /\ base' <= tick' /\ Len(emitted') = tick'
  BY <1>1, <1>2, <1>3 DEF TypeOK
<1>5. Blocks(history', emitted')
  <2> SUFFICES ASSUME NEW i \in 1 .. Len(history)
               PROVE  /\ history[i].tick \in 1 .. Len(emitted')
                      /\ history[i].nr \in 1 .. emitted'[history[i].tick]
                      /\ \A k \in 1 .. emitted'[history[i].tick] :
                            /\ i - history[i].nr + k \in 1 .. Len(history)
                            /\ history[i - history[i].nr + k]
                                 = [tick |-> history[i].tick, nr |-> k]
    BY <1>2 DEF Blocks
  <2>1. /\ history[i].tick \in 1 .. tick /\ history[i].nr \in 1 .. emitted[history[i].tick]
        /\ \A k \in 1 .. emitted[history[i].tick] :
              /\ i - history[i].nr + k \in 1 .. Len(history)
              /\ history[i - history[i].nr + k] = [tick |-> history[i].tick, nr |-> k]
    BY <1>1 DEF IInv, Blocks
  <2>2. emitted'[history[i].tick] = emitted[history[i].tick] /\ history[i].tick \in 1 .. tick + 1
    BY <1>1, <1>3, <2>1
  <2> QED BY <1>3, <2>1, <2>2
<1>6. Complete(history', base', tick', adopted')
  <2> SUFFICES ASSUME NEW t \in 1 .. tick + 1, t \notin adopted', t >= base
               PROVE  \E i \in 1 .. Len(history) : history[i].tick = t
    BY <1>2 DEF Complete
  <2>1. t \in 1 .. tick /\ t \notin adopted
    BY <1>1, <1>2
  <2> QED BY <2>1 DEF IInv, Complete
<1>7. Ordered(history') /\ NoOlder(history', base') /\ Len(history') <= Cap
  BY <1>2 DEF IInv
<1> QED BY <1>4, <1>5, <1>6, <1>7 DEF IInv

\* Every transition, recorded or adopted, and a step of nothing.
LEMMA NextStep == ASSUME IInv, [Next]_vars PROVE IInv'
<1>1. ASSUME UNCHANGED vars PROVE IInv'
  BY <1>1 DEF vars, IInv, TypeOK
<1> QED BY <1>1, RecordStep, AdoptStep DEF Next

-----------------------------------------------------------------------------
(* What a resuming client is given. *)

\* In the window h, the events after tick c are the ones behind position p.
IsCut(h, c, p) ==
    /\ p \in 0 .. Len(h)
    /\ \A i \in 1 .. Len(h) : h[i].tick > c <=> i > p

\* The events of a window are numbers, and their ticks never go back.
LEMMA WindowFacts ==
    ASSUME NEW h \in Seq(HistoryEvent)
    PROVE  /\ Len(h) \in Nat
           /\ \A i \in 1 .. Len(h) : h[i] \in HistoryEvent /\ h[i].tick \in Nat /\ h[i].nr \in Nat
           /\ Ordered(h) => \A i, j \in 1 .. Len(h) : i <= j => h[i].tick <= h[j].tick
<1>1. Len(h) \in Nat
  OBVIOUS
<1>2. ASSUME NEW i \in 1 .. Len(h) PROVE h[i] \in HistoryEvent /\ h[i].tick \in Nat /\ h[i].nr \in Nat
  <2>1. h[i] \in HistoryEvent
    BY ElementOfSeq
  <2>2. h[i].tick \in 1 .. MaxTick /\ h[i].nr \in 1 .. MaxEvents
    BY <2>1 DEF HistoryEvent
  <2>3. h[i].tick \in Nat /\ h[i].nr \in Nat
    BY <2>2, HistoryAssumption
  <2> QED BY <2>1, <2>3
<1>3. ASSUME Ordered(h), NEW i \in 1 .. Len(h), NEW j \in 1 .. Len(h), i <= j
      PROVE  h[i].tick <= h[j].tick
  <2>1. h[i].tick \in Nat /\ h[j].tick \in Nat
    BY <1>2
  <2>2. CASE i = j
    BY <2>1, <2>2
  <2>3. CASE i # j
    <3>1. i < j
      BY <1>1, <1>3, <2>3
    <3>2. h[i].tick < h[j].tick \/ h[i].tick = h[j].tick
      BY <1>3, <3>1 DEF Ordered
    <3> QED BY <2>1, <3>2
  <2> QED BY <2>2, <2>3
<1> QED BY <1>1, <1>2, <1>3

\* A window can be cut at every tick.
LEMMA CutExists ==
    ASSUME NEW h \in Seq(HistoryEvent), Ordered(h), NEW c \in Nat
    PROVE  \E p \in 0 .. Len(h) : IsCut(h, c, p)
<1> DEFINE Late == {n \in 0 .. Len(h) : n = Len(h) \/ h[n + 1].tick > c}
<1>1. /\ Len(h) \in Nat /\ \A i \in 1 .. Len(h) : h[i].tick \in Nat
      /\ \A i, j \in 1 .. Len(h) : i <= j => h[i].tick <= h[j].tick
  BY WindowFacts
<1>2. Late \subseteq Nat /\ Len(h) \in Late
  BY <1>1
<1>3. PICK m \in Late : \A n \in Late : m <= n
  BY <1>2, LeastNat
<1>4. m \in 0 .. Len(h)
  OBVIOUS
<1>5. ASSUME NEW i \in 1 .. Len(h) PROVE h[i].tick > c <=> i > m
  <2>1. CASE i > m
    <3>1. m + 1 \in 1 .. Len(h) /\ m + 1 <= i
      BY <1>1, <1>4, <2>1
    <3>2. h[m + 1].tick > c
      BY <1>1, <3>1
    <3> QED BY <1>1, <2>1, <3>1, <3>2
  <2>2. CASE ~(i > m)
    <3>1. i - 1 \in 0 .. Len(h) /\ i - 1 < m
      BY <1>1, <1>4, <2>2
    <3>2. i - 1 \notin Late
      <4> HIDE DEF Late
      <4>1. ~(m <= i - 1)
        BY <1>1, <1>4, <3>1
      <4> QED BY <1>3, <4>1
    <3>3. ~(h[i].tick > c)
      BY <1>1, <3>1, <3>2
    <3> QED BY <2>2, <3>3
  <2> QED BY <2>1, <2>2
<1> QED BY <1>4, <1>5 DEF IsCut

\* A transition that is in the window lies between the cuts at the tick before
\* it and at its own.
LEMMA BetweenCuts ==
    ASSUME NEW h \in Seq(HistoryEvent), NEW em \in Seq(1 .. MaxEvents), Blocks(h, em), Ordered(h),
           NEW t \in Nat, NEW p \in 0 .. Len(h), NEW q \in 0 .. Len(h),
           IsCut(h, t, p), IsCut(h, t + 1, q),
           NEW i \in 1 .. Len(h), h[i].tick = t + 1
    PROVE  /\ em[t + 1] \in 1 .. MaxEvents /\ q = p + em[t + 1]
           /\ \A n \in 1 .. em[t + 1] : h[p + n] = [tick |-> t + 1, nr |-> n]
<1>1. /\ Len(h) \in Nat
      /\ \A j \in 1 .. Len(h) : h[j].tick \in Nat /\ h[j].nr \in Nat
  BY WindowFacts
<1>2. /\ \A j \in 1 .. Len(h) : h[j].tick > t <=> j > p
      /\ \A j \in 1 .. Len(h) : h[j].tick > t + 1 <=> j > q
  BY DEF IsCut
<1>3. PICK m : m = em[t + 1]
  OBVIOUS
<1>4. PICK s : s = i - h[i].nr
  OBVIOUS
<1>5. /\ t + 1 \in 1 .. Len(em) /\ h[i].nr \in 1 .. m
      /\ \A n \in 1 .. m : s + n \in 1 .. Len(h) /\ h[s + n] = [tick |-> t + 1, nr |-> n]
  BY <1>3, <1>4 DEF Blocks
<1>6. m \in 1 .. MaxEvents /\ m \in Nat /\ 1 \in 1 .. m /\ m \in 1 .. m
  <2>1. m \in 1 .. MaxEvents
    BY <1>3, <1>5, ElementOfSeq
  <2> QED BY <2>1, HistoryAssumption
<1>7. s \in Int
  BY <1>1, <1>4
<1>8. /\ s + 1 \in 1 .. Len(h) /\ h[s + 1].tick = t + 1 /\ h[s + 1].nr = 1
      /\ s + m \in 1 .. Len(h) /\ h[s + m].tick = t + 1 /\ h[s + m].nr = m
  <2>1. s + 1 \in 1 .. Len(h) /\ h[s + 1] = [tick |-> t + 1, nr |-> 1]
    BY <1>5, <1>6
  <2>2. s + m \in 1 .. Len(h) /\ h[s + m] = [tick |-> t + 1, nr |-> m]
    BY <1>5, <1>6
  <2> QED BY <2>1, <2>2
<1>9. s = p
  <2>1. s + 1 > p
    BY <1>2, <1>8
  <2>2. SUFFICES ASSUME s > p PROVE FALSE
    BY <1>7, <2>1
  <2>3. s \in 1 .. Len(h) /\ s < s + 1 /\ (s + 1) - s = 1
    BY <1>1, <1>7, <1>8, <2>2
  <2>4. h[s].tick > t /\ h[s].tick \in Nat /\ h[s].nr \in Nat
    BY <1>1, <1>2, <2>2, <2>3
  <2>5. h[s].nr >= 1
    BY <1>1, <2>3 DEF Blocks
  <2>6. h[s].tick < t + 1 \/ (h[s].tick = t + 1 /\ 1 = 1 - h[s].nr)
    <3>1. \/ h[s].tick < h[s + 1].tick
          \/ (h[s].tick = h[s + 1].tick /\ (s + 1) - s = h[s + 1].nr - h[s].nr)
      BY <1>8, <2>3 DEF Ordered
    <3> QED BY <1>8, <2>3, <3>1
  <2> QED BY <2>4, <2>5, <2>6
<1>10. q = s + m
  <2>1. ~(s + m > q)
    BY <1>2, <1>8
  <2>2. SUFFICES ASSUME q > s + m PROVE FALSE
    BY <1>1, <1>6, <1>7, <2>1
  <2>3. q \in 1 .. Len(h) /\ q > p /\ ~(q > q)
    BY <1>1, <1>6, <1>7, <1>8, <1>9, <2>2
  <2>4. h[q].tick > t /\ ~(h[q].tick > t + 1) /\ h[q].tick \in Nat /\ h[q].nr \in Nat
    BY <1>1, <1>2, <2>3
  <2>5. h[q].tick = t + 1
    BY <2>4
  <2>6. h[q].nr \in 1 .. m
    BY <1>3, <2>3, <2>5 DEF Blocks
  <2>7. q - (s + m) = h[q].nr - m
    <3>1. \/ h[s + m].tick < h[q].tick
          \/ (h[s + m].tick = h[q].tick /\ q - (s + m) = h[q].nr - h[s + m].nr)
      BY <1>8, <2>2, <2>3 DEF Ordered
    <3> QED BY <1>8, <2>5, <3>1
  <2> QED BY <1>6, <1>7, <2>2, <2>3, <2>4, <2>6, <2>7
<1>11. \A n \in 1 .. m : h[p + n] = [tick |-> t + 1, nr |-> n]
  BY <1>5, <1>9
<1> QED BY <1>3, <1>6, <1>9, <1>10, <1>11

\* A stretch of the window, event by event.
LEMMA StretchFacts ==
    ASSUME NEW S, NEW h \in Seq(S), NEW m \in 0 .. Len(h), NEW p \in m .. Len(h)
    PROVE  /\ SubSeq(h, m + 1, p) \in Seq(S) /\ Len(SubSeq(h, m + 1, p)) = p - m
           /\ \A j \in 1 .. p - m : SubSeq(h, m + 1, p)[j] = h[m + j]
<1>1. Len(h) \in Nat /\ \A i \in 1 .. Len(h) : h[i] \in S
  OBVIOUS
<1>2. \A j \in m + 1 .. p : h[j] \in S
  BY <1>1
<1>3. m + 1 \in Int /\ p \in Int /\ m \in Int
  BY <1>1
<1>4. PICK r : r = SubSeq(h, m + 1, p)
  OBVIOUS
<1>5. /\ r \in Seq(S) /\ Len(r) = (IF m + 1 <= p THEN p - (m + 1) + 1 ELSE 0)
      /\ \A j \in 1 .. p - (m + 1) + 1 : r[j] = h[(m + 1) + j - 1]
  BY <1>2, <1>3, <1>4, SubSeqProperties
<1>6. Len(r) = p - m
  <2>1. m + 1 <= p \/ p - m = 0
    BY <1>1, <1>3
  <2> QED BY <1>3, <1>5, <2>1
<1>7. ASSUME NEW j \in 1 .. p - m PROVE r[j] = h[m + j]
  <2>1. j \in 1 .. p - (m + 1) + 1 /\ (m + 1) + j - 1 = m + j
    BY <1>3
  <2> QED BY <1>5, <2>1
<1> QED BY <1>4, <1>5, <1>6, <1>7

\* A stretch up to one tick and the transition of the next make the stretch up
\* to that one.
LEMMA StretchGrows ==
    ASSUME NEW h \in Seq(HistoryEvent), NEW m \in 0 .. Len(h), NEW p \in m .. Len(h),
           NEW t \in 1 .. MaxTick, NEW n \in 1 .. MaxEvents, p + n <= Len(h),
           \A k \in 1 .. n : h[p + k] = [tick |-> t, nr |-> k]
    PROVE  SubSeq(h, m + 1, p + n) = SubSeq(h, m + 1, p) \o EventsOf(t, n)
<1>1. /\ Len(h) \in Nat /\ m \in Nat /\ p \in Nat /\ n \in Nat
      /\ m \in 0 .. Len(h) /\ p + n \in m .. Len(h)
  BY HistoryAssumption
<1>2. PICK a : a = SubSeq(h, m + 1, p)
  OBVIOUS
<1>3. PICK b : b = SubSeq(h, m + 1, p + n)
  OBVIOUS
<1>4. PICK e : e = EventsOf(t, n)
  OBVIOUS
<1>5. /\ a \in Seq(HistoryEvent) /\ Len(a) = p - m
      /\ \A j \in 1 .. p - m : a[j] = h[m + j]
  BY <1>2, StretchFacts
<1>6. /\ b \in Seq(HistoryEvent) /\ Len(b) = p + n - m
      /\ \A j \in 1 .. p + n - m : b[j] = h[m + j]
  BY <1>1, <1>3, StretchFacts
<1>7. /\ e \in Seq(HistoryEvent) /\ Len(e) = n
      /\ \A i \in 1 .. n : e[i] = [tick |-> t, nr |-> i]
  BY <1>4, EventsFacts
<1>8. /\ a \o e \in Seq(HistoryEvent) /\ Len(a \o e) = Len(a) + Len(e)
      /\ \A i \in 1 .. Len(a) + Len(e) : (a \o e)[i] = IF i <= Len(a) THEN a[i] ELSE e[i - Len(a)]
  BY <1>5, <1>7, ConcatProperties
<1>9. Len(b) = Len(a \o e)
  BY <1>1, <1>5, <1>6, <1>7, <1>8
<1>10. ASSUME NEW i \in 1 .. Len(b) PROVE b[i] = (a \o e)[i]
  <2>0. Len(a) + Len(e) = p + n - m
    BY <1>1, <1>5, <1>7
  <2>1. i \in Int /\ i \in 1 .. p + n - m /\ i \in 1 .. Len(a) + Len(e)
    BY <1>6, <2>0
  <2>2. CASE i <= Len(a)
    <3>1. i \in 1 .. p - m
      BY <1>1, <1>5, <2>1, <2>2
    <3> QED BY <1>5, <1>6, <1>8, <2>1, <2>2, <3>1
  <2>3. CASE ~(i <= Len(a))
    <3>1. i - Len(a) \in 1 .. n /\ p + (i - Len(a)) = m + i
      BY <1>1, <1>5, <2>1, <2>3
    <3>2. h[m + i] = e[i - Len(a)]
      BY <1>7, <3>1
    <3>3. b[i] = h[m + i]
      BY <1>6, <2>1
    <3>4. (a \o e)[i] = e[i - Len(a)]
      BY <1>8, <2>1, <2>3
    <3> QED BY <3>2, <3>3, <3>4
  <2> QED BY <2>2, <2>3
<1>11. b = a \o e
  BY <1>6, <1>8, <1>9, <1>10, SeqEqual
<1> QED BY <1>2, <1>3, <1>4, <1>11

-----------------------------------------------------------------------------
(* The two recursions. *)

\* One turn of the loop in sinceLocked, given what the turns before it collected.
Turn(h, c, events, i) ==
    IF i = 0 THEN <<>>
    ELSE IF h[i].tick > c THEN Append(events[i - 1], h[i]) ELSE events[i - 1]

\* The loop in full, once some function is known to satisfy its turns.
LEMMA EventsAfterUnfolds ==
    ASSUME NEW h, NEW c, NEW g, g = [i \in 0 .. Len(h) |-> Turn(h, c, g, i)]
    PROVE  \E events : /\ events = [i \in 0 .. Len(h) |-> Turn(h, c, events, i)]
                       /\ EventsAfter(h, c) = events[Len(h)]
<1> DEFINE events == CHOOSE f : f = [i \in 0 .. Len(h) |-> Turn(h, c, f, i)]
<1>1. events = [i \in 0 .. Len(h) |-> Turn(h, c, events, i)]
  OBVIOUS
<1>2. EventsAfter(h, c) = events[Len(h)]
  BY DEF EventsAfter, Turn
<1> QED BY <1>1, <1>2

\* The loop collects what lies behind the cut.
LEMMA EventsAfterCut ==
    ASSUME NEW h \in Seq(HistoryEvent), NEW c \in Nat, NEW m \in 0 .. Len(h), IsCut(h, c, m)
    PROVE  EventsAfter(h, c) = SubSeq(h, m + 1, Len(h))
<1> DEFINE R(i) == IF i <= m THEN <<>> ELSE SubSeq(h, m + 1, i)
           g == [i \in 0 .. Len(h) |-> R(i)]
<1>1. /\ Len(h) \in Nat /\ m \in Nat
      /\ \A i \in 1 .. Len(h) : h[i] \in HistoryEvent
      /\ \A i \in 1 .. Len(h) : h[i].tick > c <=> i > m
  BY WindowFacts DEF IsCut
<1>2. \A i \in m .. Len(h) : R(i) = SubSeq(h, m + 1, i)
  <2> TAKE i \in m .. Len(h)
  <2>1. CASE i = m
    <3>1. SubSeq(h, m + 1, i) = <<>>
      BY <1>1, <2>1, SubSeqEmpty
    <3> QED BY <1>1, <2>1, <3>1
  <2>2. CASE i # m
    BY <1>1, <2>2
  <2> QED BY <2>1, <2>2
<1>3. ASSUME NEW i \in 1 .. Len(h), i > m PROVE SubSeq(h, m + 1, i) = Append(SubSeq(h, m + 1, i - 1), h[i])
  <2>1. /\ i \in Int /\ i - 1 \in m .. Len(h) /\ i \in m .. Len(h) /\ h[i] \in HistoryEvent
        /\ m + (i - m) = i
    BY <1>1, <1>3
  <2>2. PICK a : a = SubSeq(h, m + 1, i - 1)
    OBVIOUS
  <2>3. PICK b : b = SubSeq(h, m + 1, i)
    OBVIOUS
  <2>4. /\ a \in Seq(HistoryEvent) /\ Len(a) = i - 1 - m
        /\ \A j \in 1 .. i - 1 - m : a[j] = h[m + j]
    BY <1>1, <2>1, <2>2, StretchFacts
  <2>5. /\ b \in Seq(HistoryEvent) /\ Len(b) = i - m
        /\ \A j \in 1 .. i - m : b[j] = h[m + j]
    BY <1>1, <2>1, <2>3, StretchFacts
  <2>6. /\ Append(a, h[i]) \in Seq(HistoryEvent) /\ Len(Append(a, h[i])) = Len(a) + 1
        /\ \A j \in 1 .. Len(a) : Append(a, h[i])[j] = a[j]
        /\ Append(a, h[i])[Len(a) + 1] = h[i]
    BY <2>1, <2>4, AppendProperties
  <2>7. Len(b) = Len(Append(a, h[i])) /\ Len(a) + 1 = i - m
    BY <1>1, <2>1, <2>4, <2>5, <2>6
  <2>8. ASSUME NEW j \in 1 .. Len(b) PROVE b[j] = Append(a, h[i])[j]
    <3>1. CASE j = i - m
      BY <2>1, <2>5, <2>6, <2>7, <3>1
    <3>2. CASE j # i - m
      <4>1. j \in 1 .. i - 1 - m /\ j \in 1 .. Len(a) /\ j \in 1 .. i - m
        BY <1>1, <2>1, <2>4, <2>5, <3>2
      <4> QED BY <2>4, <2>5, <2>6, <4>1
    <3> QED BY <3>1, <3>2
  <2>9. b = Append(a, h[i])
    BY <2>5, <2>6, <2>7, <2>8, SeqEqual
  <2> QED BY <2>2, <2>3, <2>9
<1>4. ASSUME NEW i \in 1 .. Len(h)
      PROVE  R(i) = IF h[i].tick > c THEN Append(R(i - 1), h[i]) ELSE R(i - 1)
  <2>1. CASE i > m
    <3>1. i \in m .. Len(h) /\ i - 1 \in m .. Len(h)
      BY <1>1, <2>1
    <3>2. R(i) = SubSeq(h, m + 1, i) /\ R(i - 1) = SubSeq(h, m + 1, i - 1)
      BY <1>2, <3>1
    <3> HIDE DEF R
    <3> QED BY <1>1, <1>3, <2>1, <3>2
  <2>2. CASE ~(i > m)
    <3>1. i <= m /\ i - 1 <= m
      BY <1>1, <2>2
    <3> QED BY <1>1, <2>2, <3>1
  <2> QED BY <2>1, <2>2
<1>5. R(0) = <<>>
  BY <1>1
<1>6. R(Len(h)) = SubSeq(h, m + 1, Len(h))
  BY <1>1, <1>2
<1> HIDE DEF R
<1>7. g = [i \in 0 .. Len(h) |-> Turn(h, c, g, i)]
  <2>1. ASSUME NEW i \in 0 .. Len(h) PROVE R(i) = Turn(h, c, g, i)
    <3>1. CASE i = 0
      BY <1>5, <3>1 DEF Turn
    <3>2. CASE i # 0
      <4>1. i \in 1 .. Len(h) /\ i - 1 \in 0 .. Len(h)
        BY <1>1, <3>2
      <4>2. g[i - 1] = R(i - 1)
        BY <4>1
      <4> QED BY <1>4, <3>2, <4>1, <4>2 DEF Turn
    <3> QED BY <3>1, <3>2
  <2> QED BY <2>1
<1>8. PICK events : /\ events = [i \in 0 .. Len(h) |-> Turn(h, c, events, i)]
                    /\ EventsAfter(h, c) = events[Len(h)]
  BY <1>7, EventsAfterUnfolds
<1>9. \A i \in 0 .. Len(h) : events[i] = R(i)
  <2> DEFINE Bad == {i \in 0 .. Len(h) : events[i] # R(i)}
  <2>1. SUFFICES ASSUME Bad # {} PROVE FALSE
    OBVIOUS
  <2>2. Bad \subseteq Nat
    BY <1>1
  <2>3. PICK i \in Bad : \A j \in Bad : i <= j
    BY <2>1, <2>2, LeastNat
  <2>4. events[i] = Turn(h, c, events, i) /\ i \in 0 .. Len(h) /\ events[i] # R(i)
    BY <1>8
  <2>5. CASE i = 0
    BY <1>5, <2>4, <2>5 DEF Turn
  <2>6. CASE i # 0
    <3>1. i \in 1 .. Len(h) /\ i - 1 \in 0 .. Len(h) /\ ~(i <= i - 1)
      BY <1>1, <2>4, <2>6
    <3>2. events[i - 1] = R(i - 1)
      BY <2>3, <3>1
    <3> QED BY <1>4, <2>4, <2>6, <3>1, <3>2 DEF Turn
  <2> QED BY <2>5, <2>6
<1> QED BY <1>1, <1>6, <1>8, <1>9

\* One turn of FlattenSeq.
Joined(seqs, f, i) == IF i = 1 THEN seqs[i] ELSE f[i - 1] \o seqs[i]

\* FlattenSeq in full, once some function is known to satisfy its turns.
LEMMA FlattenUnfolds ==
    ASSUME NEW seqs, NEW n \in Nat, n >= 1, Len(seqs) = n,
           NEW g, g = [i \in 1 .. n |-> Joined(seqs, g, i)]
    PROVE  FlattenSeq(seqs) = g[n]
<1> DEFINE f == CHOOSE e : e = [i \in 1 .. Len(seqs) |-> Joined(seqs, e, i)]
<1>1. f = [i \in 1 .. Len(seqs) |-> Joined(seqs, f, i)]
  OBVIOUS
<1>2. FlattenSeq(seqs) = f[Len(seqs)]
  BY DEF FlattenSeq, Joined
<1> HIDE DEF f
<1>3. \A i \in 1 .. n : f[i] = g[i]
  <2> DEFINE Bad == {i \in 1 .. n : f[i] # g[i]}
  <2>1. SUFFICES ASSUME Bad # {} PROVE FALSE
    OBVIOUS
  <2>2. Bad \subseteq Nat
    OBVIOUS
  <2>3. PICK i \in Bad : \A j \in Bad : i <= j
    BY <2>1, <2>2, LeastNat
  <2>4. f[i] = Joined(seqs, f, i) /\ g[i] = Joined(seqs, g, i) /\ i \in 1 .. n /\ f[i] # g[i]
    BY <1>1
  <2>5. CASE i = 1
    BY <2>4, <2>5 DEF Joined
  <2>6. CASE i # 1
    <3>1. i - 1 \in 1 .. n /\ ~(i <= i - 1)
      BY <2>4, <2>6
    <3>2. f[i - 1] = g[i - 1]
      BY <2>3, <3>1
    <3> QED BY <2>4, <2>6, <3>2 DEF Joined
  <2> QED BY <2>5, <2>6
<1> QED BY <1>2, <1>3

\* If every transition after the cursor is in the window, what lies behind the
\* cut is all of their events, in order.
LEMMA AllSinceIsRest ==
    ASSUME IInv, NEW c \in 0 .. tick, c < tick,
           \A t \in c + 1 .. tick : \E i \in 1 .. Len(history) : history[i].tick = t
    PROVE  AllSince(c) = EventsAfter(history, c)
<1>1. PICK h : h = history
  OBVIOUS
<1>2. PICK em : em = emitted
  OBVIOUS
<1>3. PICK top : top = tick
  OBVIOUS
<1>4. /\ h \in Seq(HistoryEvent) /\ em \in Seq(1 .. MaxEvents) /\ Blocks(h, em) /\ Ordered(h)
      /\ Len(em) = top /\ top \in Nat /\ top <= MaxTick /\ MaxTick \in Nat /\ MaxEvents \in Nat
      /\ c \in Nat /\ c < top
      /\ \A t \in c + 1 .. top : \E i \in 1 .. Len(h) : h[i].tick = t
  BY <1>1, <1>2, <1>3, HistoryAssumption DEF IInv, TypeOK
<1>5. Len(h) \in Nat /\ \A i \in 1 .. Len(h) : h[i].tick \in Nat
  BY <1>4, WindowFacts
<1> DEFINE n == top - c
           P(k) == CHOOSE p \in 0 .. Len(h) : IsCut(h, c + k, p)
           E(k) == EventsOf(c + k, em[c + k])
           seqs == [k \in 1 .. n |-> E(k)]
           R(k) == SubSeq(h, P(0) + 1, P(k))
           g    == [k \in 1 .. n |-> R(k)]
<1>6. n \in Nat /\ n >= 1 /\ c + n = top
  BY <1>4
<1>7. ASSUME NEW k \in 0 .. n PROVE P(k) \in 0 .. Len(h) /\ IsCut(h, c + k, P(k))
  <2>1. c + k \in Nat
    BY <1>4
  <2>2. \E p \in 0 .. Len(h) : IsCut(h, c + k, p)
    BY <1>4, <2>1, CutExists
  <2> QED BY <2>2
<1> HIDE DEF P, E, R, n
<1>8. P(0) \in 0 .. Len(h) /\ IsCut(h, c, P(0))
  <2>1. 0 \in 0 .. n /\ c + 0 = c
    BY <1>4, <1>6
  <2>2. P(0) \in 0 .. Len(h) /\ IsCut(h, c + 0, P(0))
    BY <1>7, <2>1
  <2> QED BY <2>1, <2>2
<1>9. ASSUME NEW k \in 0 .. n PROVE P(k) \in P(0) .. Len(h)
  <2>1. SUFFICES ASSUME P(k) < P(0) PROVE FALSE
    BY <1>5, <1>7, <1>8
  <2>2. P(0) \in 1 .. Len(h) /\ P(0) > P(k) /\ ~(P(0) > P(0)) /\ P(k) \in 0 .. Len(h)
    BY <1>5, <1>7, <1>8, <2>1
  <2>3. h[P(0)].tick > c + k
    BY <1>7, <2>2 DEF IsCut
  <2>4. ~(h[P(0)].tick > c)
    BY <1>8, <2>2 DEF IsCut
  <2> QED BY <1>4, <1>5, <1>6, <2>2, <2>3, <2>4
<1>10. ASSUME NEW k \in 1 .. n PROVE R(k) = R(k - 1) \o E(k)
  <2>1. /\ k - 1 \in 0 .. n /\ k \in 0 .. n /\ k \in Nat /\ c + k \in 1 .. MaxTick
        /\ c + (k - 1) \in Nat /\ (c + (k - 1)) + 1 = c + k /\ c + k \in c + 1 .. top
    BY <1>4, <1>6
  <2>2. PICK p : p = P(k - 1)
    OBVIOUS
  <2>3. PICK q : q = P(k)
    OBVIOUS
  <2>4. PICK t : t = c + (k - 1)
    OBVIOUS
  <2>5. /\ t \in Nat /\ t + 1 = c + k
        /\ p \in 0 .. Len(h) /\ IsCut(h, t, p) /\ q \in 0 .. Len(h) /\ IsCut(h, t + 1, q)
    BY <1>7, <2>1, <2>2, <2>3, <2>4
  <2>6. PICK i \in 1 .. Len(h) : h[i].tick = t + 1
    BY <1>4, <2>1, <2>5
  <2>7. /\ em[t + 1] \in 1 .. MaxEvents /\ q = p + em[t + 1]
        /\ \A j \in 1 .. em[t + 1] : h[p + j] = [tick |-> t + 1, nr |-> j]
    <3>1. /\ h \in Seq(HistoryEvent) /\ em \in Seq(1 .. MaxEvents) /\ Blocks(h, em) /\ Ordered(h)
          /\ i \in 1 .. Len(h) /\ h[i].tick = t + 1
      BY <1>4, <2>6
    <3> HIDE DEF g, seqs
    <3> QED BY <2>5, <3>1, BetweenCuts, SMTT(60)
  <2>8. PICK m : m = P(0)
    OBVIOUS
  <2>9. m \in 0 .. Len(h) /\ p \in m .. Len(h) /\ t + 1 \in 1 .. MaxTick /\ p + em[t + 1] <= Len(h)
    <3>1. m \in 0 .. Len(h) /\ p \in m .. Len(h)
      BY <1>8, <1>9, <2>1, <2>2, <2>8
    <3>2. q <= Len(h)
      BY <1>5, <2>5
    <3> QED BY <2>1, <2>5, <2>7, <3>1, <3>2
  <2>10. SubSeq(h, m + 1, p + em[t + 1]) = SubSeq(h, m + 1, p) \o EventsOf(t + 1, em[t + 1])
    BY <1>4, <2>7, <2>9, StretchGrows
  <2> QED BY <2>2, <2>3, <2>5, <2>7, <2>8, <2>10 DEF R, E
<1>11. ASSUME NEW k \in 1 .. n PROVE E(k) \in Seq(HistoryEvent)
  <2>1. c + k \in 1 .. MaxTick /\ c + k \in 1 .. Len(em)
    BY <1>4, <1>6
  <2>2. em[c + k] \in 1 .. MaxEvents
    BY <1>4, <2>1, ElementOfSeq
  <2> QED BY <2>1, <2>2, EventsFacts DEF E
<1>12. R(0) = <<>>
  <2>1. P(0) + 1 \in Int /\ P(0) \in Int /\ P(0) < P(0) + 1
    BY <1>5, <1>8
  <2> QED BY <2>1, SubSeqEmpty DEF R
<1>13. g = [k \in 1 .. n |-> Joined(seqs, g, k)]
  <2>1. ASSUME NEW k \in 1 .. n PROVE R(k) = Joined(seqs, g, k)
    <3>1. R(k) = R(k - 1) \o E(k) /\ seqs[k] = E(k) /\ E(k) \in Seq(HistoryEvent)
      BY <1>10, <1>11
    <3>2. CASE k = 1
      <4>1. R(k - 1) = <<>>
        BY <1>12, <3>2
      <4>2. <<>> \o E(k) = E(k)
        BY <3>1, ConcatEmptySeq
      <4> QED BY <3>1, <3>2, <4>1, <4>2 DEF Joined
    <3>3. CASE k # 1
      <4>1. k - 1 \in 1 .. n
        BY <1>6, <3>3
      <4>2. g[k - 1] = R(k - 1)
        BY <4>1
      <4> QED BY <3>1, <3>3, <4>2 DEF Joined
    <3> QED BY <3>2, <3>3
  <2> QED BY <2>1
<1>14. Len(seqs) = n
  BY <1>6
<1>15. FlattenSeq(seqs) = g[n]
  <2> HIDE DEF seqs, g
  <2> QED BY <1>6, <1>13, <1>14, FlattenUnfolds
<1>16. g[n] = R(n)
  BY <1>6
<1>17. P(n) = Len(h)
  <2>1. n \in 0 .. n
    BY <1>6
  <2>2. P(n) \in 0 .. Len(h) /\ IsCut(h, top, P(n))
    <3>1. P(n) \in 0 .. Len(h) /\ IsCut(h, c + n, P(n))
      BY <1>7, <2>1
    <3> QED BY <1>6, <3>1
  <2>3. SUFFICES ASSUME P(n) < Len(h) PROVE FALSE
    BY <1>5, <2>2
  <2>4. Len(h) \in 1 .. Len(h) /\ Len(h) > P(n)
    BY <1>5, <2>2, <2>3
  <2>5. h[Len(h)].tick > top
    BY <2>2, <2>4 DEF IsCut
  <2>6. h[Len(h)].tick \in 1 .. top
    BY <1>4, <2>4 DEF Blocks
  <2> QED BY <1>4, <2>5, <2>6
<1>18. EventsAfter(h, c) = SubSeq(h, P(0) + 1, Len(h))
  BY <1>4, <1>8, EventsAfterCut
<1>19. AllSince(c) = FlattenSeq(seqs)
  BY <1>2, <1>3 DEF AllSince, n, E
<1> QED BY <1>1, <1>15, <1>16, <1>17, <1>18, <1>19 DEF R

-----------------------------------------------------------------------------
(* Theorems. *)

\* However transitions are recorded and adopted, IInv holds.
THEOREM InductiveInvariant == Spec => []IInv
<1>1. Init => IInv
  BY InitIInv
<1>2. IInv /\ [Next]_vars => IInv'
  BY NextStep
<1> QED BY <1>1, <1>2, PTL DEF Spec

\* The window holds events of ticks reached, and base is one of them.
THEOREM TypeCorrect == Spec => []TypeOK
<1>1. IInv => TypeOK
  BY DEF IInv
<1> QED BY <1>1, InductiveInvariant, PTL

\* trimHistoryLocked keeps the window within its capacity and cuts it between
\* two transitions only, whatever their sizes.
THEOREM WholeTransitionsOnly == Spec => []WholeTransitions
<1>1. IInv => WholeTransitions
  <2> SUFFICES ASSUME IInv, NEW i \in 1 .. Len(history), NEW n \in 1 .. emitted[history[i].tick]
               PROVE  \E j \in 1 .. Len(history) : history[j] = [tick |-> history[i].tick, nr |-> n]
    BY DEF IInv, WholeTransitions
  <2>1. /\ i - history[i].nr + n \in 1 .. Len(history)
        /\ history[i - history[i].nr + n] = [tick |-> history[i].tick, nr |-> n]
    BY DEF IInv, Blocks
  <2> QED BY <2>1
<1> QED BY <1>1, InductiveInvariant, PTL

\* sinceLocked and ResumeFor give a resuming client every event after its
\* cursor or none, unless one of those transitions was adopted without being
\* recorded; one given none and not told to resynchronise holds the newest tick
\* or cursor 0, and cursor 0 is given none only once the first transition is no
\* longer in the window.
THEOREM ResumeAllOrNothing == Spec => []ResumeExact
<1>1. ASSUME IInv, NEW c \in 0 .. tick, adopted \cap (c + 1 .. tick) = {}
      PROVE  CatchUp(c) \in {<<>>, AllSince(c)}
  <2>1. /\ tick \in Nat /\ c \in Nat /\ c <= tick /\ history \in Seq(HistoryEvent)
        /\ Len(history) \in Nat /\ base \in Nat /\ Ordered(history) /\ Blocks(history, emitted)
        /\ Len(emitted) = tick
    BY <1>1, HistoryAssumption DEF IInv, TypeOK
  <2>2. CatchUp(c) = Since(c)
    BY <2>1 DEF CatchUp
  <2>3. CASE ~SinceOk(c)
    BY <2>2, <2>3 DEF Since
  <2>4. CASE SinceOk(c)
    <3>1. Since(c) = EventsAfter(history, c)
      BY <2>4 DEF Since
    <3>2. CASE history = <<>> \/ c = tick
      <4>1. PICK m \in 0 .. Len(history) : IsCut(history, c, m)
        BY <2>1, CutExists
      <4>2. m = Len(history)
        <5>1. CASE history = <<>>
          BY <2>1, <5>1
        <5>2. CASE c = tick
          <6>1. SUFFICES ASSUME m < Len(history) PROVE FALSE
            BY <2>1
          <6>2. Len(history) \in 1 .. Len(history) /\ Len(history) > m
            BY <2>1, <6>1
          <6>3. history[Len(history)].tick > c
            BY <4>1, <6>2 DEF IsCut
          <6>4. history[Len(history)].tick \in 1 .. tick
            BY <2>1, <6>2 DEF Blocks
          <6> QED BY <2>1, <5>2, <6>3, <6>4
        <5> QED BY <3>2, <5>1, <5>2
      <4>3. EventsAfter(history, c) = SubSeq(history, m + 1, Len(history))
        BY <2>1, <4>1, EventsAfterCut
      <4>4. m + 1 \in Int /\ Len(history) \in Int /\ Len(history) < m + 1
        BY <2>1, <4>2
      <4>5. SubSeq(history, m + 1, Len(history)) = <<>>
        BY <4>4, SubSeqEmpty
      <4> QED BY <2>2, <3>1, <4>3, <4>5
    <3>3. CASE history # <<>> /\ c # tick
      <4>1. base <= c + 1 /\ c < tick
        BY <2>1, <2>4, <3>3 DEF SinceOk
      <4>2. \A t \in c + 1 .. tick : \E i \in 1 .. Len(history) : history[i].tick = t
        <5> TAKE t \in c + 1 .. tick
        <5>1. t \in 1 .. tick /\ t >= base /\ t \notin adopted
          BY <1>1, <2>1, <4>1
        <5> QED BY <1>1, <5>1 DEF IInv, Complete
      <4>3. AllSince(c) = EventsAfter(history, c)
        BY <1>1, <4>1, <4>2, AllSinceIsRest
      <4> QED BY <2>2, <3>1, <4>3
    <3> QED BY <3>2, <3>3
  <2> QED BY <2>3, <2>4
<1>2. ASSUME IInv, NEW c \in 0 .. tick + 1, CatchUp(c) = <<>>, ~Resync(c)
      PROVE  c = tick \/ c = 0
  <2>1. tick \in Nat
    BY <1>2, HistoryAssumption DEF IInv, TypeOK
  <2> QED BY <1>2, <2>1 DEF Resync
<1>3. ASSUME IInv, CatchUp(0) = <<>>, history # <<>>
      PROVE  base > 1
  <2>1. /\ tick \in Nat /\ history \in Seq(HistoryEvent) /\ Len(history) \in Nat
        /\ base \in Nat /\ Ordered(history) /\ Blocks(history, emitted) /\ Len(emitted) = tick
    BY <1>3, HistoryAssumption DEF IInv, TypeOK
  <2>2. 1 \in 1 .. Len(history) /\ CatchUp(0) = Since(0)
    BY <1>3, <2>1 DEF CatchUp
  <2>3. \A i \in 1 .. Len(history) : history[i].tick > 0
    BY <2>1 DEF Blocks
  <2>4. SUFFICES ASSUME SinceOk(0) PROVE FALSE
    BY <1>3, <2>1 DEF SinceOk
  <2>5. CatchUp(0) = EventsAfter(history, 0)
    BY <2>2, <2>4 DEF Since
  <2>6. IsCut(history, 0, 0) /\ 0 \in 0 .. Len(history)
    BY <2>1, <2>3 DEF IsCut
  <2>7. EventsAfter(history, 0) = SubSeq(history, 0 + 1, Len(history))
    BY <2>1, <2>6, EventsAfterCut
  <2>8. SubSeq(history, 1, Len(history)) # <<>>
    BY <2>1, <2>2
  <2> QED BY <1>3, <2>5, <2>7, <2>8
<1>4. IInv => ResumeExact
  BY <1>1, <1>2, <1>3 DEF ResumeExact
<1> QED BY <1>4, InductiveInvariant, PTL
=============================================================================
