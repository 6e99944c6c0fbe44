-------------------------- MODULE AlertRulesProofs --------------------------
(***************************************************************************)
(* For any replicas and burn windows: outages, collapses and sustained     *)
(* errors are paged in time, and the alerts about traffic end with it.     *)
(***************************************************************************)
EXTENDS AlertRules, FiniteSetTheorems, SequenceTheorems, TLAPS

HeldOK == held \in [Alerts -> Nat]

\* A replica that has met the outage says so, and RedisDown is held for as long
\* as there is one, up to its `for'.
BlindIsHeld ==
    /\ blind \subseteq running /\ running \subseteq Replicas
    /\ redis_up \in [Replicas -> {0, 1}]
    /\ \A r \in blind : redis = "down" /\ redis_up[r] = 0
    /\ met_for \in 0..3 /\ held["RedisDown"] >= met_for

\* The latest samples are of a spell's kinds for as long as the spell lasts.
SamplesOK == samples \in Seq(Kinds)
EndsWith(s, n, kinds) == \A i \in 1..Len(s) : i > Len(s) - n => s[i] \in kinds
SpellsShow ==
    /\ lasts \in [DOMAIN Spells -> Nat]
    /\ \A p \in DOMAIN Spells : lasts[p] <= Enough[p] /\ EndsWith(samples, lasts[p], Spells[p])

\* Spells of misses or without real traffic fill the hit ratio's window first, and
\* then hold its alert or end it.
RatioIsHeld ==
    /\ lasts["misses"] >= 4 => held["HitRatioCollapsed"] >= lasts["misses"] - 3
    /\ lasts["light"] >= 4 => held["HitRatioCollapsed"] = 0

\* Spells of errors or without any show in the recorded ratios first, and one
\* evaluation later, at the latest, in the alert.
BurnIsHeld ==
    /\ recorded \in [long : BOOLEAN, short : BOOLEAN]
    /\ lasts["errors"] >= HalfOfLong => recorded.long /\ recorded.short
    /\ lasts["errors"] > HalfOfLong => held["FastBurn"] >= lasts["errors"] - HalfOfLong
    /\ lasts["clean"] >= ShortWindow => ~recorded.short
    /\ lasts["clean"] > ShortWindow => held["FastBurn"] = 0

RuleInv == HeldOK /\ BlindIsHeld /\ SamplesOK /\ SpellsShow /\ RatioIsHeld /\ BurnIsHeld

LEMMA TheAlerts ==
    /\ Alerts = {"ServiceDown", "HitRatioCollapsed", "RedisDown", "FastBurn"}
    /\ For["ServiceDown"] = 2 /\ For["HitRatioCollapsed"] = 4
    /\ For["RedisDown"] = 2 /\ For["FastBurn"] = 4
  BY DEF Alerts, For, HitRatioFor

LEMMA TheSpells ==
    /\ DOMAIN Spells = {"misses", "light", "errors", "clean"}
    /\ Spells["misses"] = {"misses"} /\ Spells["light"] = {"light"}
    /\ Spells["errors"] = {"errors"} /\ Spells["clean"] = Kinds \ {"errors"}
    /\ Enough["misses"] = 8 /\ Enough["light"] = 4
    /\ Enough["errors"] = HalfOfLong + 5 /\ Enough["clean"] = ShortWindow + 1
    /\ HalfOfLong \in Nat /\ HalfOfLong >= 1 /\ 2 * HalfOfLong >= LongWindow
    /\ ShortWindow \in Nat /\ ShortWindow >= 1
    /\ \A p \in DOMAIN Spells : Enough[p] \in Nat
<1>1. /\ HalfOfLong \in Nat /\ HalfOfLong >= 1 /\ 2 * HalfOfLong >= LongWindow
      /\ ShortWindow \in Nat /\ ShortWindow >= 1
  BY WindowAssumption DEF HalfOfLong
<1> QED
  BY <1>1 DEF Spells, Enough

\* What an evaluation does to the alerts, and which ratios FastBurn reads.
LEMMA Held ==
  ASSUME HeldOK, NEW kind \in Kinds, Evaluate(kind)
  PROVE  /\ HeldOK'
         /\ held'["ServiceDown"] = IF ServiceDown' THEN Least(held["ServiceDown"] + 1, 3) ELSE 0
         /\ held'["RedisDown"] = IF RedisDown' THEN Least(held["RedisDown"] + 1, 3) ELSE 0
         /\ \E ratios \in {recorded, recorded'} :
               held'["FastBurn"] = IF FastBurn(ratios) THEN Least(held["FastBurn"] + 1, 5) ELSE 0
         /\ held'["HitRatioCollapsed"]
              = IF HitRatioCollapsed' THEN Least(held["HitRatioCollapsed"] + 1, 5) ELSE 0
<1>1. PICK ratios \in {recorded, recorded'} : \E holding \in {HoldingByTraffic(ratios)'} :
        held' = [a \in Alerts |-> IF a \in holding \union HoldingByReplicas'
                                 THEN Least(held[a] + 1, For[a] + 1) ELSE 0]
  BY DEF Evaluate
<1>2. PICK holding : /\ holding = HoldingByTraffic(ratios)' \union HoldingByReplicas'
                     /\ held' = [a \in Alerts |->
                           IF a \in holding THEN Least(held[a] + 1, For[a] + 1) ELSE 0]
  BY <1>1
<1>3. /\ "ServiceDown" \in holding <=> ServiceDown'
      /\ "RedisDown" \in holding <=> RedisDown'
      /\ "FastBurn" \in holding <=> FastBurn(ratios)
      /\ "HitRatioCollapsed" \in holding <=> HitRatioCollapsed'
  BY <1>2, TheAlerts DEF HoldingByTraffic, HoldingByReplicas
<1>4. HeldOK'
  BY <1>2, TheAlerts DEF HeldOK, Least
<1> QED
  BY <1>2, <1>3, <1>4, TheAlerts

\* The last n samples of any sequence: a sequence of samples, in which nothing is
\* counted below zero.
Latest(s, n) == SubSeq(s, 1 + (IF n < Len(s) THEN Len(s) - n ELSE 0), Len(s))

LEMMA WindowsCount ==
  ASSUME NEW s \in Seq(Kinds), NEW n \in Nat
  PROVE  /\ Latest(s, n) \in Seq(Kinds)
         /\ Len(Latest(s, n)) \in Nat
         /\ Len(Latest(s, n)) = Least(n, Len(s))
         /\ \A i \in 1..Len(Latest(s, n)) :
               Latest(s, n)[i] = s[Len(s) - Len(Latest(s, n)) + i]
         /\ \A kind : Count(Latest(s, n), kind) \in Nat
<1>1. PICK m \in Nat : m = Least(n, Len(s))
  BY DEF Least
<1>2. PICK first \in Int : first = 1 + (IF n < Len(s) THEN Len(s) - n ELSE 0)
  <2>1. PICK k \in Nat : k = Len(s)
    OBVIOUS
  <2>2. (1 + (IF n < k THEN k - n ELSE 0)) \in Int
    OBVIOUS
  <2> QED
    BY <2>1, <2>2
<1>3. m <= Len(s) /\ first = 1 + Len(s) - m /\ first >= 1
  BY <1>1, <1>2 DEF Least
<1>4. PICK w : w = Latest(s, n)
  OBVIOUS
<1>5. w = SubSeq(s, first, Len(s))
  BY <1>2, <1>4 DEF Latest
<1>6. \A i \in first..Len(s) : s[i] \in Kinds
  BY <1>3
<1>7. /\ w \in Seq(Kinds)
      /\ Len(w) = IF first <= Len(s) THEN Len(s) - first + 1 ELSE 0
      /\ \A i \in 1..(Len(s) - first + 1) : w[i] = s[first + i - 1]
  BY <1>5, <1>6, SubSeqProperties
<1>8. Len(w) = m
  BY <1>3, <1>7
<1>9. \A i \in 1..Len(w) : w[i] = s[Len(s) - Len(w) + i]
  <2> SUFFICES ASSUME NEW i \in 1..m PROVE w[i] = s[Len(s) - m + i]
    BY <1>8
  <2>1. i \in 1..(Len(s) - first + 1) /\ first + i - 1 = Len(s) - m + i
    BY <1>3
  <2> QED
    BY <1>7, <2>1
<1>10. ASSUME NEW kind PROVE Count(w, kind) \in Nat
  <2>1. m \in Int /\ IsFiniteSet(1..m)
    BY FS_Interval
  <2>2. DOMAIN w = 1..m
    BY <1>7, <1>8
  <2>3. {i \in DOMAIN w : w[i] = kind} \subseteq 1..m
    BY <2>2
  <2>4. IsFiniteSet({i \in DOMAIN w : w[i] = kind})
    BY <2>1, <2>3, FS_Subset
  <2> QED
    BY <2>4, FS_CardinalityType DEF Count
<1> QED
  BY <1>1, <1>4, <1>7, <1>8, <1>9, <1>10


LEMMA RecentIsLatest == \A n : Recent(n) = Latest(samples, n)
  BY DEF Recent, Latest

\* A window of samples: how often it shows each kind, and where a spell fills it.
LEMMA WindowOfSpell ==
  ASSUME NEW s \in Seq(Kinds), NEW n \in Nat, NEW k \in Nat, NEW kinds,
         EndsWith(s, k, kinds), k >= n
  PROVE  \A i \in DOMAIN Latest(s, n) : Latest(s, n)[i] \in kinds
<1>1. PICK w : w = Latest(s, n)
  OBVIOUS
<1>2. /\ w \in Seq(Kinds) /\ Len(w) \in Nat /\ Len(w) = Least(n, Len(s))
      /\ \A i \in 1..Len(w) : w[i] = s[Len(s) - Len(w) + i]
  BY <1>1, WindowsCount
<1>3. Len(w) <= n /\ Len(w) <= Len(s) /\ Len(s) \in Nat
  BY <1>2 DEF Least
<1>4. ASSUME NEW i \in 1..Len(w) PROVE w[i] \in kinds
  <2>1. PICK j \in 1..Len(s) : j = Len(s) - Len(w) + i
    BY <1>2, <1>3
  <2>2. j > Len(s) - k
    BY <1>2, <1>3, <2>1
  <2> QED
    BY <1>2, <2>1, <2>2 DEF EndsWith
<1> QED
  BY <1>1, <1>2, <1>4

LEMMA NoneCounted ==
  ASSUME NEW w, NEW kind, \A i \in DOMAIN w : w[i] # kind
  PROVE  Count(w, kind) = 0
<1>1. {i \in DOMAIN w : w[i] = kind} = {}
  OBVIOUS
<1> QED
  BY <1>1, FS_EmptySet DEF Count

LEMMA FirstNumbers ==
  ASSUME NEW n \in Nat
  PROVE  IsFiniteSet(1..n) /\ Cardinality(1..n) = n
<1>1. 1 \in Int /\ n \in Int
  OBVIOUS
<1>2. IsFiniteSet(1..n) /\ Cardinality(1..n) = IF 1 > n THEN 0 ELSE n - 1 + 1
  BY <1>1, FS_Interval
<1> QED
  BY <1>2

LEMMA DisjointUnion ==
  ASSUME NEW S, NEW T, IsFiniteSet(S), IsFiniteSet(T), S \intersect T = {}
  PROVE  /\ IsFiniteSet(S \union T)
         /\ Cardinality(S \union T) = Cardinality(S) + Cardinality(T)
<1>1. Cardinality(S) \in Nat /\ Cardinality(T) \in Nat
  BY FS_CardinalityType
<1>2. Cardinality(S \intersect T) = 0
  BY FS_EmptySet
<1>3. /\ IsFiniteSet(S \union T)
      /\ Cardinality(S \union T)
           = Cardinality(S) + Cardinality(T) - Cardinality(S \intersect T)
  BY FS_Union
<1> QED
  BY <1>1, <1>2, <1>3

LEMMA AllCounted ==
  ASSUME NEW w \in Seq(Kinds), NEW kind, \A i \in DOMAIN w : w[i] = kind
  PROVE  Count(w, kind) = Len(w)
<1>1. Len(w) \in Nat /\ {i \in DOMAIN w : w[i] = kind} = 1..Len(w)
  OBVIOUS
<1>2. Cardinality(1..Len(w)) = Len(w)
  BY <1>1, FirstNumbers
<1> QED
  BY <1>1, <1>2 DEF Count

\* The samples that are errors and the others are together the window.
LEMMA OthersCounted ==
  ASSUME NEW w \in Seq(Kinds)
  PROVE  /\ \A kind : Count(w, kind) \in Nat
         /\ Count(w, "hits") + Count(w, "misses") + Count(w, "light") + Count(w, "errors")
              = Len(w)
<1> DEFINE Of(kind) == {i \in DOMAIN w : w[i] = kind}
<1>1. Len(w) \in Nat /\ DOMAIN w = 1..Len(w) /\ \A i \in 1..Len(w) : w[i] \in Kinds
  OBVIOUS
<1>2. IsFiniteSet(1..Len(w)) /\ Cardinality(1..Len(w)) = Len(w)
  BY <1>1, FirstNumbers
<1>3. \A kind : IsFiniteSet(Of(kind)) /\ Cardinality(Of(kind)) \in Nat
  <2> SUFFICES ASSUME NEW kind PROVE IsFiniteSet(Of(kind)) /\ Cardinality(Of(kind)) \in Nat
    OBVIOUS
  <2>1. Of(kind) \subseteq 1..Len(w)
    BY <1>1
  <2> QED
    BY <1>2, <2>1, FS_Subset, FS_CardinalityType
<1>4. PICK A, B, C, D : A = Of("hits") /\ B = Of("misses") /\ C = Of("light") /\ D = Of("errors")
  OBVIOUS
<1>5. /\ A \intersect B = {} /\ (A \union B) \intersect C = {}
      /\ (A \union B \union C) \intersect D = {}
  BY <1>4
<1>6. A \union B \union C \union D = 1..Len(w)
  BY <1>1, <1>4 DEF Kinds
<1>7. /\ IsFiniteSet(A) /\ IsFiniteSet(B) /\ IsFiniteSet(C) /\ IsFiniteSet(D)
      /\ Cardinality(A) \in Nat /\ Cardinality(B) \in Nat
      /\ Cardinality(C) \in Nat /\ Cardinality(D) \in Nat
  BY <1>3, <1>4
<1>8. IsFiniteSet(A \union B) /\ Cardinality(A \union B) = Cardinality(A) + Cardinality(B)
  BY <1>5, <1>7, DisjointUnion
<1>9. /\ IsFiniteSet(A \union B \union C)
      /\ Cardinality(A \union B \union C) = Cardinality(A \union B) + Cardinality(C)
  BY <1>5, <1>7, <1>8, DisjointUnion
<1>10. Cardinality(A \union B \union C \union D)
         = Cardinality(A \union B \union C) + Cardinality(D)
  BY <1>5, <1>7, <1>9, DisjointUnion
<1>11. \A kind : Count(w, kind) = Cardinality(Of(kind))
  BY DEF Count
<1>12. Cardinality(A) + Cardinality(B) + Cardinality(C) + Cardinality(D) = Len(w)
  BY <1>2, <1>6, <1>8, <1>9, <1>10
<1>13. /\ Count(w, "hits") = Cardinality(A) /\ Count(w, "misses") = Cardinality(B)
       /\ Count(w, "light") = Cardinality(C) /\ Count(w, "errors") = Cardinality(D)
  BY <1>4, <1>11
<1>14. \A kind : Count(w, kind) \in Nat
  BY <1>3, <1>11
<1> QED
  BY <1>12, <1>13, <1>14

\* Of a window no longer than twice the spell at its end, at least half is the spell.
LEMMA SpellCounted ==
  ASSUME NEW s \in Seq(Kinds), NEW n \in Nat, NEW k \in Nat, NEW kind,
         EndsWith(s, k, {kind}), 2 * k >= n
  PROVE  /\ 2 * Count(Latest(s, n), kind) >= Len(Latest(s, n))
         /\ Len(Latest(s, n)) > 0 => Count(Latest(s, n), kind) > 0
<1>1. PICK w : w = Latest(s, n)
  OBVIOUS
<1>2. /\ w \in Seq(Kinds) /\ Len(w) \in Nat /\ Len(w) = Least(n, Len(s))
      /\ \A i \in 1..Len(w) : w[i] = s[Len(s) - Len(w) + i]
      /\ Count(w, kind) \in Nat
  BY <1>1, WindowsCount
<1>3. PICK l \in Nat : l = Len(w)
  BY <1>2
<1>4. l <= n /\ l <= Len(s) /\ Len(s) \in Nat /\ DOMAIN w = 1..l
  BY <1>2, <1>3 DEF Least
<1>5. PICK m \in Nat : m = IF k < l THEN k ELSE l
  BY <1>3
<1>6. 2 * m >= l /\ m <= l /\ m <= k
  BY <1>3, <1>4, <1>5
<1>7. PICK first \in Int : first = l - m + 1
  <2>1. l \in Int /\ m \in Int
    BY <1>3, <1>5
  <2>2. (l - m + 1) \in Int
    BY <2>1
  <2> QED
    BY <2>2
<1>8. first..l \subseteq {i \in DOMAIN w : w[i] = kind}
  <2> SUFFICES ASSUME NEW i \in first..l PROVE i \in DOMAIN w /\ w[i] = kind
    OBVIOUS
  <2>1. i \in 1..l
    BY <1>3, <1>6, <1>7
  <2>2. PICK j \in 1..Len(s) : j = Len(s) - l + i /\ j > Len(s) - k
    <3>1. PICK q \in Nat : q = Len(s)
      BY <1>4
    <3>2. l \in Int /\ i \in Int /\ k \in Int /\ l <= q /\ 1 <= i /\ i <= l /\ i > l - k
      BY <1>3, <1>4, <1>6, <1>7, <2>1, <3>1
    <3>3. q - l + i \in 1..q /\ q - l + i > q - k
      BY <3>2
    <3> QED
      BY <3>1, <3>3
  <2>4. s[j] = kind
    BY <2>2 DEF EndsWith
  <2> QED
    BY <1>2, <1>3, <1>4, <2>1, <2>2, <2>4
<1>9. IsFiniteSet({i \in DOMAIN w : w[i] = kind})
  <2>1. IsFiniteSet(1..l) /\ {i \in DOMAIN w : w[i] = kind} \subseteq 1..l
    BY <1>3, <1>4, FirstNumbers
  <2> QED
    BY <2>1, FS_Subset
<1>10. Cardinality(first..l) = m
  <2>1. first \in Int /\ l \in Int /\ m \in Nat
    BY <1>3, <1>5, <1>7
  <2>2. Cardinality(first..l) = IF first > l THEN 0 ELSE l - first + 1
    BY <2>1, FS_Interval
  <2> QED
    BY <1>7, <2>1, <2>2
<1>11. Count(w, kind) >= m
  BY <1>8, <1>9, <1>10, FS_Subset DEF Count
<1> QED
  BY <1>1, <1>2, <1>3, <1>5, <1>6, <1>11

-----------------------------------------------------------------------------
\* What spells make of the conditions.

\* A window of misses, one at least, is a collapsed hit ratio under real traffic,
\* and a window without real traffic is none.
LEMMA SpellDecidesRatio ==
  ASSUME NEW s \in Seq(Kinds), NEW k \in Nat, k >= 4, Len(s) > 0
  PROVE  LET w == Latest(s, 4) IN
         /\ EndsWith(s, k, {"misses"}) => Hits(w) = 0 /\ Misses(w) > 120
         /\ EndsWith(s, k, {"light"}) => Hits(w) = 0 /\ Misses(w) <= 60
<1>1. PICK w : w = Latest(s, 4)
  OBVIOUS
<1>2. w \in Seq(Kinds) /\ Len(w) \in Nat /\ Len(w) = Least(4, Len(s))
  BY <1>1, WindowsCount
<1>3. Len(w) >= 1 /\ Len(w) <= 4
  BY <1>2 DEF Least
<1>4. ASSUME EndsWith(s, k, {"misses"}) PROVE Hits(w) = 0 /\ Misses(w) > 120
  <2>1. \A i \in DOMAIN w : w[i] = "misses"
    BY <1>1, <1>4, WindowOfSpell
  <2>2. /\ Count(w, "hits") = 0 /\ Count(w, "errors") = 0 /\ Count(w, "light") = 0
        /\ Count(w, "misses") = Len(w)
    BY <1>2, <2>1, NoneCounted, AllCounted
  <2> QED
    BY <1>2, <1>3, <2>2 DEF Hits, Misses
<1>5. ASSUME EndsWith(s, k, {"light"}) PROVE Hits(w) = 0 /\ Misses(w) <= 60
  <2>1. \A i \in DOMAIN w : w[i] = "light"
    BY <1>1, <1>5, WindowOfSpell
  <2>2. /\ Count(w, "hits") = 0 /\ Count(w, "errors") = 0 /\ Count(w, "misses") = 0
        /\ Count(w, "light") = Len(w)
    BY <1>2, <2>1, NoneCounted, AllCounted
  <2> QED
    BY <1>2, <1>3, <2>2 DEF Hits, Misses
<1> QED
  BY <1>1, <1>4, <1>5

\* Errors of 5% in half a window are over 1.44% of all of it.
LEMMA ErrorsBurn ==
  ASSUME NEW s \in Seq(Kinds), NEW n \in Nat, n >= 1, NEW k \in Nat, Len(s) > 0,
         EndsWith(s, k, {"errors"}), 2 * k >= n
  PROVE  Burning(Latest(s, n))
<1>1. PICK w : w = Latest(s, n)
  OBVIOUS
<1>2. w \in Seq(Kinds) /\ Len(w) \in Nat /\ Len(w) = Least(n, Len(s))
  BY <1>1, WindowsCount
<1>3. Len(w) >= 1
  BY <1>2 DEF Least
<1>4. PICK e \in Nat, h \in Nat, m \in Nat, l \in Nat :
         /\ e = Count(w, "errors") /\ h = Count(w, "hits")
         /\ m = Count(w, "misses") /\ l = Count(w, "light")
  BY <1>2, OthersCounted
<1>5. h + m + l + e = Len(w)
  BY <1>2, <1>4, OthersCounted
<1>6. 2 * e >= Len(w) /\ e > 0
  BY <1>1, <1>3, <1>4, SpellCounted
<1>7. h + m + l <= e
  <2>1. PICK c : c = Len(w)
    OBVIOUS
  <2>2. h \in Nat /\ m \in Nat /\ l \in Nat /\ e \in Nat /\ h + m + l + e = c /\ 2 * e >= c
    BY <1>4, <1>5, <1>6, <2>1
  <2> QED
    BY <2>2
<1>8. 10000 * (150 * e)
        > 144 * (2850 * (h + e) + (150 * h + 3840 * m + 15 * l) + 150 * e)
  <2>1. h \in Nat /\ m \in Nat /\ l \in Nat /\ e \in Nat /\ e > 0
    BY <1>4, <1>6
  <2>2. 3000 * h + 3840 * m + 15 * l <= 3840 * e
    BY <1>7, <2>1
  <2>3. 2850 * (h + e) + (150 * h + 3840 * m + 15 * l) + 150 * e <= 6840 * e
    BY <2>1, <2>2
  <2> QED
    BY <2>1, <2>3
<1>9. /\ Errors(w) = 150 * e /\ Hits(w) = 2850 * (h + e)
      /\ Misses(w) = 150 * h + 3840 * m + 15 * l
  BY <1>4 DEF Errors, Hits, Misses
<1>10. Burning(w)
  BY <1>8, <1>9 DEF Burning
<1> QED
  BY <1>1, <1>10

LEMMA CleanIsQuiet ==
  ASSUME NEW s \in Seq(Kinds), NEW n \in Nat, NEW k \in Nat,
         EndsWith(s, k, Kinds \ {"errors"}), k >= n
  PROVE  ~Burning(Latest(s, n))
<1>1. PICK w : w = Latest(s, n)
  OBVIOUS
<1>2. w \in Seq(Kinds)
  BY <1>1, WindowsCount
<1>3. \A i \in DOMAIN w : w[i] # "errors"
  BY <1>1, WindowOfSpell
<1>4. Count(w, "errors") = 0
  BY <1>3, NoneCounted
<1>5. PICK h \in Nat, m \in Nat, l \in Nat :
         h = Count(w, "hits") /\ m = Count(w, "misses") /\ l = Count(w, "light")
  BY <1>2, OthersCounted
<1>6. /\ Errors(w) = 150 * 0 /\ Hits(w) = 2850 * (h + 0)
      /\ Misses(w) = 150 * h + 3840 * m + 15 * l
  BY <1>4, <1>5 DEF Errors, Hits, Misses
<1>7. ~(10000 * (150 * 0) > 144 * (2850 * (h + 0) + (150 * h + 3840 * m + 15 * l) + 150 * 0))
  OBVIOUS
<1>8. ~Burning(w)
  BY <1>6, <1>7 DEF Burning
<1> QED
  BY <1>1, <1>8

-----------------------------------------------------------------------------
\* The new sample continues the spells it is of and ends the others.
LEMMA MeetStep ==
  ASSUME RuleInv, NEW kind \in Kinds, Meet(kind)
  PROVE  /\ SamplesOK' /\ SpellsShow' /\ Len(samples') > 0
         /\ \A p \in DOMAIN Spells :
               lasts'[p] = IF kind \in Spells[p] THEN Least(lasts[p] + 1, Enough[p]) ELSE 0
<1>1. PICK w : w = Recent(Depth - 1)
  OBVIOUS
<1>2. Depth - 1 \in Nat
  BY WindowAssumption DEF Depth, HitRatioWindow
<1>3. samples \in Seq(Kinds) /\ Len(samples) \in Nat
  BY DEF RuleInv, SamplesOK
<1>4. /\ w \in Seq(Kinds) /\ Len(w) \in Nat /\ Len(w) <= Len(samples)
      /\ \A i \in 1..Len(w) : w[i] = samples[Len(samples) - Len(w) + i]
  <2>1. /\ w \in Seq(Kinds) /\ Len(w) \in Nat /\ Len(w) = Least(Depth - 1, Len(samples))
        /\ \A i \in 1..Len(w) : w[i] = samples[Len(samples) - Len(w) + i]
    BY <1>1, <1>2, <1>3, RecentIsLatest, WindowsCount
  <2> QED
    BY <1>2, <1>3, <2>1 DEF Least
<1>5. /\ samples' = Append(w, kind)
      /\ lasts' = [p \in DOMAIN Spells |->
            IF kind \in Spells[p] THEN Least(lasts[p] + 1, Enough[p]) ELSE 0]
  BY <1>1 DEF Meet
<1>6. /\ samples' \in Seq(Kinds) /\ Len(samples') = Len(w) + 1 /\ samples'[Len(w) + 1] = kind
      /\ \A i \in 1..Len(w) : samples'[i] = w[i]
  BY <1>4, <1>5
<1>7. \A p \in DOMAIN Spells :
         /\ lasts[p] \in Nat /\ lasts[p] <= Enough[p]
         /\ EndsWith(samples, lasts[p], Spells[p]) /\ Enough[p] \in Nat
  BY TheSpells DEF RuleInv, SpellsShow
<1>8. \A p \in DOMAIN Spells :
         lasts'[p] \in Nat /\ lasts'[p] <= Enough[p] /\ lasts'[p] <= lasts[p] + 1
  BY <1>5, <1>7 DEF Least
<1>9. ASSUME NEW p \in DOMAIN Spells PROVE EndsWith(samples', lasts'[p], Spells[p])
  <2> SUFFICES ASSUME NEW i \in 1..Len(samples'), i > Len(samples') - lasts'[p]
               PROVE  samples'[i] \in Spells[p]
    BY DEF EndsWith
  <2>1. kind \in Spells[p]
    BY <1>4, <1>5, <1>6
  <2>2. CASE i = Len(w) + 1
    BY <1>6, <2>1, <2>2
  <2>3. CASE i # Len(w) + 1
    <3>1. i \in 1..Len(w) /\ i > Len(w) - lasts[p]
      BY <1>4, <1>6, <1>7, <1>8, <2>3
    <3>2. PICK j \in 1..Len(samples) :
             j = Len(samples) - Len(w) + i /\ j > Len(samples) - lasts[p]
      BY <1>3, <1>4, <1>7, <3>1
    <3>3. samples[j] \in Spells[p]
      BY <1>7, <3>2 DEF EndsWith
    <3> QED
      BY <1>4, <1>6, <3>1, <3>2, <3>3
  <2> QED
    BY <2>2, <2>3
<1>10. lasts' \in [DOMAIN Spells -> Nat]
  BY <1>5, <1>8
<1> QED
  BY <1>4, <1>5, <1>6, <1>8, <1>9, <1>10 DEF SamplesOK, SpellsShow

LEMMA SpellsNow ==
  ASSUME RuleInv, SpellsShow', NEW p \in DOMAIN Spells, NEW kinds, kinds = Spells[p]
  PROVE  /\ lasts[p] \in Nat /\ lasts'[p] \in Nat
         /\ EndsWith(samples', lasts'[p], kinds)
<1>1. lasts[p] \in Nat /\ lasts'[p] \in Nat
  BY DEF RuleInv, SpellsShow
<1>2. EndsWith(samples', lasts'[p], Spells[p])
  BY DEF SpellsShow, EndsWith
<1> QED
  BY <1>1, <1>2

\* Gauges and RedisDown.
LEMMA ServeStep ==
  ASSUME RuleInv, NEW kind \in Kinds, Evaluate(kind)
  PROVE  BlindIsHeld'
<1>1. PICK overwritten, lookers :
         lookers \subseteq running /\ Serve(kind, lookers, overwritten)
  BY DEF Evaluate
<1>2. redis' = redis /\ running' = running
  BY DEF Evaluate
<1>3. /\ redis_up' = [r \in Replicas |->
            IF r \in overwritten THEN (IF redis = "up" THEN 0 ELSE 1)
            ELSE IF r \in lookers THEN (IF redis = "up" THEN 1 ELSE 0) ELSE redis_up[r]]
      /\ blind' = (IF redis = "down" THEN blind \union lookers ELSE {}) \ overwritten
      /\ met_for' = IF blind' # {} THEN Least(met_for + 1, 3) ELSE 0
  BY <1>1 DEF Serve
<1>4. /\ blind \subseteq running /\ running \subseteq Replicas
      /\ redis_up \in [Replicas -> {0, 1}]
      /\ \A r \in blind : redis = "down" /\ redis_up[r] = 0
      /\ met_for \in 0..3 /\ held["RedisDown"] >= met_for
  BY DEF RuleInv, BlindIsHeld
<1>5. redis_up' \in [Replicas -> {0, 1}]
  BY <1>3, <1>4
<1>6. blind' \subseteq running'
  BY <1>1, <1>2, <1>3, <1>4
<1>7. ASSUME NEW r \in blind' PROVE redis' = "down" /\ redis_up'[r] = 0
  <2>1. redis = "down" /\ r \in blind \union lookers /\ r \notin overwritten
    BY <1>3, <1>7
  <2>2. r \in Replicas
    BY <1>1, <1>4, <2>1
  <2> QED
    BY <1>2, <1>3, <1>4, <2>1, <2>2
<1>8. met_for' \in 0..3
  BY <1>3, <1>4 DEF Least
<1>9. held["RedisDown"] \in Nat
  BY TheAlerts DEF RuleInv, HeldOK
<1>10. held'["RedisDown"] = IF RedisDown' THEN Least(held["RedisDown"] + 1, 3) ELSE 0
  BY Held DEF RuleInv
<1>11. held'["RedisDown"] >= met_for'
  <2>1. CASE blind' = {}
    BY <1>3, <1>9, <1>10, <2>1 DEF Least
  <2>2. CASE blind' # {}
    <3>1. RedisDown'
      BY <1>6, <1>7, <2>2 DEF RedisDown
    <3> QED
      BY <1>3, <1>4, <1>9, <1>10, <2>2, <3>1 DEF Least
  <2> QED
    BY <2>1, <2>2
<1> QED
  BY <1>2, <1>4, <1>5, <1>6, <1>7, <1>8, <1>11 DEF BlindIsHeld

\* A hold that lags a spell by a constant goes on doing so.
LEMMA LagIsKept ==
  ASSUME NEW before \in Nat, NEW hold \in Nat, NEW lag \in Nat, NEW now \in Nat,
         now <= before + 1, now <= lag + 5, before > lag => hold >= before - lag
  PROVE  Least(hold + 1, 5) >= now - lag
<1>1. CASE hold + 1 < 5
  <2>1. hold + 1 >= now - lag
    OBVIOUS
  <2> QED
    BY <1>1, <2>1 DEF Least
<1>2. CASE ~(hold + 1 < 5)
  <2>1. 5 >= now - lag
    OBVIOUS
  <2> QED
    BY <1>2, <2>1 DEF Least
<1> QED
  BY <1>1, <1>2

\* The hit ratio.
LEMMA RatioStep ==
  ASSUME RuleInv, NEW kind \in Kinds, Evaluate(kind)
  PROVE  RatioIsHeld'
<1>1. /\ SamplesOK' /\ SpellsShow' /\ Len(samples') > 0
      /\ \A p \in DOMAIN Spells :
            lasts'[p] = IF kind \in Spells[p] THEN Least(lasts[p] + 1, Enough[p]) ELSE 0
  BY MeetStep DEF Evaluate
<1>2. PICK s \in Seq(Kinds) : s = samples' /\ Len(s) > 0
  BY <1>1 DEF SamplesOK
<1>3. PICK w : w = Latest(s, 4)
  OBVIOUS
<1>4. HitRatioCollapsed' <=>
        /\ 2 * Hits(w) < (IF Hits(w) + Misses(w) < 120 THEN 120 ELSE Hits(w) + Misses(w))
        /\ Hits(w) + Misses(w) > 120
  BY <1>2, <1>3 DEF HitRatioCollapsed, Recent, Latest, HitRatioWindow
<1>5. /\ lasts["misses"] \in Nat /\ lasts'["misses"] \in Nat
      /\ lasts["light"] \in Nat /\ lasts'["light"] \in Nat
      /\ EndsWith(s, lasts'["misses"], {"misses"}) /\ EndsWith(s, lasts'["light"], {"light"})
  <2>1. "misses" \in DOMAIN Spells /\ "light" \in DOMAIN Spells
    BY TheSpells
  <2>2. /\ lasts["misses"] \in Nat /\ lasts'["misses"] \in Nat
        /\ EndsWith(samples', lasts'["misses"], {"misses"})
    BY <1>1, <2>1, TheSpells, SpellsNow
  <2>3. /\ lasts["light"] \in Nat /\ lasts'["light"] \in Nat
        /\ EndsWith(samples', lasts'["light"], {"light"})
    BY <1>1, <2>1, TheSpells, SpellsNow
  <2> QED
    BY <1>2, <2>2, <2>3
<1>6. held["HitRatioCollapsed"] \in Nat
  BY TheAlerts DEF RuleInv, HeldOK
<1>7. held'["HitRatioCollapsed"]
        = IF HitRatioCollapsed' THEN Least(held["HitRatioCollapsed"] + 1, 5) ELSE 0
  BY Held DEF RuleInv
<1>8. Misses(w) \in Nat
  BY <1>2, <1>3, WindowsCount DEF Misses
<1>9. ASSUME lasts'["misses"] >= 4
      PROVE  held'["HitRatioCollapsed"] >= lasts'["misses"] - 3
  <2>1. Hits(w) = 0 /\ Misses(w) > 120
    BY <1>2, <1>3, <1>5, <1>9, SpellDecidesRatio
  <2>2. HitRatioCollapsed'
    BY <1>4, <1>8, <2>1
  <2>3. lasts'["misses"] = Least(lasts["misses"] + 1, 8)
    BY <1>1, <1>5, <1>9, TheSpells
  <2>4. held'["HitRatioCollapsed"] = Least(held["HitRatioCollapsed"] + 1, 5)
    BY <1>7, <2>2
  <2>5. lasts["misses"] >= 4 => held["HitRatioCollapsed"] >= lasts["misses"] - 3
    BY DEF RuleInv, RatioIsHeld
  <2>6. lasts'["misses"] <= lasts["misses"] + 1 /\ lasts'["misses"] <= 3 + 5
    BY <1>5, <2>3 DEF Least
  <2>7. lasts["misses"] > 3 => held["HitRatioCollapsed"] >= lasts["misses"] - 3
    BY <1>5, <2>5
  <2> QED
    BY <1>5, <1>6, <2>4, <2>6, <2>7, LagIsKept
<1>10. ASSUME lasts'["light"] >= 4 PROVE held'["HitRatioCollapsed"] = 0
  <2>1. Hits(w) = 0 /\ Misses(w) <= 60
    BY <1>2, <1>3, <1>5, <1>10, SpellDecidesRatio
  <2>2. ~HitRatioCollapsed'
    BY <1>4, <1>8, <2>1
  <2> QED
    BY <1>7, <2>2
<1> QED
  BY <1>9, <1>10 DEF RatioIsHeld

\* The fast burn: the ratios are recorded now and read now or at the next evaluation.
LEMMA BurnStep ==
  ASSUME RuleInv, NEW kind \in Kinds, Evaluate(kind)
  PROVE  BurnIsHeld'
<1>1. /\ SamplesOK' /\ SpellsShow' /\ Len(samples') > 0
      /\ \A p \in DOMAIN Spells :
            lasts'[p] = IF kind \in Spells[p] THEN Least(lasts[p] + 1, Enough[p]) ELSE 0
  BY MeetStep DEF Evaluate
<1>2. PICK s \in Seq(Kinds) : s = samples' /\ Len(s) > 0
  BY <1>1 DEF SamplesOK
<1>3. recorded' = [long |-> Burning(Latest(s, LongWindow)), short |-> Burning(Latest(s, ShortWindow))]
  BY <1>2 DEF Evaluate, Record, Recent, Latest
<1>4. /\ LongWindow \in Nat /\ LongWindow >= 1 /\ ShortWindow \in Nat
      /\ ShortWindow >= 1 /\ ShortWindow <= LongWindow
      /\ HalfOfLong \in Nat /\ HalfOfLong >= 1 /\ 2 * HalfOfLong >= LongWindow
  BY WindowAssumption, TheSpells
<1>5. /\ lasts["errors"] \in Nat /\ lasts'["errors"] \in Nat
      /\ lasts["clean"] \in Nat /\ lasts'["clean"] \in Nat
      /\ EndsWith(s, lasts'["errors"], {"errors"})
      /\ EndsWith(s, lasts'["clean"], Kinds \ {"errors"})
      /\ lasts'["errors"] > 0 => lasts'["errors"] = Least(lasts["errors"] + 1, HalfOfLong + 5)
      /\ lasts'["clean"] > 0 => lasts'["clean"] = Least(lasts["clean"] + 1, ShortWindow + 1)
  <2>1. "errors" \in DOMAIN Spells /\ "clean" \in DOMAIN Spells
    BY TheSpells
  <2>2. /\ lasts["errors"] \in Nat /\ lasts'["errors"] \in Nat
        /\ EndsWith(samples', lasts'["errors"], {"errors"})
    BY <1>1, <2>1, TheSpells, SpellsNow
  <2>3. /\ lasts["clean"] \in Nat /\ lasts'["clean"] \in Nat
        /\ EndsWith(samples', lasts'["clean"], Kinds \ {"errors"})
    BY <1>1, <2>1, TheSpells, SpellsNow
  <2>4. /\ lasts'["errors"] > 0 => lasts'["errors"] = Least(lasts["errors"] + 1, HalfOfLong + 5)
        /\ lasts'["clean"] > 0 => lasts'["clean"] = Least(lasts["clean"] + 1, ShortWindow + 1)
    BY <1>1, <2>1, TheSpells
  <2> QED
    BY <1>2, <2>2, <2>3, <2>4
<1>6. ASSUME lasts'["errors"] >= HalfOfLong PROVE recorded'.long /\ recorded'.short
  <2>1. 2 * lasts'["errors"] >= LongWindow /\ 2 * lasts'["errors"] >= ShortWindow
    BY <1>4, <1>5, <1>6
  <2> QED
    BY <1>2, <1>3, <1>4, <1>5, <2>1, ErrorsBurn
<1>7. ASSUME lasts'["clean"] >= ShortWindow PROVE ~recorded'.short
  BY <1>2, <1>3, <1>4, <1>5, <1>7, CleanIsQuiet
<1>8. PICK ratios \in {recorded, recorded'} :
        held'["FastBurn"] = IF FastBurn(ratios) THEN Least(held["FastBurn"] + 1, 5) ELSE 0
  BY Held DEF RuleInv
<1>9. held["FastBurn"] \in Nat
  BY TheAlerts DEF RuleInv, HeldOK
<1>10. ASSUME lasts'["errors"] > HalfOfLong
       PROVE  held'["FastBurn"] >= lasts'["errors"] - HalfOfLong
  <2>1. lasts["errors"] >= HalfOfLong
    BY <1>4, <1>5, <1>10 DEF Least
  <2>2. FastBurn(ratios)
    BY <1>4, <1>5, <1>6, <1>8, <1>10, <2>1 DEF RuleInv, BurnIsHeld, FastBurn
  <2>3. lasts'["errors"] <= lasts["errors"] + 1 /\ lasts'["errors"] <= HalfOfLong + 5
    BY <1>4, <1>5, <1>10 DEF Least
  <2>4. held'["FastBurn"] = Least(held["FastBurn"] + 1, 5)
    BY <1>8, <2>2
  <2>5. lasts["errors"] > HalfOfLong => held["FastBurn"] >= lasts["errors"] - HalfOfLong
    BY DEF RuleInv, BurnIsHeld
  <2> QED
    BY <1>4, <1>5, <1>9, <2>3, <2>4, <2>5, LagIsKept
<1>11. ASSUME lasts'["clean"] > ShortWindow PROVE held'["FastBurn"] = 0
  <2>1. lasts["clean"] >= ShortWindow
    BY <1>4, <1>5, <1>11 DEF Least
  <2>2. ~FastBurn(ratios)
    BY <1>4, <1>5, <1>7, <1>8, <1>11, <2>1 DEF RuleInv, BurnIsHeld, FastBurn
  <2> QED
    BY <1>8, <2>2
<1>12. recorded' \in [long : BOOLEAN, short : BOOLEAN]
  BY <1>3 DEF Burning
<1> QED
  BY <1>6, <1>7, <1>10, <1>11, <1>12 DEF BurnIsHeld

LEMMA EvaluateStep ==
  ASSUME RuleInv, NEW kind \in Kinds, Evaluate(kind)
  PROVE  RuleInv'
<1>1. HeldOK'
  BY Held DEF RuleInv
<1>2. SamplesOK' /\ SpellsShow'
  BY MeetStep DEF Evaluate
<1> QED
  BY <1>1, <1>2, ServeStep, RatioStep, BurnStep DEF RuleInv

\* Between evaluations Redis and the pods change; the alerts do not.
LEMMA ChangeStep ==
  ASSUME RuleInv, RedisChanges \/ (\E r \in Replicas : PodChanges(r)) \/ UNCHANGED vars
  PROVE  RuleInv'
<1>1. UNCHANGED <<samples, recorded, held, met_for, lasts>>
  BY DEF RedisChanges, PodChanges, Unevaluated, vars
<1>2. HeldOK' /\ SamplesOK' /\ SpellsShow' /\ RatioIsHeld' /\ BurnIsHeld'
  BY <1>1 DEF RuleInv, HeldOK, SamplesOK, SpellsShow, EndsWith, RatioIsHeld, BurnIsHeld
<1>3. BlindIsHeld'
  <2>1. CASE RedisChanges
    BY <1>1, <2>1 DEF RuleInv, BlindIsHeld, RedisChanges
  <2>2. ASSUME NEW r \in Replicas, PodChanges(r) PROVE BlindIsHeld'
    <3>1. /\ running' = IF r \in running THEN running \ {r} ELSE running \union {r}
          /\ redis_up' = [redis_up EXCEPT ![r] = 1]
          /\ blind' = blind \ {r} /\ redis' = redis
      BY <2>2 DEF PodChanges
    <3>2. /\ blind' \subseteq running' /\ running' \subseteq Replicas
          /\ redis_up' \in [Replicas -> {0, 1}]
      BY <3>1 DEF RuleInv, BlindIsHeld
    <3>3. ASSUME NEW u \in blind' PROVE redis' = "down" /\ redis_up'[u] = 0
      <4>1. u \in blind /\ u # r /\ u \in Replicas
        BY <3>1, <3>3 DEF RuleInv, BlindIsHeld
      <4> QED
        BY <3>1, <4>1 DEF RuleInv, BlindIsHeld
    <3> QED
      BY <1>1, <3>2, <3>3 DEF RuleInv, BlindIsHeld
  <2>3. CASE UNCHANGED vars
    BY <2>3 DEF RuleInv, BlindIsHeld, vars, podVars
  <2> QED
    BY <2>1, <2>2, <2>3
<1> QED
  BY <1>2, <1>3 DEF RuleInv

LEMMA RulesStart == Init => RuleInv
<1> SUFFICES ASSUME Init PROVE RuleInv
  OBVIOUS
<1>1. HeldOK /\ BlindIsHeld /\ SamplesOK
  BY TheAlerts DEF Init, HeldOK, BlindIsHeld, SamplesOK
<1>2. \A p \in DOMAIN Spells : lasts[p] = 0
  BY DEF Init
<1>3. SpellsShow
  BY <1>2, TheSpells DEF Init, SpellsShow, EndsWith
<1>4. RatioIsHeld /\ BurnIsHeld
  BY <1>2, TheSpells DEF Init, RatioIsHeld, BurnIsHeld
<1> QED
  BY <1>1, <1>3, <1>4 DEF RuleInv

LEMMA RulesKeep == RuleInv /\ [Next]_vars => RuleInv'
<1> SUFFICES ASSUME RuleInv, [Next]_vars PROVE RuleInv'
  OBVIOUS
<1> QED
  BY EvaluateStep, ChangeStep DEF Next

\* An outage is paged at the third evaluation in a row at which any of the
\* replicas has met it, for any number of replicas that restart, serve nothing or
\* show a success from before it.
THEOREM OutagesArePaged == Spec => []OutageIsPaged
<1>1. RuleInv => OutageIsPaged
  BY TheAlerts DEF RuleInv, HeldOK, BlindIsHeld, OutageIsPaged, Firing
<1> QED
  BY <1>1, RulesStart, RulesKeep, PTL DEF Spec

\* Four minutes of misses under real traffic page, whatever the traffic was before.
THEOREM CollapsesArePaged == Spec => []CollapseIsPaged
<1>1. RuleInv => CollapseIsPaged
  BY TheAlerts, TheSpells DEF RuleInv, HeldOK, RatioIsHeld, CollapseIsPaged, Firing
<1> QED
  BY <1>1, RulesStart, RulesKeep, PTL DEF Spec

\* Without real traffic the hit ratio alert ends with its window.
THEOREM IdleCachesAreQuiet == Spec => []IdleIsQuiet
<1>1. RuleInv => IdleIsQuiet
  BY TheSpells DEF RuleInv, RatioIsHeld, IdleIsQuiet
<1> QED
  BY <1>1, RulesStart, RulesKeep, PTL DEF Spec

\* Errors of 5% page in time, for windows of any length, whatever traffic the
\* other half of the long window shows and whichever group of rules runs first.
THEOREM BurnsArePaged == Spec => []BurnIsPaged
<1>1. RuleInv => BurnIsPaged
  BY TheAlerts, TheSpells DEF RuleInv, HeldOK, BurnIsHeld, BurnIsPaged, Firing
<1> QED
  BY <1>1, RulesStart, RulesKeep, PTL DEF Spec

\* The fast burn alert ends one evaluation after the short window has passed
\* without errors, for windows of any length and whatever the long one shows.
THEOREM BurnsClear == Spec => []BurnClears
<1>1. RuleInv => BurnClears
  BY TheSpells DEF RuleInv, BurnIsHeld, BurnClears
<1> QED
  BY <1>1, RulesStart, RulesKeep, PTL DEF Spec

-----------------------------------------------------------------------------
(***************************************************************************)
(* The rest of the types: how far samples and holds reach.                 *)
(***************************************************************************)
Reaches ==
    /\ redis \in {"up", "down"} /\ late \subseteq running
    /\ Len(samples) <= Depth
    /\ \A a \in Alerts : held[a] <= For[a] + 1

LEMMA ReachesTyped == RuleInv /\ Reaches => TypeOK
<1> SUFFICES ASSUME RuleInv, Reaches PROVE TypeOK
  OBVIOUS
<1>1. held \in [Alerts -> 0..11]
  <2>1. \A a \in Alerts : held[a] \in Nat /\ held[a] <= For[a] + 1
    BY DEF RuleInv, HeldOK, Reaches
  <2>2. \A a \in Alerts : held[a] \in 0..11
    BY <2>1, TheAlerts
  <2> QED
    BY <2>2 DEF RuleInv, HeldOK
<1>2. DOMAIN lasts = DOMAIN Spells /\ \A s \in DOMAIN Spells : lasts[s] \in 0..Enough[s]
  BY TheSpells DEF RuleInv, SpellsShow
<1> QED
  BY <1>1, <1>2 DEF RuleInv, SamplesOK, BlindIsHeld, BurnIsHeld, Reaches, TypeOK

LEMMA ReachesStart == Init => Reaches
<1> SUFFICES ASSUME Init PROVE Reaches
  OBVIOUS
<1>1. \A a \in Alerts : held[a] <= For[a] + 1
  BY TheAlerts DEF Init
<1>2. Len(samples) <= Depth
  BY WindowAssumption DEF Init, Depth, HitRatioWindow
<1> QED
  BY <1>1, <1>2 DEF Init, Reaches

LEMMA ReachesKept == RuleInv /\ Reaches /\ [Next]_vars => Reaches'
<1> SUFFICES ASSUME RuleInv, Reaches, [Next]_vars PROVE Reaches'
  OBVIOUS
<1>1. ASSUME NEW kind \in Kinds, Evaluate(kind) PROVE Reaches'
  <2>1. \A a \in Alerts : held'[a] <= For[a] + 1
    <3>1. \A a \in Alerts : held[a] \in Nat
      BY DEF RuleInv, HeldOK
    <3>2. PICK ratios \in {recorded, recorded'} :
            held'["FastBurn"] = IF FastBurn(ratios) THEN Least(held["FastBurn"] + 1, 5) ELSE 0
      BY <1>1, Held DEF RuleInv
    <3>3. held'["FastBurn"] <= 5
      BY <3>1, <3>2, TheAlerts DEF Least
    <3>4. /\ held'["ServiceDown"] = IF ServiceDown' THEN Least(held["ServiceDown"] + 1, 3) ELSE 0
          /\ held'["RedisDown"] = IF RedisDown' THEN Least(held["RedisDown"] + 1, 3) ELSE 0
          /\ held'["HitRatioCollapsed"]
               = IF HitRatioCollapsed' THEN Least(held["HitRatioCollapsed"] + 1, 5) ELSE 0
      BY <1>1, Held DEF RuleInv
    <3> QED
      BY <3>1, <3>3, <3>4, TheAlerts DEF Least
  <2>2. Len(samples') <= Depth
    <3>1. Depth - 1 \in Nat /\ Depth \in Nat
      BY WindowAssumption DEF Depth, HitRatioWindow
    <3>2. PICK w : w = Recent(Depth - 1)
      OBVIOUS
    <3>3. w \in Seq(Kinds) /\ Len(w) = Least(Depth - 1, Len(samples))
      BY <3>1, <3>2, RecentIsLatest, WindowsCount DEF RuleInv, SamplesOK
    <3>4. Len(samples) \in Nat
      BY DEF RuleInv, SamplesOK
    <3>5. Len(w) <= Depth - 1
      BY <3>1, <3>3, <3>4 DEF Least
    <3>6. samples' = Append(w, kind)
      BY <1>1, <3>2 DEF Evaluate, Meet
    <3> QED
      BY <3>1, <3>3, <3>5, <3>6
  <2>3. late' \subseteq running' /\ redis' = redis
    BY <1>1 DEF Evaluate, Serve, Reaches
  <2> QED
    BY <2>1, <2>2, <2>3 DEF Reaches
<1>2. CASE RedisChanges
  BY <1>2 DEF RedisChanges, Unevaluated, Reaches
<1>3. ASSUME NEW r \in Replicas, PodChanges(r) PROVE Reaches'
  BY <1>3 DEF PodChanges, Unevaluated, Reaches
<1>4. CASE UNCHANGED vars
  BY <1>4 DEF vars, podVars, Reaches
<1> QED
  BY <1>1, <1>2, <1>3, <1>4 DEF Next

\* Samples, holds and histories keep their types and bounds for any number of
\* replicas and windows of any length.
THEOREM RulesTypeCorrect == Spec => []TypeOK
<1>1. Init => RuleInv /\ Reaches
  BY RulesStart, ReachesStart
<1> QED
  BY <1>1, RulesKeep, ReachesKept, ReachesTyped, PTL DEF Spec
=============================================================================
