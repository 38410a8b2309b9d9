------------------------- MODULE RetryHistoryProofs -------------------------
(***************************************************************************)
(* Along every sequence of answers, however long, the four numbers of the  *)
(* retry table say of the history what they stand for.  The provers have no*)
(* induction over a history; what is used instead is that one more answer  *)
(* changes each definition on the history in a known way, and that of some *)
(* positions one is the last.                                              *)
(***************************************************************************)
EXTENDS RetryHistory, RetryPolicyProofs, FiniteSetTheorems, SequenceTheorems, WellFoundedInduction

-----------------------------------------------------------------------------
(* Sets of numbers                                                         *)

(* Of some natural numbers one is the least: induction, with a set in the  *)
(* place of a predicate.                                                   *)
LEMMA LeastOf ==
    ASSUME NEW T \in SUBSET Nat, T # {}
    PROVE  \E n \in T : \A m \in T : n <= m
<1> DEFINE R == OpToRel(<, Nat)
<1>1. IsWellFoundedOn(R, Nat)
  BY NatLessThanWellFounded
<1> HIDE DEF R
<1>2. PICK n \in T : \A m \in T : ~ (<<m, n>> \in R)
  BY <1>1, WFMin
<1>3. \A m \in T : m < n => <<m, n>> \in R
  BY DEF R, OpToRel
<1>4. \A m \in T : ~(m < n)
  BY <1>2, <1>3
<1>5. n \in Nat /\ \A m \in T : m \in Nat
  OBVIOUS
<1>6. ASSUME NEW m \in T PROVE n <= m
  <2>1. ~(m < n) /\ m \in Nat
    BY <1>4, <1>5
  <2> QED
    BY <1>5, <2>1
<1> QED
  BY <1>6

(* Of bounded numbers one is the greatest: the least bound is one of them. *)
LEMMA GreatestOf ==
    ASSUME NEW n \in Nat, NEW S, S \subseteq 0..n, 0 \in S
    PROVE  \E m \in S : \A y \in S : m >= y
<1> DEFINE T == {k \in Nat : \A y \in S : y <= k}
<1>1. T \in SUBSET Nat /\ n \in T
  OBVIOUS
<1>2. PICK k \in T : \A m \in T : k <= m
  <2> HIDE DEF T
  <2> QED
    BY <1>1, LeastOf
<1>3. k \in Nat /\ \A y \in S : y \in Nat /\ y <= k
  BY <1>1
<1>4. CASE k \in S
  BY <1>3, <1>4
<1>5. CASE k \notin S
  <2>1. k # 0 /\ k - 1 \in Nat
    BY <1>3, <1>5
  <2>2. \A y \in S : y <= k - 1
    BY <1>3, <1>5, <2>1
  <2>3. k - 1 \in T
    BY <2>1, <2>2
  <2>4. ~(k <= k - 1)
    BY <1>3
  <2> QED
    BY <1>2, <2>3, <2>4
<1> QED
  BY <1>4, <1>5

LEMMA MaxIsGreatest ==
    ASSUME NEW n \in Nat, NEW S, S \subseteq 0..n, 0 \in S
    PROVE  Max(S) \in S /\ \A y \in S : y <= Max(S)
<1>1. Max(S) \in S /\ \A y \in S : Max(S) >= y
  BY GreatestOf DEF Max
<1> QED
  BY <1>1

(* A set of positions is finite, and one larger with the next position.    *)
LEMMA Positions ==
    ASSUME NEW n \in Nat, NEW S, S \subseteq 1..n
    PROVE  /\ IsFiniteSet(S) /\ Cardinality(S) \in Nat
           /\ Cardinality(S \cup {n + 1}) = Cardinality(S) + 1
<1>1. IsFiniteSet(1..n)
  BY FS_Interval
<1>2. IsFiniteSet(S)
  BY <1>1, FS_Subset
<1>3. n + 1 \notin S
  OBVIOUS
<1> QED
  BY <1>2, <1>3, FS_CardinalityType, FS_AddElement

-----------------------------------------------------------------------------
(* Runs of a history                                                       *)

\* The last entry of s that ended in one of `kinds', or 0.
LastIn(s, kinds) == Max({0} \cup {i \in 1..Len(s) : s[i].kind \in kinds})

\* The entries after the l-th that ended as `kind'.
Since(s, kind, l) == {i \in (l + 1)..Len(s) : s[i].kind = kind}

\* RunOf, of any history.
RunIn(s, kind, kinds) == Cardinality(Since(s, kind, LastIn(s, kinds)))

LEMMA RunOfIsRunIn ==
    ASSUME NEW kind, NEW kinds
    PROVE  RunOf(kind, kinds) = RunIn(log, kind, kinds)
  BY DEF RunOf, RunIn, Since, LastIn

\* l is where `kinds' last occur in s.
IsLast(s, kinds, l) ==
    /\ l \in 0..Len(s)
    /\ l = 0 \/ s[l].kind \in kinds
    /\ \A i \in (l + 1)..Len(s) : s[i].kind \notin kinds

LEMMA LastIsLast ==
    ASSUME NEW s \in Seq(Entry), NEW kinds
    PROVE  IsLast(s, kinds, LastIn(s, kinds))
<1> DEFINE S == {0} \cup {i \in 1..Len(s) : s[i].kind \in kinds}
<1>1. Len(s) \in Nat
  BY LenProperties
<1>2. S \subseteq 0..Len(s) /\ 0 \in S
  BY <1>1
<1>3. Max(S) \in S /\ \A y \in S : y <= Max(S)
  <2> HIDE DEF S
  <2> QED
    BY <1>1, <1>2, MaxIsGreatest
<1>4. LastIn(s, kinds) = Max(S)
  BY DEF LastIn
<1> DEFINE l == Max(S)
<1>5. l \in 0..Len(s) /\ (l = 0 \/ s[l].kind \in kinds)
  BY <1>2, <1>3
<1>6. ASSUME NEW i \in (l + 1)..Len(s) PROVE s[i].kind \notin kinds
  <2>1. i \in 1..Len(s) /\ ~(i <= l)
    BY <1>1, <1>5
  <2> HIDE DEF l
  <2> QED
    BY <1>3, <2>1 DEF l
<1> HIDE DEF l
<1> QED
  BY <1>4, <1>5, <1>6 DEF IsLast, l

LEMMA LastIsUnique ==
    ASSUME NEW s \in Seq(Entry), NEW kinds, NEW l, NEW m,
           IsLast(s, kinds, l), IsLast(s, kinds, m)
    PROVE  l = m
<1>1. Len(s) \in Nat /\ l \in 0..Len(s) /\ m \in 0..Len(s)
  BY LenProperties DEF IsLast
<1>2. CASE l < m
  <2>1. m \in (l + 1)..Len(s) /\ m # 0
    BY <1>1, <1>2
  <2> QED
    BY <2>1 DEF IsLast
<1>3. CASE m < l
  <2>1. l \in (m + 1)..Len(s) /\ l # 0
    BY <1>1, <1>3
  <2> QED
    BY <2>1 DEF IsLast
<1> QED
  BY <1>1, <1>2, <1>3

(* One more entry.                                                         *)
LEMMA Grown ==
    ASSUME NEW s \in Seq(Entry), NEW e \in Entry
    PROVE  /\ Len(s) \in Nat
           /\ Append(s, e) \in Seq(Entry)
           /\ Len(Append(s, e)) = Len(s) + 1
           /\ \A i \in 1..Len(s) : Append(s, e)[i] = s[i]
           /\ Append(s, e)[Len(s) + 1] = e
  BY LenProperties, AppendProperties

(* A run ends with one of `kinds', and is longer by one of its own kind.   *)
LEMMA RunGrows ==
    ASSUME NEW s \in Seq(Entry), NEW e \in Entry, NEW kind, NEW kinds, kind \notin kinds
    PROVE  /\ RunIn(s, kind, kinds) \in Nat
           /\ RunIn(Append(s, e), kind, kinds) =
                  IF e.kind \in kinds THEN 0
                  ELSE RunIn(s, kind, kinds) + (IF e.kind = kind THEN 1 ELSE 0)
           /\ e.kind \notin kinds => LastIn(Append(s, e), kinds) = LastIn(s, kinds)
<1> DEFINE t == Append(s, e)
           n == Len(s)
           l == LastIn(s, kinds)
<1>1. /\ n \in Nat /\ t \in Seq(Entry) /\ Len(t) = n + 1
      /\ \A i \in 1..n : t[i] = s[i]
      /\ t[n + 1] = e
  BY Grown
<1>2. /\ l \in 0..n
      /\ l = 0 \/ s[l].kind \in kinds
      /\ \A i \in (l + 1)..n : s[i].kind \notin kinds
  BY LastIsLast DEF IsLast
<1> HIDE DEF t, l
<1>3. Since(s, kind, l) \subseteq 1..n
  BY <1>1, <1>2 DEF Since
<1>4. RunIn(s, kind, kinds) = Cardinality(Since(s, kind, l))
  BY DEF RunIn, l
<1>5. RunIn(s, kind, kinds) \in Nat
  BY <1>1, <1>3, <1>4, Positions
<1>6. CASE e.kind \in kinds
  <2>1. IsLast(t, kinds, n + 1)
    BY <1>1, <1>6 DEF IsLast
  <2>2. LastIn(t, kinds) = n + 1
    BY <1>1, <2>1, LastIsLast, LastIsUnique
  <2>3. Since(t, kind, n + 1) = {}
    BY <1>1 DEF Since
  <2> QED
    BY <1>5, <1>6, <2>2, <2>3, FS_EmptySet DEF RunIn, t
<1>7. CASE e.kind \notin kinds
  <2>1. IsLast(t, kinds, l)
    <3>1. l \in 0..Len(t)
      BY <1>1, <1>2
    <3>2. l = 0 \/ t[l].kind \in kinds
      BY <1>1, <1>2
    <3>3. ASSUME NEW i \in (l + 1)..Len(t) PROVE t[i].kind \notin kinds
      <4>1. i \in (l + 1)..n \/ i = n + 1
        BY <1>1, <1>2
      <4>2. i \in (l + 1)..n => i \in 1..n
        BY <1>1, <1>2
      <4> QED
        BY <1>1, <1>2, <1>7, <4>1, <4>2
    <3> QED
      BY <3>1, <3>2, <3>3 DEF IsLast
  <2>2. LastIn(t, kinds) = l
    BY <1>1, <2>1, LastIsLast, LastIsUnique
  <2>3. Since(t, kind, l) = Since(s, kind, l) \cup (IF e.kind = kind THEN {n + 1} ELSE {})
    <3>1. \A i \in (l + 1)..(n + 1) : i = n + 1 \/ (i \in 1..n /\ i \in (l + 1)..n)
      BY <1>1, <1>2
    <3>2. n + 1 \in (l + 1)..(n + 1) /\ \A i \in (l + 1)..n : i \in (l + 1)..(n + 1) /\ i \in 1..n
      BY <1>1, <1>2
    <3>3. ASSUME NEW i \in Since(t, kind, l)
          PROVE  i \in Since(s, kind, l) \/ (e.kind = kind /\ i = n + 1)
      BY <1>1, <3>1 DEF Since
    <3>4. Since(s, kind, l) \subseteq Since(t, kind, l)
      BY <1>1, <3>2 DEF Since
    <3>5. e.kind = kind => n + 1 \in Since(t, kind, l)
      BY <1>1, <3>2 DEF Since
    <3> QED
      BY <3>3, <3>4, <3>5
  <2>4. Cardinality(Since(s, kind, l) \cup {n + 1}) = Cardinality(Since(s, kind, l)) + 1
    BY <1>1, <1>3, Positions
  <2>5. RunIn(t, kind, kinds) = Cardinality(Since(t, kind, l))
    BY <2>2 DEF RunIn
  <2>6. CASE e.kind = kind
    BY <1>4, <1>5, <1>7, <2>2, <2>3, <2>4, <2>5, <2>6 DEF t, l
  <2>7. CASE e.kind # kind
    BY <1>4, <1>5, <1>7, <2>2, <2>3, <2>5, <2>7 DEF t, l
  <2> QED
    BY <2>6, <2>7
<1> QED
  BY <1>6, <1>7
-----------------------------------------------------------------------------
(* One answer                                                              *)

LEMMA LesserType ==
    ASSUME NEW a \in Nat, NEW b \in Nat
    PROVE  Lesser(a, b) \in Nat /\ Lesser(a, b) <= a /\ Lesser(a, b) <= b
  BY DEF Lesser

LEMMA AfterSentFields ==
    ASSUME NEW p \in Policy, NEW n \in Nat
    PROVE  /\ AfterSent(p, n).failures = 0
           /\ AfterSent(p, n).drops = 0
           /\ ~CountsTowardWidening(p, n) =>
                 /\ AfterSent(p, n).batchSize = p.batchSize
                 /\ AfterSent(p, n).successes = p.successes
           /\ CountsTowardWidening(p, n) =>
                 IF p.successes + 1 >= SuccessesBeforeWidening
                 THEN /\ AfterSent(p, n).batchSize = Lesser(FullWidth, 2 * p.batchSize)
                      /\ AfterSent(p, n).successes = 0
                 ELSE /\ AfterSent(p, n).batchSize = p.batchSize
                      /\ AfterSent(p, n).successes = p.successes + 1
<1> DEFINE q == [p EXCEPT !.failures = 0]
           r == [q EXCEPT !.drops = 0]
<1>0. /\ q.batchSize = p.batchSize /\ q.successes = p.successes
      /\ q.failures = 0 /\ q \in Policy
  BY CountAssumption DEF Policy
<1>1. /\ r.batchSize = p.batchSize /\ r.successes = p.successes
      /\ r.failures = 0 /\ r.drops = 0 /\ r \in Policy
  <2> HIDE DEF q
  <2> QED
    BY <1>0, CountAssumption DEF Policy, DropsBound
<1>2. AfterSent(p, n) = WidenIfEarned(r, n)
  BY DEF AfterSent
<1>3. CountsTowardWidening(r, n) <=> CountsTowardWidening(p, n)
  BY <1>1 DEF CountsTowardWidening
<1> HIDE DEF r
<1>4. CASE ~CountsTowardWidening(p, n)
  BY <1>1, <1>2, <1>3, <1>4 DEF WidenIfEarned
<1>5. CASE CountsTowardWidening(p, n) /\ p.successes + 1 >= SuccessesBeforeWidening
  <2>1. WidenIfEarned(r, n) =
           [r EXCEPT !.batchSize = Lesser(FullWidth, 2 * r.batchSize), !.successes = 0]
    BY <1>1, <1>3, <1>5 DEF WidenIfEarned
  <2> QED
    BY <1>1, <1>2, <1>5, <2>1 DEF Policy
<1>6. CASE CountsTowardWidening(p, n) /\ ~(p.successes + 1 >= SuccessesBeforeWidening)
  <2>1. WidenIfEarned(r, n) = [r EXCEPT !.successes = r.successes + 1]
    BY <1>1, <1>3, <1>6 DEF WidenIfEarned
  <2> QED
    BY <1>1, <1>2, <1>6, <2>1 DEF Policy
<1> QED
  BY <1>4, <1>5, <1>6

LEMMA AfterHalvingFields ==
    ASSUME NEW p \in Policy, NEW n \in Nat, n > 1, n <= p.batchSize
    PROVE  /\ AfterHalving(p, n).failures = p.failures
           /\ AfterHalving(p, n).drops = p.drops
           /\ AfterHalving(p, n).successes = 0
           /\ AfterHalving(p, n).batchSize <= p.batchSize
  BY PolicyFields DEF AfterHalving, RunEnds, Greater, Policy

LEMMA AfterOversizedFields ==
    ASSUME NEW p \in Policy
    PROVE  /\ AfterOversized(p).failures = 0
           /\ AfterOversized(p).drops = Lesser(DropsBound, p.drops + 1)
           /\ AfterOversized(p).batchSize = FullWidth
  BY DEF AfterOversized, RunEnds, Policy

LEMMA AfterRefusedFields ==
    ASSUME NEW p \in Policy
    PROVE  /\ AfterRefused(p).failures = 0
           /\ AfterRefused(p).drops = p.drops
           /\ AfterRefused(p).successes = 0
           /\ AfterRefused(p).batchSize = p.batchSize
  BY DEF AfterRefused, RunEnds, Policy

LEMMA AfterRetryableFields ==
    ASSUME NEW p \in Policy
    PROVE  /\ AfterRetryable(p).failures = p.failures + 1
           /\ AfterRetryable(p).drops = p.drops
           /\ AfterRetryable(p).successes = 0
           /\ AfterRetryable(p).batchSize = p.batchSize
  BY DEF AfterRetryable, RunEnds, Policy

\* What the entry e, appended to the history, does to the rest.
Outcome(e) ==
    \/ e.kind = "sent" /\ pol' = AfterSent(pol, e.size) /\ notices' = notices
    \/ e.kind = "halved" /\ e.size > 1 /\ pol' = AfterHalving(pol, e.size) /\ notices' = notices
    \/ /\ e.kind = "oversized"
       /\ pol' = AfterOversized(pol)
       /\ notices' = IF GivesNotice(pol) THEN notices + 1 ELSE notices
    \/ e.kind = "refused" /\ pol' = AfterRefused(pol) /\ notices' = notices
    \/ e.kind = "retry" /\ pol' = AfterRetryable(pol) /\ notices' = notices

\* Every request adds one entry.
Answered(e) ==
    /\ log' = Append(log, e)
    /\ e.width = pol.batchSize
    /\ e.size <= pol.batchSize
    /\ ~BreakerOpens(pol)
    /\ Outcome(e)

(* A step of RetryHistory is one answer, or none.                          *)
LEMMA OneAnswer ==
    ASSUME TypeOK, [Next]_vars
    PROVE  UNCHANGED vars \/ \E e \in Entry : Answered(e)
<1>1. pol.batchSize \in Nat /\ pol.batchSize >= 1
  BY PolicyFields, FullWidthType DEF TypeOK
<1>2. 1..FullWidth \subseteq Nat /\ 1 \in Nat
  BY FullWidthType
<1> DEFINE e(k, n) == [kind |-> k, size |-> n, width |-> pol.batchSize]
<1>3. ASSUME NEW n \in Nat, NEW k \in Kinds
      PROVE  e(k, n) \in Entry /\ e(k, n).kind = k /\ e(k, n).size = n
                /\ e(k, n).width = pol.batchSize
  BY <1>1 DEF Entry
<1>4. ASSUME NEW n \in 1..FullWidth, Sent(n) PROVE \E x \in Entry : Answered(x)
  <2>1. Answered(e("sent", n))
    BY <1>2, <1>3, <1>4 DEF Sent, Request, Answered, Outcome, Kinds
  <2> QED
    BY <1>2, <1>3, <2>1 DEF Kinds
<1>5. ASSUME NEW n \in 1..FullWidth, Halved(n) PROVE \E x \in Entry : Answered(x)
  <2>1. Answered(e("halved", n))
    BY <1>2, <1>3, <1>5 DEF Halved, Request, Answered, Outcome, Kinds
  <2> QED
    BY <1>2, <1>3, <2>1 DEF Kinds
<1>6. ASSUME NEW n \in 1..FullWidth, Refused(n) PROVE \E x \in Entry : Answered(x)
  <2>1. Answered(e("refused", n))
    BY <1>2, <1>3, <1>6 DEF Refused, Request, Answered, Outcome, Kinds
  <2> QED
    BY <1>2, <1>3, <2>1 DEF Kinds
<1>7. ASSUME NEW n \in 1..FullWidth, Retried(n) PROVE \E x \in Entry : Answered(x)
  <2>1. Answered(e("retry", n))
    BY <1>2, <1>3, <1>7 DEF Retried, Request, Answered, Outcome, Kinds
  <2> QED
    BY <1>2, <1>3, <2>1 DEF Kinds
<1>8. ASSUME Oversized PROVE \E x \in Entry : Answered(x)
  <2>1. Answered(e("oversized", 1))
    BY <1>1, <1>2, <1>3, <1>8 DEF Oversized, Request, Answered, Outcome, Kinds
  <2> QED
    BY <1>2, <1>3, <2>1 DEF Kinds
<1> QED
  BY <1>4, <1>5, <1>6, <1>7, <1>8 DEF Next, Over

LEMMA EntryFields ==
    ASSUME NEW e \in Entry
    PROVE  e.kind \in Kinds /\ e.size \in Nat /\ e.width \in Nat
  BY DEF Entry

(* The policy's numbers keep within their bounds, and an entry is an       *)
(* answer, a size and a width.                                             *)
LEMMA TypeInit == Init => TypeOK
<1> SUFFICES ASSUME Init PROVE TypeOK
  OBVIOUS
<1>1. <<>> \in Seq(Entry)
  BY EmptySeq
<1> QED
  BY <1>1, InitialPolicyType DEF Init, TypeOK

LEMMA TypeNext == TypeOK /\ [Next]_vars => TypeOK'
<1> SUFFICES ASSUME TypeOK, [Next]_vars PROVE TypeOK'
  OBVIOUS
<1>1. CASE UNCHANGED vars
  BY <1>1 DEF TypeOK, vars
<1>2. ASSUME NEW e \in Entry, Answered(e) PROVE TypeOK'
  <2>1. log' \in Seq(Entry)
    BY <1>2, Grown DEF TypeOK, Answered
  <2>2. notices' \in Nat
    BY <1>2 DEF TypeOK, Answered, Outcome
  <2>3. /\ pol \in Policy /\ e.size \in Nat /\ e.size <= pol.batchSize
        /\ e.size <= FullWidth /\ ~BreakerOpens(pol)
    BY <1>2, EntryFields, PolicyFields, FullWidthType DEF TypeOK, Answered
  <2>4. pol' \in Policy
    <3>1. Outcome(e)
      BY <1>2 DEF Answered
    <3> QED
      BY <2>3, <3>1, AfterSentType, AfterHalvingType, AfterOversizedType, AfterRefusedType,
         AfterRetryableType DEF Outcome
  <2> QED
    BY <2>1, <2>2, <2>4 DEF TypeOK
<1> QED
  BY <1>1, <1>2, OneAnswer

(* Whatever the answers, the four numbers keep within their bounds:        *)
(* RetryHistory!TypeOK.                                                    *)
THEOREM HistoryTypes == Spec => []TypeOK
  BY TypeInit, TypeNext, PTL DEF Spec

-----------------------------------------------------------------------------
(* Rows of failures and rows of drops                                      *)

RowEnders == {"sent", "oversized", "refused"}

(* Nothing has ended in any way before the first answer.                   *)
LEMMA EmptyRun == ASSUME NEW kind, NEW kinds PROVE RunIn(<<>>, kind, kinds) = 0
<1>1. Len(<<>>) = 0 /\ <<>> \in Seq(Entry)
  BY EmptySeq
<1>2. LastIn(<<>>, kinds) = 0
  <2>1. LastIn(<<>>, kinds) \in 0..Len(<<>>)
    BY <1>1, LastIsLast DEF IsLast
  <2> HIDE DEF LastIn
  <2>2. LastIn(<<>>, kinds) \in 0..0
    BY <1>1, <2>1
  <2> QED
    BY <2>2
<1>3. Since(<<>>, kind, 0) = {}
  BY <1>1 DEF Since
<1> QED
  BY <1>2, <1>3, FS_EmptySet DEF RunIn

LEMMA FailuresInit == Init => FailuresAreARow
  BY EmptyRun, RunOfIsRunIn DEF Init, FailuresAreARow, InitialPolicy

LEMMA FailuresNext == TypeOK /\ FailuresAreARow /\ [Next]_vars => FailuresAreARow'
<1> SUFFICES ASSUME TypeOK, FailuresAreARow, [Next]_vars PROVE FailuresAreARow'
  OBVIOUS
<1>0. /\ FailuresAreARow <=> pol.failures = RunIn(log, "retry", RowEnders)
      /\ FailuresAreARow' <=> pol'.failures = RunIn(log', "retry", RowEnders)
  <2>1. FailuresAreARow <=> pol.failures = RunIn(log, "retry", RowEnders)
    BY RunOfIsRunIn DEF FailuresAreARow, RowEnders
  <2>2. FailuresAreARow' <=> pol'.failures = RunIn(log', "retry", RowEnders)
    BY DEF FailuresAreARow, RunOf, RunIn, LastIn, Since, RowEnders
  <2> QED
    BY <2>1, <2>2
<1>1. CASE UNCHANGED vars
  BY <1>0, <1>1 DEF vars
<1>2. ASSUME NEW e \in Entry, Answered(e) PROVE FailuresAreARow'
  <2> DEFINE R == RunIn(log, "retry", RowEnders)
  <2>1. /\ pol \in Policy /\ e.size \in Nat /\ e.size <= pol.batchSize /\ e.kind \in Kinds
        /\ log \in Seq(Entry) /\ Outcome(e) /\ log' = Append(log, e)
    BY <1>2, EntryFields DEF TypeOK, Answered
  <2>2. /\ R \in Nat
        /\ RunIn(log', "retry", RowEnders) =
              IF e.kind \in RowEnders THEN 0 ELSE R + (IF e.kind = "retry" THEN 1 ELSE 0)
    <3>1. "retry" \notin RowEnders
      BY DEF RowEnders
    <3> QED
      BY <2>1, <3>1, RunGrows
  <2>3. pol'.failures = IF e.kind \in RowEnders THEN 0
                        ELSE pol.failures + (IF e.kind = "retry" THEN 1 ELSE 0)
    <3>1. CASE e.kind = "sent" /\ pol' = AfterSent(pol, e.size)
      BY <2>1, <3>1, AfterSentFields DEF RowEnders
    <3>2. CASE e.kind = "halved" /\ e.size > 1 /\ pol' = AfterHalving(pol, e.size)
      <4>1. pol'.failures = pol.failures
        BY <2>1, <3>2, AfterHalvingFields
      <4> QED
        BY <2>1, <3>2, <4>1, PolicyFields DEF RowEnders
    <3>3. CASE e.kind = "oversized" /\ pol' = AfterOversized(pol)
      BY <2>1, <3>3, AfterOversizedFields DEF RowEnders
    <3>4. CASE e.kind = "refused" /\ pol' = AfterRefused(pol)
      BY <2>1, <3>4, AfterRefusedFields DEF RowEnders
    <3>5. CASE e.kind = "retry" /\ pol' = AfterRetryable(pol)
      BY <2>1, <3>5, AfterRetryableFields DEF RowEnders
    <3> QED
      BY <2>1, <3>1, <3>2, <3>3, <3>4, <3>5 DEF Outcome
  <2> HIDE DEF R
  <2> QED
    BY <1>0, <2>2, <2>3 DEF R
<1> QED
  BY <1>1, <1>2, OneAnswer

(* Over every sequence of answers, the breaker's tally is the length of    *)
(* the current row of retryable failures: RetryHistory!FailuresAreARow.    *)
THEOREM FailuresCountARow == Spec => []FailuresAreARow
<1>1. Init => TypeOK /\ FailuresAreARow
  BY TypeInit, FailuresInit
<1>2. TypeOK /\ FailuresAreARow /\ [Next]_vars => (TypeOK /\ FailuresAreARow)'
  BY TypeNext, FailuresNext
<1> QED
  BY <1>1, <1>2, PTL DEF Spec
\* The i-th answer is the drop that makes a row of them long enough.
LongEnough(s, i) ==
    /\ s[i].kind = "oversized"
    /\ \E j \in 1..i :
          /\ \A k \in j..i : s[k].kind # "sent"
          /\ j = 1 \/ s[j - 1].kind = "sent"
          /\ Cardinality({k \in j..i : s[k].kind = "oversized"}) = DropsBeforeWarning

Noticed(s) == {i \in 1..Len(s) : LongEnough(s, i)}

DropsInv == pol.drops = Lesser(DropsBound, RunIn(log, "oversized", {"sent"}))

NoticesInv == notices = Cardinality(Noticed(log))

LEMMA NoticeParts == NoticePerRow <=> DropsInv /\ NoticesInv
<1>1. RunOf("oversized", {"sent"}) = RunIn(log, "oversized", {"sent"})
  BY RunOfIsRunIn
<1> QED
  BY <1>1 DEF NoticePerRow, DropsInv, NoticesInv, Noticed, LongEnough

(* Of the answers already in, a later one changes nothing.                 *)
LEMMA EarlierStay ==
    ASSUME NEW s \in Seq(Entry), NEW e \in Entry, NEW i \in 1..Len(s)
    PROVE  LongEnough(Append(s, e), i) <=> LongEnough(s, i)
<1> DEFINE t == Append(s, e)
<1>1. Len(s) \in Nat /\ \A k \in 1..Len(s) : t[k] = s[k]
  BY Grown
<1> HIDE DEF t
<1>2. \A j \in 1..i : j..i \subseteq 1..Len(s) /\ (j # 1 => j - 1 \in 1..Len(s))
  BY <1>1
<1>3. t[i] = s[i]
  BY <1>1
<1>4. ASSUME NEW j \in 1..i
      PROVE  /\ (\A k \in j..i : t[k].kind # "sent") <=> (\A k \in j..i : s[k].kind # "sent")
             /\ (j = 1 \/ t[j - 1].kind = "sent") <=> (j = 1 \/ s[j - 1].kind = "sent")
             /\ {k \in j..i : t[k].kind = "oversized"} = {k \in j..i : s[k].kind = "oversized"}
  BY <1>1, <1>2
<1>5. LongEnough(t, i) <=> LongEnough(s, i)
  BY <1>3, <1>4 DEF LongEnough
<1> QED
  BY <1>5 DEF t

(* The last answer completes a row when it is the drop that makes the run  *)
(* since the last success so long: that run is the only row it is in.      *)
LEMMA LastCompletes ==
    ASSUME NEW t \in Seq(Entry), NEW m \in Nat, m # 0, Len(t) = m
    PROVE  LongEnough(t, m) <=> /\ t[m].kind = "oversized"
                                /\ RunIn(t, "oversized", {"sent"}) = DropsBeforeWarning
<1> DEFINE l == LastIn(t, {"sent"})
<1>1. IsLast(t, {"sent"}, l)
  BY LastIsLast
<1> HIDE DEF l
<1>2. l \in 0..m
  BY <1>1 DEF IsLast
<1>3. SUFFICES ASSUME t[m].kind = "oversized"
               PROVE  LongEnough(t, m) <=> RunIn(t, "oversized", {"sent"}) = DropsBeforeWarning
  BY DEF LongEnough
<1>4. l # m
  BY <1>1, <1>3 DEF IsLast
<1>5. RunIn(t, "oversized", {"sent"}) = Cardinality({k \in (l + 1)..m : t[k].kind = "oversized"})
  BY DEF RunIn, Since, l
<1>6. ASSUME LongEnough(t, m)
      PROVE  RunIn(t, "oversized", {"sent"}) = DropsBeforeWarning
  <2>1. PICK j \in 1..m :
           /\ \A k \in j..m : t[k].kind # "sent"
           /\ j = 1 \/ t[j - 1].kind = "sent"
           /\ Cardinality({k \in j..m : t[k].kind = "oversized"}) = DropsBeforeWarning
    BY <1>6 DEF LongEnough
  <2>2. j - 1 \in 0..m /\ (j - 1) + 1 = j
    BY <2>1
  <2>3. IsLast(t, {"sent"}, j - 1)
    BY <2>1, <2>2 DEF IsLast
  <2>4. l + 1 = j
    BY <1>1, <2>2, <2>3, LastIsUnique
  <2> QED
    BY <1>5, <2>1, <2>4
<1>7. ASSUME RunIn(t, "oversized", {"sent"}) = DropsBeforeWarning
      PROVE  LongEnough(t, m)
  <2>1. l + 1 \in 1..m /\ (l + 1) - 1 = l
    BY <1>2, <1>4
  <2>2. \A k \in (l + 1)..m : t[k].kind # "sent"
    BY <1>1 DEF IsLast
  <2>3. l + 1 = 1 \/ t[(l + 1) - 1].kind = "sent"
    BY <1>1, <1>2, <2>1 DEF IsLast
  <2>4. Cardinality({k \in (l + 1)..m : t[k].kind = "oversized"}) = DropsBeforeWarning
    BY <1>5, <1>7
  <2> QED
    BY <1>3, <2>1, <2>2, <2>3, <2>4 DEF LongEnough
<1> QED
  BY <1>6, <1>7

(* One more answer is in the set when it completes a row.                  *)
LEMMA NoticedGrows ==
    ASSUME NEW s \in Seq(Entry), NEW e \in Entry
    PROVE  Noticed(Append(s, e)) =
              Noticed(s) \cup
                (IF /\ e.kind = "oversized"
                    /\ RunIn(Append(s, e), "oversized", {"sent"}) = DropsBeforeWarning
                 THEN {Len(s) + 1} ELSE {})
<1> DEFINE t == Append(s, e)
           m == Len(s) + 1
<1>1. Len(s) \in Nat /\ t \in Seq(Entry) /\ Len(t) = m /\ t[m] = e
  BY Grown
<1>2. \A i \in 1..Len(s) : LongEnough(t, i) <=> LongEnough(s, i)
  BY EarlierStay
<1> HIDE DEF t
<1>3. LongEnough(t, m) <=> /\ e.kind = "oversized"
                           /\ RunIn(t, "oversized", {"sent"}) = DropsBeforeWarning
  <2>1. m \in Nat /\ m # 0
    BY <1>1
  <2> HIDE DEF m
  <2> QED
    BY <1>1, <2>1, LastCompletes
<1>4. \A i \in 1..m : i \in 1..Len(s) \/ i = m
  BY <1>1
<1>5. m \in 1..m /\ \A i \in 1..Len(s) : i \in 1..m
  BY <1>1
<1> HIDE DEF m
<1>6. ASSUME NEW i \in Noticed(t) PROVE i \in Noticed(s) \/ (i = m /\ LongEnough(t, m))
  BY <1>1, <1>2, <1>4 DEF Noticed
<1>7. Noticed(s) \subseteq Noticed(t)
  BY <1>1, <1>2, <1>5 DEF Noticed
<1>8. LongEnough(t, m) => m \in Noticed(t)
  BY <1>1, <1>5 DEF Noticed
<1>9. Noticed(t) = Noticed(s) \cup (IF LongEnough(t, m) THEN {m} ELSE {})
  BY <1>6, <1>7, <1>8
<1> QED
  BY <1>3, <1>9 DEF t, m

LEMMA NoticeInit == Init => DropsInv /\ NoticesInv
<1> SUFFICES ASSUME Init PROVE DropsInv /\ NoticesInv
  OBVIOUS
<1>1. RunIn(log, "oversized", {"sent"}) = 0
  BY EmptyRun DEF Init
<1>2. DropsInv
  BY <1>1, CountAssumption DEF Init, DropsInv, InitialPolicy, Lesser, DropsBound
<1>3. Len(log) = 0
  BY EmptySeq DEF Init
<1>4. Noticed(log) = {}
  BY <1>3 DEF Noticed
<1> QED
  BY <1>2, <1>4, FS_EmptySet DEF Init, NoticesInv

LEMMA NoticeNext ==
    TypeOK /\ DropsInv /\ NoticesInv /\ [Next]_vars => DropsInv' /\ NoticesInv'
<1> SUFFICES ASSUME TypeOK, DropsInv, NoticesInv, [Next]_vars PROVE DropsInv' /\ NoticesInv'
  OBVIOUS
<1>1. CASE UNCHANGED vars
  <2>1. pol' = pol /\ log' = log /\ notices' = notices
    BY <1>1 DEF vars
  <2> QED
    BY <2>1 DEF DropsInv, NoticesInv
<1>2. ASSUME NEW e \in Entry, Answered(e) PROVE DropsInv' /\ NoticesInv'
  <2> DEFINE R  == RunIn(log, "oversized", {"sent"})
             R1 == RunIn(log', "oversized", {"sent"})
  <2>1. /\ pol \in Policy /\ e.size \in Nat /\ e.size <= pol.batchSize /\ e.kind \in Kinds
        /\ log \in Seq(Entry) /\ Outcome(e) /\ log' = Append(log, e)
    BY <1>2, EntryFields DEF TypeOK, Answered
  <2>2. /\ R \in Nat
        /\ R1 = IF e.kind = "sent" THEN 0 ELSE R + (IF e.kind = "oversized" THEN 1 ELSE 0)
    <3>1. "oversized" \notin {"sent"} /\ (e.kind \in {"sent"} <=> e.kind = "sent")
      OBVIOUS
    <3> QED
      BY <2>1, <3>1, RunGrows
  <2>3. pol'.drops = IF e.kind = "sent" THEN 0
                     ELSE IF e.kind = "oversized" THEN Lesser(DropsBound, pol.drops + 1)
                     ELSE pol.drops
    <3>1. CASE e.kind = "sent" /\ pol' = AfterSent(pol, e.size)
      BY <2>1, <3>1, AfterSentFields
    <3>2. CASE e.kind = "halved" /\ e.size > 1 /\ pol' = AfterHalving(pol, e.size)
      BY <2>1, <3>2, AfterHalvingFields
    <3>3. CASE e.kind = "oversized" /\ pol' = AfterOversized(pol)
      BY <2>1, <3>3, AfterOversizedFields
    <3>4. CASE e.kind = "refused" /\ pol' = AfterRefused(pol)
      BY <2>1, <3>4, AfterRefusedFields
    <3>5. CASE e.kind = "retry" /\ pol' = AfterRetryable(pol)
      BY <2>1, <3>5, AfterRetryableFields
    <3> QED
      BY <2>1, <3>1, <3>2, <3>3, <3>4, <3>5 DEF Outcome
  <2>4. pol.drops = Lesser(DropsBound, R)
    BY DEF DropsInv
  <2>5. notices' = IF e.kind = "oversized" /\ pol.drops + 1 = DropsBeforeWarning
                   THEN notices + 1 ELSE notices
    BY <2>1 DEF Outcome, GivesNotice
  <2>6. notices = Cardinality(Noticed(log))
    BY DEF NoticesInv
  <2>7. Noticed(log') = Noticed(log) \cup (IF e.kind = "oversized" /\ R1 = DropsBeforeWarning
                                           THEN {Len(log) + 1} ELSE {})
    BY <2>1, NoticedGrows
  <2>8. Cardinality(Noticed(log) \cup {Len(log) + 1}) = notices + 1
    <3>1. Len(log) \in Nat
      BY <2>1, LenProperties
    <3>2. Noticed(log) \subseteq 1..Len(log)
      BY DEF Noticed
    <3> QED
      BY <2>6, <3>1, <3>2, Positions
  <2> HIDE DEF R, R1
  <2>9. e.kind = "oversized" => (pol.drops + 1 = DropsBeforeWarning <=> R1 = DropsBeforeWarning)
    BY <2>2, <2>4, CountAssumption DEF Lesser, DropsBound
  <2>10. pol'.drops = Lesser(DropsBound, R1)
    BY <2>2, <2>3, <2>4, CountAssumption DEF Lesser, DropsBound
  <2>11. notices' = Cardinality(Noticed(log'))
    <3>1. CASE e.kind = "oversized" /\ R1 = DropsBeforeWarning
      BY <2>5, <2>7, <2>8, <2>9, <3>1
    <3>2. CASE ~(e.kind = "oversized" /\ R1 = DropsBeforeWarning)
      BY <2>5, <2>6, <2>7, <2>9, <3>2
    <3> QED
      BY <3>1, <3>2
  <2> QED
    BY <2>10, <2>11 DEF DropsInv, NoticesInv, R1
<1> QED
  BY <1>1, <1>2, OneAnswer

(* Over every sequence of answers, the tally of drops is the (saturated)   *)
(* length of the current row of oversized events, and the notice has been  *)
(* logged once for each row that got long enough:                          *)
(* RetryHistory!NoticePerRow.                                              *)
THEOREM OneNoticePerRow == Spec => []NoticePerRow
<1>1. Init => TypeOK /\ DropsInv /\ NoticesInv
  BY TypeInit, NoticeInit
<1>2. TypeOK /\ DropsInv /\ NoticesInv /\ [Next]_vars => (TypeOK /\ DropsInv /\ NoticesInv)'
  BY TypeNext, NoticeNext
<1>3. DropsInv /\ NoticesInv => NoticePerRow
  BY NoticeParts
<1> QED
  BY <1>1, <1>2, <1>3, PTL DEF Spec
-----------------------------------------------------------------------------
(* Widths                                                                  *)

\* From its i-th entry on, s is successes.
SentFrom(s, i) == \A j \in i..Len(s) : s[j].kind = "sent"

\* The successes at the end of s that filled the width w.
Row(s, w) == {i \in 1..Len(s) : s[i].size = w /\ s[i].width = w /\ SentFrom(s, i)}

(* The tally of successes is the length of that row, for a reduced width.  *)
EarnInv == pol.batchSize < FullWidth => pol.successes = Cardinality(Row(log, pol.batchSize))

\* Since its i-th entry the width has only been widened, by doubling.
OnlyWidened(s, i, w) ==
    /\ s[i].width <= w
    /\ w = s[i].width \/ w >= Lesser(FullWidth, 2 * s[i].width)
    /\ \A k \in i..Len(s) : s[i].width <= s[k].width

WidthInv == \A i \in 1..Len(log) : SentFrom(log, i) => OnlyWidened(log, i, pol.batchSize)

(* A row ends with any answer but a success, and a success is in it when   *)
(* it filled the width.                                                    *)
LEMMA SentFromGrows ==
    ASSUME NEW s \in Seq(Entry), NEW e \in Entry
    PROVE  /\ \A i \in 1..Len(s) : SentFrom(Append(s, e), i) <=> SentFrom(s, i) /\ e.kind = "sent"
           /\ SentFrom(Append(s, e), Len(s) + 1) <=> e.kind = "sent"
<1> DEFINE t == Append(s, e)
           n == Len(s)
<1>1. n \in Nat /\ Len(t) = n + 1 /\ (\A i \in 1..n : t[i] = s[i]) /\ t[n + 1] = e
  BY Grown
<1> HIDE DEF t, n
<1>2. ASSUME NEW i \in 1..n
      PROVE  SentFrom(t, i) <=> (\A j \in i..n : s[j].kind = "sent") /\ e.kind = "sent"
  <2>1. i..(n + 1) = (i..n) \cup {n + 1}
    BY <1>1
  <2>2. i..n \subseteq 1..n
    BY <1>1
  <2> QED
    BY <1>1, <2>1, <2>2 DEF SentFrom
<1>3. SentFrom(t, n + 1) <=> e.kind = "sent"
  <2>1. (n + 1)..(n + 1) = {n + 1}
    BY <1>1
  <2> QED
    BY <1>1, <2>1 DEF SentFrom
<1> QED
  BY <1>2, <1>3 DEF SentFrom, t, n

LEMMA RowGrows ==
    ASSUME NEW s \in Seq(Entry), NEW e \in Entry, NEW w \in Nat
    PROVE  /\ Cardinality(Row(s, w)) \in Nat
           /\ Cardinality(Row(Append(s, e), w)) =
                 IF e.kind # "sent" THEN 0
                 ELSE Cardinality(Row(s, w)) + (IF e.size = w /\ e.width = w THEN 1 ELSE 0)
<1> DEFINE t == Append(s, e)
           n == Len(s)
<1>1. n \in Nat /\ Len(t) = n + 1 /\ (\A i \in 1..n : t[i] = s[i]) /\ t[n + 1] = e
  BY Grown
<1>2. /\ \A i \in 1..n : SentFrom(t, i) <=> SentFrom(s, i) /\ e.kind = "sent"
      /\ SentFrom(t, n + 1) <=> e.kind = "sent"
  BY SentFromGrows
<1> HIDE DEF t, n
<1>3. 1..(n + 1) = (1..n) \cup {n + 1}
  BY <1>1
<1>4. Row(s, w) \subseteq 1..n
  BY DEF Row, n
<1>5. Cardinality(Row(s, w)) \in Nat /\ Cardinality(Row(s, w) \cup {n + 1}) = Cardinality(Row(s, w)) + 1
  BY <1>1, <1>4, Positions
<1>6. CASE e.kind # "sent"
  <2>1. Row(t, w) = {}
    BY <1>1, <1>2, <1>3, <1>6 DEF Row
  <2> QED
    BY <1>5, <1>6, <2>1, FS_EmptySet DEF t
<1>7. CASE e.kind = "sent"
  <2>1. Row(t, w) = Row(s, w) \cup (IF e.size = w /\ e.width = w THEN {n + 1} ELSE {})
    <3>1. \A i \in 1..n : i \in Row(t, w) <=> i \in Row(s, w)
      BY <1>1, <1>2, <1>3, <1>7 DEF Row, n
    <3>2. n + 1 \in Row(t, w) <=> e.size = w /\ e.width = w
      BY <1>1, <1>2, <1>3, <1>7 DEF Row
    <3>3. Row(t, w) \subseteq (1..n) \cup {n + 1}
      BY <1>1, <1>3 DEF Row
    <3> QED
      BY <1>4, <3>1, <3>2, <3>3
  <2>2. CASE e.size = w /\ e.width = w
    <3>1. Row(t, w) = Row(s, w) \cup {n + 1}
      BY <2>1, <2>2
    <3> QED
      BY <1>5, <1>7, <2>2, <3>1 DEF t
  <2>3. CASE ~(e.size = w /\ e.width = w)
    <3>1. Row(t, w) = Row(s, w)
      BY <2>1, <2>3
    <3> QED
      BY <1>5, <1>7, <2>3, <3>1 DEF t
  <2> QED
    BY <2>2, <2>3
<1> QED
  BY <1>6, <1>7

(* No entry of a row is as wide as a width never used since the row began. *)
LEMMA NoRow ==
    ASSUME TypeOK, WidthInv, NEW w \in Nat, w > pol.batchSize
    PROVE  Row(log, w) = {}
<1>1. pol.batchSize \in Nat
  BY PolicyFields, FullWidthType DEF TypeOK
<1>2. ASSUME NEW i \in Row(log, w) PROVE FALSE
  <2>1. i \in 1..Len(log) /\ log[i].width = w /\ SentFrom(log, i)
    BY <1>2 DEF Row
  <2>2. w <= pol.batchSize
    BY <2>1 DEF WidthInv, OnlyWidened
  <2> QED
    BY <1>1, <2>2
<1> QED
  BY <1>2

LEMMA WidthInit == Init => EarnInv /\ WidthInv
<1> SUFFICES ASSUME Init PROVE EarnInv /\ WidthInv
  OBVIOUS
<1>1. pol.batchSize = FullWidth /\ Len(log) = 0
  BY EmptySeq DEF Init, InitialPolicy
<1>2. EarnInv
  BY <1>1, FullWidthType DEF EarnInv
<1> QED
  BY <1>1, <1>2 DEF WidthInv

\* What an answer does to the width and to the tally of successes.
Measured(e, p, q) ==
    IF e.kind = "sent"
    THEN IF CountsTowardWidening(p, e.size)
         THEN IF p.successes + 1 >= SuccessesBeforeWidening
              THEN q.batchSize = Lesser(FullWidth, 2 * p.batchSize) /\ q.successes = 0
              ELSE q.batchSize = p.batchSize /\ q.successes = p.successes + 1
         ELSE q.batchSize = p.batchSize /\ q.successes = p.successes
    ELSE IF e.kind = "oversized" THEN q.batchSize = FullWidth
    ELSE q.batchSize <= p.batchSize /\ q.successes = 0

LEMMA AnswerMeasured ==
    ASSUME TypeOK, NEW e \in Entry, Answered(e)
    PROVE  Measured(e, pol, pol')
<1>1. pol \in Policy /\ e.size \in Nat /\ e.size <= pol.batchSize /\ pol.batchSize \in Nat
  BY EntryFields, PolicyFields, FullWidthType DEF TypeOK, Answered
<1>2. CASE e.kind = "sent" /\ pol' = AfterSent(pol, e.size)
  BY <1>1, <1>2, AfterSentFields DEF Measured
<1>3. CASE e.kind = "halved" /\ e.size > 1 /\ pol' = AfterHalving(pol, e.size)
  BY <1>1, <1>3, AfterHalvingFields DEF Measured
<1>4. CASE e.kind = "oversized" /\ pol' = AfterOversized(pol)
  BY <1>1, <1>4, AfterOversizedFields DEF Measured
<1>5. CASE e.kind = "refused" /\ pol' = AfterRefused(pol)
  BY <1>1, <1>5, AfterRefusedFields DEF Measured
<1>6. CASE e.kind = "retry" /\ pol' = AfterRetryable(pol)
  BY <1>1, <1>6, AfterRetryableFields DEF Measured
<1> QED
  BY <1>2, <1>3, <1>4, <1>5, <1>6 DEF Answered, Outcome

(* What the steps below use of the state they start from.                  *)
LEMMA Grounds ==
    ASSUME TypeOK, TypeOK', NEW e \in Entry, Answered(e)
    PROVE  /\ log \in Seq(Entry) /\ log' = Append(log, e)
           /\ FullWidth \in Nat /\ FullWidth >= 1
           /\ pol.batchSize \in Nat /\ pol.batchSize >= 1 /\ pol.batchSize <= FullWidth
           /\ pol'.batchSize \in Nat /\ pol'.batchSize <= FullWidth
           /\ pol.successes \in Nat /\ pol.successes < SuccessesBeforeWidening
           /\ SuccessesBeforeWidening \in Nat
           /\ e.size \in Nat /\ e.width = pol.batchSize /\ e.size <= pol.batchSize
<1>1. pol \in Policy /\ pol' \in Policy
  BY DEF TypeOK
<1>2. pol.batchSize \in 1..FullWidth /\ pol'.batchSize \in 1..FullWidth
      /\ pol.successes \in 0..(SuccessesBeforeWidening - 1)
  BY <1>1, PolicyFields
<1> QED
  BY <1>2, CountAssumption, FullWidthType, EntryFields DEF TypeOK, Answered

LEMMA EarnStep ==
    ASSUME TypeOK, TypeOK', EarnInv, WidthInv, NEW e \in Entry, Answered(e)
    PROVE  EarnInv'
<1> DEFINE b  == pol.batchSize
           b1 == pol'.batchSize
<1>1. /\ log \in Seq(Entry) /\ log' = Append(log, e)
      /\ FullWidth \in Nat
      /\ b \in Nat /\ b >= 1 /\ b <= FullWidth
      /\ b1 \in Nat /\ b1 <= FullWidth
      /\ pol.successes \in Nat /\ SuccessesBeforeWidening \in Nat
      /\ e.size \in Nat /\ e.width = b /\ e.size <= b
  BY Grounds
<1>2. Measured(e, pol, pol')
  BY AnswerMeasured
<1>3. b < FullWidth => pol.successes = Cardinality(Row(log, b))
  BY DEF EarnInv
<1>4. CountsTowardWidening(pol, e.size) <=> b < FullWidth /\ e.size = b
  BY <1>1 DEF CountsTowardWidening
<1>5. SUFFICES ASSUME b1 < FullWidth PROVE pol'.successes = Cardinality(Row(log', b1))
  BY DEF EarnInv
<1>6. /\ Cardinality(Row(log, b1)) \in Nat
      /\ Cardinality(Row(log', b1)) =
            IF e.kind # "sent" THEN 0
            ELSE Cardinality(Row(log, b1)) + (IF e.size = b1 /\ e.width = b1 THEN 1 ELSE 0)
  BY <1>1, RowGrows
<1>7. b1 > b => Cardinality(Row(log, b1)) = 0
  BY <1>1, NoRow, FS_EmptySet
<1> HIDE DEF b, b1
<1>8. CASE e.kind # "sent"
  <2>1. e.kind # "oversized"
    BY <1>1, <1>2, <1>5, <1>8 DEF Measured, b1
  <2> QED
    BY <1>2, <1>6, <1>8, <2>1 DEF Measured
<1>9. CASE e.kind = "sent" /\ ~CountsTowardWidening(pol, e.size)
  <2>1. b1 = b /\ pol'.successes = pol.successes
    BY <1>2, <1>9 DEF Measured, b, b1
  <2>2. e.size # b
    BY <1>4, <1>5, <1>9, <2>1
  <2> QED
    BY <1>1, <1>3, <1>5, <1>6, <1>9, <2>1, <2>2
<1>10. CASE /\ e.kind = "sent" /\ CountsTowardWidening(pol, e.size)
            /\ pol.successes + 1 >= SuccessesBeforeWidening
  <2>1. b1 = Lesser(FullWidth, 2 * b) /\ pol'.successes = 0
    BY <1>2, <1>10 DEF Measured, b, b1
  <2>2. b1 > b
    BY <1>1, <1>4, <1>10, <2>1 DEF Lesser
  <2>3. ~(e.size = b1 /\ e.width = b1)
    BY <1>1, <2>2
  <2> QED
    BY <1>6, <1>7, <1>10, <2>1, <2>2, <2>3
<1>11. CASE /\ e.kind = "sent" /\ CountsTowardWidening(pol, e.size)
            /\ ~(pol.successes + 1 >= SuccessesBeforeWidening)
  <2>1. b1 = b /\ pol'.successes = pol.successes + 1
    BY <1>2, <1>11 DEF Measured, b, b1
  <2> QED
    BY <1>1, <1>3, <1>4, <1>5, <1>6, <1>11, <2>1
<1> QED
  BY <1>8, <1>9, <1>10, <1>11

LEMMA WidthStep ==
    ASSUME TypeOK, TypeOK', WidthInv, NEW e \in Entry, Answered(e)
    PROVE  WidthInv'
<1> DEFINE b  == pol.batchSize
           b1 == pol'.batchSize
           n  == Len(log)
<1>1. /\ log \in Seq(Entry) /\ log' = Append(log, e)
      /\ FullWidth \in Nat
      /\ b \in Nat /\ b >= 1 /\ b <= FullWidth
      /\ b1 \in Nat /\ b1 <= FullWidth
      /\ e.width = b
  BY Grounds
<1>2. Measured(e, pol, pol')
  BY AnswerMeasured
<1>3. /\ n \in Nat /\ Len(log') = n + 1
      /\ \A i \in 1..n : log'[i] = log[i] /\ log[i] \in Entry
      /\ log'[n + 1] = e
  BY <1>1, Grown, ElementOfSeq
<1>4. \A i \in 1..n : SentFrom(log, i) => OnlyWidened(log, i, b)
  BY DEF WidthInv
<1>5. /\ \A i \in 1..n : SentFrom(log', i) <=> SentFrom(log, i) /\ e.kind = "sent"
      /\ SentFrom(log', n + 1) <=> e.kind = "sent"
  BY <1>1, SentFromGrows
<1> HIDE DEF b, b1, n
<1>6. SUFFICES ASSUME NEW i \in 1..(n + 1), SentFrom(log', i) PROVE OnlyWidened(log', i, b1)
  BY <1>3 DEF WidthInv, b1
<1>7. e.kind = "sent"
  BY <1>3, <1>5, <1>6
<1>8. b1 = b \/ b1 = Lesser(FullWidth, 2 * b)
  BY <1>2, <1>7 DEF Measured, b, b1
<1>9. CASE i = n + 1
  <2>1. (n + 1)..Len(log') = {n + 1}
    BY <1>3
  <2>2. b <= b1 /\ (b1 = b \/ b1 >= Lesser(FullWidth, 2 * b))
    BY <1>1, <1>8 DEF Lesser
  <2> QED
    BY <1>1, <1>3, <1>9, <2>1, <2>2 DEF OnlyWidened
<1>10. CASE i \in 1..n
  <2> DEFINE w == log[i].width
  <2>1. /\ w <= b
        /\ b = w \/ b >= Lesser(FullWidth, 2 * w)
        /\ \A k \in i..n : w <= log[k].width
    BY <1>4, <1>5, <1>6, <1>10 DEF OnlyWidened, n
  <2>2. w \in Nat /\ log'[i].width = w
    BY <1>3, <1>10, EntryFields
  <2>3. \A k \in i..(n + 1) : k = n + 1 \/ (k \in i..n /\ k \in 1..n)
    BY <1>3, <1>10
  <2> HIDE DEF w
  <2>4. \A k \in i..(n + 1) : w <= log'[k].width
    BY <1>1, <1>3, <2>1, <2>3
  <2>5. w <= b1 /\ (b1 = w \/ b1 >= Lesser(FullWidth, 2 * w))
    BY <1>1, <1>8, <2>1, <2>2 DEF Lesser
  <2> QED
    BY <1>3, <2>2, <2>4, <2>5 DEF OnlyWidened
<1> QED
  BY <1>3, <1>6, <1>9, <1>10

LEMMA WidthNext ==
    TypeOK /\ EarnInv /\ WidthInv /\ [Next]_vars => EarnInv' /\ WidthInv'
<1> SUFFICES ASSUME TypeOK, EarnInv, WidthInv, [Next]_vars PROVE EarnInv' /\ WidthInv'
  OBVIOUS
<1>1. TypeOK'
  BY TypeNext
<1>2. CASE UNCHANGED vars
  <2>1. pol' = pol /\ log' = log
    BY <1>2 DEF vars
  <2> QED
    BY <2>1 DEF EarnInv, WidthInv
<1> QED
  BY <1>1, <1>2, OneAnswer, EarnStep, WidthStep

HistoryInv == TypeOK /\ EarnInv /\ WidthInv

LEMMA HistoryInductive == Spec => []HistoryInv
<1>1. Init => HistoryInv
  BY TypeInit, WidthInit DEF HistoryInv
<1>2. HistoryInv /\ [Next]_vars => HistoryInv'
  BY TypeNext, WidthNext DEF HistoryInv
<1> QED
  BY <1>1, <1>2, PTL DEF Spec

(* Over every sequence of answers, the width grows when an oversized event *)
(* is gone or when the last SuccessesBeforeWidening answers each filled    *)
(* the same reduced width, and then only: RetryHistory!WideningIsEarned.   *)
THEOREM WidthIsEarned == Spec => WideningIsEarned
<1> DEFINE Filled(w) == {i \in 1..Len(log') :
                            /\ log'[i].kind = "sent"
                            /\ log'[i].size = w
                            /\ log'[i].width = w
                            /\ \A j \in i..Len(log') : log'[j].kind = "sent"}
           Earned == pol'.batchSize > pol.batchSize =>
                        \/ log'[Len(log')].kind = "oversized"
                        \/ Cardinality(Filled(pol.batchSize)) = SuccessesBeforeWidening
<1>1. ASSUME HistoryInv, HistoryInv', NEW e \in Entry, Answered(e) PROVE Earned
  <2> DEFINE b == pol.batchSize
  <2>1. /\ log \in Seq(Entry) /\ log' = Append(log, e)
        /\ FullWidth \in Nat
        /\ b \in Nat
        /\ pol.successes \in Nat /\ pol.successes < SuccessesBeforeWidening
        /\ SuccessesBeforeWidening \in Nat
        /\ pol'.batchSize \in Nat
        /\ e.size \in Nat /\ e.width = b /\ e.size <= b
    BY <1>1, Grounds DEF HistoryInv
  <2>2. Measured(e, pol, pol')
    BY <1>1, AnswerMeasured DEF HistoryInv
  <2>3. b < FullWidth => pol.successes = Cardinality(Row(log, b))
    BY <1>1 DEF HistoryInv, EarnInv
  <2>4. Filled(b) = Row(log', b)
    <3>1. \A i \in 1..Len(log') : i \in i..Len(log')
      BY <2>1, Grown
    <3> QED
      BY <3>1 DEF Row, SentFrom
  <2> HIDE DEF Filled
  <2>5. CASE e.kind = "oversized"
    <3>1. log'[Len(log')] = e
      BY <2>1, Grown
    <3> QED
      BY <2>5, <3>1
  <2>6. CASE e.kind # "oversized" /\ pol'.batchSize > b
    <3>1. /\ e.kind = "sent" /\ CountsTowardWidening(pol, e.size)
          /\ pol.successes + 1 >= SuccessesBeforeWidening
      BY <2>1, <2>2, <2>6 DEF Measured
    <3>2. b < FullWidth /\ e.size = b
      BY <2>1, <3>1 DEF CountsTowardWidening
    <3>3. Cardinality(Row(log', b)) = Cardinality(Row(log, b)) + 1
      BY <2>1, <3>1, <3>2, RowGrows
    <3> QED
      BY <2>1, <2>3, <2>4, <3>1, <3>2, <3>3
  <2> QED
    BY <2>5, <2>6
<1>2. ASSUME HistoryInv, HistoryInv', [Next]_vars PROVE [Earned]_vars
  <2>1. UNCHANGED vars \/ \E e \in Entry : Answered(e)
    BY <1>2, OneAnswer DEF HistoryInv
  <2> HIDE DEF Earned
  <2> QED
    BY <1>1, <1>2, <2>1
<1> QED
  BY <1>2, HistoryInductive, PTL DEF Spec, WideningIsEarned

-----------------------------------------------------------------------------
(* Enough successes in a row                                               *)

(* Did the width not grow along such a row, all of the row would have      *)
(* filled it, and the tally of successes would be past its limit.          *)
LEMMA LongTail ==
    ASSUME TypeOK, EarnInv, WidthInv, NEW a \in 1..Len(log),
           a + SuccessesBeforeWidening = Len(log) + 1,
           \A i \in a..Len(log) : log[i].kind = "sent" /\ log[i].size = log[i].width
    PROVE  pol.batchSize >= Lesser(FullWidth, 2 * log[a].width)
<1> DEFINE b == pol.batchSize
           w == log[a].width
           n == Len(log)
<1>1. /\ n \in Nat /\ SuccessesBeforeWidening \in Nat
      /\ \A i \in 1..n : log[i].width \in Nat
      /\ FullWidth \in Nat /\ b \in Nat /\ b <= FullWidth
      /\ pol.successes \in Nat /\ pol.successes < SuccessesBeforeWidening
  <2>1. n \in Nat /\ \A i \in 1..n : log[i] \in Entry
    BY LenProperties, ElementOfSeq DEF TypeOK
  <2>2. b \in 1..FullWidth /\ pol.successes \in 0..(SuccessesBeforeWidening - 1)
    BY PolicyFields DEF TypeOK
  <2>3. \A i \in 1..n : log[i].width \in Nat
    BY <2>1, EntryFields
  <2> QED
    BY <2>1, <2>2, <2>3, FullWidthType, CountAssumption
<1>2. a..n \subseteq 1..n /\ a \in 1..n /\ \A i \in a..n : i..n \subseteq a..n
  BY <1>1
<1>3. \A i \in a..n : SentFrom(log, i) /\ OnlyWidened(log, i, b)
  BY <1>2 DEF SentFrom, WidthInv
<1> HIDE DEF b, n
<1>4. b = w \/ b >= Lesser(FullWidth, 2 * w)
  BY <1>1, <1>2, <1>3 DEF OnlyWidened
<1>5. SUFFICES ASSUME b = w, b < FullWidth PROVE FALSE
  BY <1>1, <1>2, <1>4 DEF Lesser, b
<1>6. ASSUME NEW i \in a..n PROVE log[i].width = b /\ log[i].size = b
  <2>1. log[i].width <= b /\ log[i].width \in Nat
    BY <1>1, <1>2, <1>3, <1>6 DEF OnlyWidened
  <2>2. w <= log[i].width
    BY <1>1, <1>2, <1>3, <1>6 DEF OnlyWidened, n
  <2>3. log[i].size = log[i].width
    BY DEF n
  <2> QED
    BY <1>1, <1>5, <2>1, <2>2, <2>3
<1>7. a..n \subseteq Row(log, b)
  BY <1>2, <1>3, <1>6 DEF Row, n
<1>8. Cardinality(a..n) = SuccessesBeforeWidening
  <2>1. a \in Int /\ n \in Int /\ a <= n /\ (n - a) + 1 = SuccessesBeforeWidening
    BY <1>1, <1>2 DEF n
  <2> QED
    BY <2>1, FS_Interval
<1>9. Row(log, b) \subseteq 1..n
  BY DEF Row, n
<1>10. Cardinality(a..n) <= Cardinality(Row(log, b))
  <2>1. IsFiniteSet(Row(log, b))
    BY <1>1, <1>9, Positions
  <2> QED
    BY <1>7, <2>1, FS_Subset
<1>11. pol.successes = Cardinality(Row(log, b))
  BY <1>5 DEF EarnInv, b
<1>12. Cardinality(Row(log, b)) \in Nat
  BY <1>1, <1>9, Positions
<1> QED
  BY <1>1, <1>8, <1>10, <1>11, <1>12

(* However long the history, as many successes in a row as a doubling takes*)
(* leave the width at least twice what it was before them, if each filled  *)
(* the width of its time: RetryHistory!ReductionEnds.                      *)
THEOREM ReductionIsNotForGood == Spec => []ReductionEnds
<1>1. HistoryInv => ReductionEnds
  <2> DEFINE n == Len(log)
             a == n - SuccessesBeforeWidening + 1
  <2> SUFFICES ASSUME HistoryInv, n >= SuccessesBeforeWidening,
                      \A i \in a..n : log[i].kind = "sent" /\ log[i].size = log[i].width
               PROVE  pol.batchSize >= Lesser(FullWidth, 2 * log[a].width)
    BY DEF ReductionEnds
  <2>1. n \in Nat
    BY LenProperties DEF HistoryInv, TypeOK
  <2>2. a \in 1..n /\ a + SuccessesBeforeWidening = n + 1
    BY <2>1, CountAssumption
  <2> HIDE DEF a
  <2> QED
    BY <2>2, LongTail DEF HistoryInv
<1> QED
  BY <1>1, HistoryInductive, PTL
=============================================================================
