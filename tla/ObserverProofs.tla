--------------------------- MODULE ObserverProofs ---------------------------
(***************************************************************************)
(* Nothing is remembered of a namespace no informer feeds, for every set   *)
(* of pods and troubles and number of runs, attempts and changes; and,     *)
(* when an attempt begins only once the last one has settled, the rows     *)
(* tell no healthy pod red, strand no red row and hide no failure.         *)
(***************************************************************************)
EXTENDS Observer, FunctionTheorems, FiniteSetTheorems, WellFoundedInduction, TLAPS

IInv ==
  /\ watching \in BOOLEAN /\ seen \in [Keys -> {"no", "seeded", "narrated"}]
  /\ DeadIsForgotten

(* What a handler writes when its namespace is not watched is nothing, or that
   it has forgotten. *)
Forgets ==
  /\ watching' = watching
  /\ seen' \in [Keys -> {"no", "seeded", "narrated"}]
  /\ watching \/ \A k \in Keys : seen'[k] \in {seen[k], "no"}

LEMMA ForgetsKeeps == IInv /\ Forgets => IInv'
BY DEF IInv, Forgets, DeadIsForgotten

LEMMA PodHandlers ==
  ASSUME IInv, PodRecovers \/ PodArises \/ PodSeeds \/ PodDeleted
  PROVE  Forgets
<1> USE DEF scoped
<1>0. seen \in [Keys -> {"no", "seeded", "narrated"}] /\ watching \in BOOLEAN
  BY DEF IInv
<1>1. CASE PodRecovers
  BY <1>0, <1>1 DEF PodRecovers, Forgets, Live
<1>2. CASE PodArises
  BY <1>0, <1>2 DEF PodArises, Forgets, Live
<1>3. CASE PodSeeds
  BY <1>0, <1>3 DEF PodSeeds, Forgets, Live
<1>4. CASE PodDeleted
  BY <1>0, <1>4 DEF PodDeleted, Forgets
<1> QED BY <1>1, <1>2, <1>3, <1>4

LEMMA EventHandlers ==
  ASSUME IInv, EventArises \/ EventSeeds \/ EventExpires \/ CheckPod \/ Corroborated
  PROVE  Forgets
<1> USE DEF scoped
<1>0. seen \in [Keys -> {"no", "seeded", "narrated"}] /\ watching \in BOOLEAN
  BY DEF IInv
<1>1. CASE EventArises
  BY <1>0, <1>1 DEF EventArises, Forgets, Live
<1>2. CASE EventSeeds
  BY <1>0, <1>2 DEF EventSeeds, Forgets, Live
<1>3. CASE EventExpires
  BY <1>0, <1>3 DEF EventExpires, Forgets
<1>4. CASE CheckPod
  BY <1>0, <1>4 DEF CheckPod, Forgets
<1>5. CASE Corroborated
  BY <1>0, <1>5 DEF Corroborated, Forgets
<1> QED BY <1>1, <1>2, <1>3, <1>4, <1>5

LEMMA ReconcileIInv == IInv /\ Reconcile => IInv'
<1> SUFFICES ASSUME IInv, Reconcile PROVE IInv'
  OBVIOUS
<1>1. watching' = InScope /\ seen' = IF Stops THEN Forget ELSE seen
  BY DEF Reconcile
<1>2. InScope \in BOOLEAN /\ (~InScope => ~Keeps)
  BY DEF InScope, Keeps
<1>3. CASE Stops
  BY <1>1, <1>2, <1>3 DEF IInv, DeadIsForgotten, Forget
<1>4. CASE ~Stops
  BY <1>1, <1>2, <1>4 DEF IInv, DeadIsForgotten, Stops
<1> QED BY <1>3, <1>4

LEMMA NextIInv == IInv /\ [Next]_vars => IInv'
<1> SUFFICES ASSUME IInv, [Next]_vars PROVE IInv'
  OBVIOUS
<1>1. CASE Reconcile
  BY <1>1, ReconcileIInv
<1>2. CASE \/ PodRecovers \/ PodArises \/ PodSeeds \/ PodDeleted
           \/ EventArises \/ EventSeeds \/ EventExpires \/ CheckPod \/ Corroborated
  BY <1>2, PodHandlers, EventHandlers, ForgetsKeeps
<1>3. CASE EngineNext \/ ClusterNext \/ Timer \/ UNCHANGED vars
  <2>1. UNCHANGED <<watching, seen>>
    BY <1>3 DEF EngineNext, Start, Retry, Begin, Recommend, Finish, ClusterNext, PodChanges, Warn,
       Timer, scoped, vars
  <2> QED BY <2>1 DEF IInv, DeadIsForgotten
<1>4. CASE \/ \E i \in Informers : List(i) \/ Publish(i) \/ Abandon(i)
           \/ \E p \in Pods : WatchPod(p)
           \/ \E s \in Subjects : WatchEvent(s)
  <2>1. UNCHANGED <<watching, seen>>
    BY <1>4 DEF List, Publish, Abandon, WatchPod, WatchEvent, scoped
  <2> QED BY <2>1 DEF IInv, DeadIsForgotten
<1> QED BY <1>1, <1>2, <1>3, <1>4 DEF Next, Deliver

(***************************************************************************)
(* Sequences of notifications.                                             *)
(***************************************************************************)
(* s still says of x one of `what'; an initial list says what was there. *)
Word(s, x, what) ==
  \E j \in DOMAIN s : s[j].of = x /\ s[j].is \in what /\ s[j].kind # "initial"

Mentions(s, x) == \E j \in DOMAIN s : s[j].of = x

(* What the initial list has of a subject comes before all else about it. *)
InitialFirst(s) ==
  \A j \in DOMAIN s : s[j].kind = "initial" =>
    \A i \in DOMAIN s : i < j => s[i].of # s[j].of

(* The last word about a pod is what the cache has of it. *)
LastIs(s, what) ==
  \A j \in DOMAIN s :
    (\A i \in DOMAIN s : i > j => s[i].of # s[j].of) => s[j].is = what[s[j].of]

LEMMA TailIs ==
  ASSUME NEW S, NEW s \in Seq(S), s # <<>>
  PROVE  /\ Tail(s) \in Seq(S) /\ Head(s) = s[1] /\ 1 \in DOMAIN s
         /\ \A j \in DOMAIN Tail(s) : j \in Nat \ {0} /\ j + 1 \in DOMAIN s /\ Tail(s)[j] = s[j + 1]
         /\ \A j \in DOMAIN s :
              j \in Nat \ {0} /\ (j # 1 => j - 1 \in DOMAIN Tail(s) /\ Tail(s)[j - 1] = s[j])
<1>1. Len(s) \in Nat \ {0} /\ DOMAIN s = 1 .. Len(s)
  OBVIOUS
<1>2. Tail(s) \in Seq(S) /\ Len(Tail(s)) = Len(s) - 1 /\ Head(s) = s[1]
  OBVIOUS
<1>3. DOMAIN Tail(s) = 1 .. (Len(s) - 1)
  BY <1>2
<1>4. \A j \in DOMAIN Tail(s) : Tail(s)[j] = s[j + 1]
  BY <1>2, <1>3
<1> QED BY <1>1, <1>2, <1>3, <1>4

LEMMA AppendIs ==
  ASSUME NEW S, NEW s \in Seq(S), NEW n \in S
  PROVE  /\ Append(s, n) \in Seq(S)
         /\ \A j \in DOMAIN Append(s, n) :
              \/ j \in DOMAIN s /\ Append(s, n)[j] = s[j]
              \/ Append(s, n)[j] = n /\ \A i \in DOMAIN s : i < j
         /\ \A j \in DOMAIN s : j \in DOMAIN Append(s, n) /\ Append(s, n)[j] = s[j]
         /\ \E j \in DOMAIN Append(s, n) : Append(s, n)[j] = n /\ \A i \in DOMAIN s : j > i
<1>1. Len(s) \in Nat /\ DOMAIN s = 1 .. Len(s)
  OBVIOUS
<1>2. Append(s, n) \in Seq(S) /\ Len(Append(s, n)) = Len(s) + 1
  OBVIOUS
<1>3. DOMAIN Append(s, n) = 1 .. (Len(s) + 1) /\ Append(s, n)[Len(s) + 1] = n
  BY <1>1, <1>2
<1>4. \A j \in DOMAIN s : Append(s, n)[j] = s[j]
  BY <1>1
<1>5. \A j \in DOMAIN Append(s, n) : j \in DOMAIN s \/ j = Len(s) + 1
  BY <1>1, <1>3
<1> QED BY <1>1, <1>2, <1>3, <1>4, <1>5

(* What is taken from the front is all that is no longer said. *)
LEMMA TailSays ==
  ASSUME NEW S, NEW s \in Seq(S), s # <<>>, NEW x, NEW what
  PROVE  /\ Word(Tail(s), x, what) => Word(s, x, what)
         /\ Word(s, x, what) /\ ~(Head(s).of = x /\ Head(s).is \in what) => Word(Tail(s), x, what)
         /\ Word(s, x, what) /\ Head(s).kind = "initial" => Word(Tail(s), x, what)
         /\ Mentions(Tail(s), x) => Mentions(s, x)
         /\ Mentions(s, x) /\ Head(s).of # x => Mentions(Tail(s), x)
<1>1. ASSUME Word(Tail(s), x, what) PROVE Word(s, x, what)
  BY <1>1, TailIs DEF Word
<1>2. ASSUME NEW j \in DOMAIN s, s[j] # Head(s)
      PROVE  \E i \in DOMAIN Tail(s) : Tail(s)[i] = s[j]
  <2>1. j # 1
    BY <1>2, TailIs
  <2> QED BY <2>1, TailIs
<1>3. ASSUME Word(s, x, what), Head(s).kind = "initial" \/ ~(Head(s).of = x /\ Head(s).is \in what)
      PROVE  Word(Tail(s), x, what)
  <2>1. PICK j \in DOMAIN s : s[j].of = x /\ s[j].is \in what /\ s[j].kind # "initial"
    BY <1>3 DEF Word
  <2>2. s[j] # Head(s)
    BY <1>3, <2>1
  <2>3. PICK i \in DOMAIN Tail(s) : Tail(s)[i] = s[j]
    BY <1>2, <2>2
  <2> QED BY <2>1, <2>3 DEF Word
<1>4. Mentions(Tail(s), x) => Mentions(s, x)
  BY TailIs DEF Mentions
<1>5. Mentions(s, x) /\ Head(s).of # x => Mentions(Tail(s), x)
  BY <1>2 DEF Mentions
<1> QED BY <1>1, <1>3, <1>4, <1>5

LEMMA TailOrder ==
  ASSUME NEW S, NEW s \in Seq(S), s # <<>>, InitialFirst(s)
  PROVE  /\ InitialFirst(Tail(s))
         /\ \A j \in DOMAIN Tail(s) : Tail(s)[j].kind = "initial" => Tail(s)[j].of # Head(s).of
<1>1. InitialFirst(Tail(s))
  <2> SUFFICES ASSUME NEW j \in DOMAIN Tail(s), Tail(s)[j].kind = "initial",
                      NEW i \in DOMAIN Tail(s), i < j
               PROVE  Tail(s)[i].of # Tail(s)[j].of
    BY DEF InitialFirst
  <2>1. i + 1 \in DOMAIN s /\ j + 1 \in DOMAIN s /\ i + 1 < j + 1
        /\ Tail(s)[i] = s[i + 1] /\ Tail(s)[j] = s[j + 1]
    BY TailIs
  <2> QED BY <2>1 DEF InitialFirst
<1>2. ASSUME NEW j \in DOMAIN Tail(s), Tail(s)[j].kind = "initial"
      PROVE  Tail(s)[j].of # Head(s).of
  <2>1. j + 1 \in DOMAIN s /\ 1 \in DOMAIN s /\ 1 < j + 1 /\ Tail(s)[j] = s[j + 1] /\ Head(s) = s[1]
    BY TailIs
  <2> QED BY <1>2, <2>1 DEF InitialFirst
<1> QED BY <1>1, <1>2

LEMMA TailLast ==
  ASSUME NEW S, NEW s \in Seq(S), s # <<>>, NEW what, LastIs(s, what)
  PROVE  /\ LastIs(Tail(s), what)
         /\ Mentions(Tail(s), Head(s).of) \/ Head(s).is = what[Head(s).of]
<1>1. LastIs(Tail(s), what)
  <2> SUFFICES ASSUME NEW j \in DOMAIN Tail(s),
                      \A i \in DOMAIN Tail(s) : i > j => Tail(s)[i].of # Tail(s)[j].of
               PROVE  Tail(s)[j].is = what[Tail(s)[j].of]
    BY DEF LastIs
  <2>1. j + 1 \in DOMAIN s /\ Tail(s)[j] = s[j + 1] /\ j \in Nat \ {0}
    BY TailIs
  <2>2. ASSUME NEW i \in DOMAIN s, i > j + 1 PROVE s[i].of # s[j + 1].of
    <3>1. i # 1 /\ i \in Nat
      BY <2>1, <2>2, TailIs
    <3>2. i - 1 \in DOMAIN Tail(s) /\ Tail(s)[i - 1] = s[i] /\ i - 1 > j
      BY <2>1, <2>2, <3>1, TailIs
    <3> QED BY <2>1, <3>2
  <2> QED BY <2>1, <2>2 DEF LastIs
<1>2. ASSUME ~Mentions(Tail(s), Head(s).of) PROVE Head(s).is = what[Head(s).of]
  <2>1. 1 \in DOMAIN s /\ Head(s) = s[1]
    BY TailIs
  <2>2. ASSUME NEW i \in DOMAIN s, i > 1 PROVE s[i].of # s[1].of
    <3>1. i - 1 \in DOMAIN Tail(s) /\ Tail(s)[i - 1] = s[i]
      BY <2>2, TailIs
    <3> QED BY <1>2, <2>1, <3>1 DEF Mentions
  <2> QED BY <2>1, <2>2 DEF LastIs
<1> QED BY <1>1, <1>2

LEMMA AppendSays ==
  ASSUME NEW S, NEW s \in Seq(S), NEW n \in S
  PROVE  /\ \A x, what : Word(s, x, what) => Word(Append(s, n), x, what)
         /\ n.kind # "initial" => \A what : n.is \in what => Word(Append(s, n), n.of, what)
         /\ \A x : Mentions(s, x) => Mentions(Append(s, n), x)
         /\ \A x : Mentions(Append(s, n), x) => Mentions(s, x) \/ x = n.of
         /\ Mentions(Append(s, n), n.of)
<1> DEFINE t == Append(s, n)
<1>1. \A j \in DOMAIN s : j \in DOMAIN t /\ t[j] = s[j]
  BY AppendIs
<1>2. PICK k \in DOMAIN t : t[k] = n
  BY AppendIs
<1>3. \A j \in DOMAIN t : (j \in DOMAIN s /\ t[j] = s[j]) \/ t[j] = n
  BY AppendIs
<1> HIDE DEF t
<1>4. \A x, what : Word(s, x, what) => Word(t, x, what)
  BY <1>1 DEF Word
<1>5. n.kind # "initial" => \A what : n.is \in what => Word(t, n.of, what)
  BY <1>2 DEF Word
<1>6. \A x : Mentions(s, x) => Mentions(t, x)
  BY <1>1 DEF Mentions
<1>7. \A x : Mentions(t, x) => Mentions(s, x) \/ x = n.of
  BY <1>3 DEF Mentions
<1>8. Mentions(t, n.of)
  BY <1>2 DEF Mentions
<1> USE DEF t
<1> QED BY <1>4, <1>5, <1>6, <1>7, <1>8

LEMMA AppendOrder ==
  ASSUME NEW S, NEW s \in Seq(S), NEW n \in S, n.kind # "initial"
  PROVE  /\ InitialFirst(s) => InitialFirst(Append(s, n))
         /\ \A what, now : LastIs(s, what) /\ now[n.of] = n.is
                           /\ (\A j \in DOMAIN s : s[j].of # n.of => now[s[j].of] = what[s[j].of])
                           => LastIs(Append(s, n), now)
<1> DEFINE t == Append(s, n)
<1>1. \A j \in DOMAIN s : j \in DOMAIN t /\ t[j] = s[j]
  BY AppendIs
<1>2. PICK k \in DOMAIN t : t[k] = n /\ \A i \in DOMAIN s : k > i
  BY AppendIs
<1>3. \A j \in DOMAIN t : \/ j \in DOMAIN s /\ t[j] = s[j]
                          \/ t[j] = n /\ \A i \in DOMAIN s : i < j
  BY AppendIs
<1>4. DOMAIN s \subseteq Nat /\ DOMAIN t \subseteq Nat
  BY AppendIs
<1> HIDE DEF t
<1>5. ASSUME InitialFirst(s) PROVE InitialFirst(t)
  <2> SUFFICES ASSUME NEW j \in DOMAIN t, t[j].kind = "initial", NEW i \in DOMAIN t, i < j
               PROVE  t[i].of # t[j].of
    BY DEF InitialFirst
  <2>1. j \in DOMAIN s /\ t[j] = s[j]
    BY <1>3
  <2>2. i \in DOMAIN s /\ t[i] = s[i]
    <3>1. ~(j < i)
      BY <1>4
    <3> QED BY <1>3, <2>1, <3>1
  <2> QED BY <1>5, <2>1, <2>2 DEF InitialFirst
<1>6. ASSUME NEW what, NEW now, LastIs(s, what), now[n.of] = n.is,
             \A j \in DOMAIN s : s[j].of # n.of => now[s[j].of] = what[s[j].of]
      PROVE  LastIs(t, now)
  <2> SUFFICES ASSUME NEW j \in DOMAIN t, \A i \in DOMAIN t : i > j => t[i].of # t[j].of
               PROVE  t[j].is = now[t[j].of]
    BY DEF LastIs
  <2>1. CASE t[j] = n
    BY <1>6, <2>1
  <2>2. CASE j \in DOMAIN s /\ t[j] = s[j]
    <3>1. s[j].of # n.of
      BY <1>2, <2>2
    <3>2. \A i \in DOMAIN s : i > j => s[i].of # s[j].of
      BY <1>1, <2>2
    <3>3. s[j].is = what[s[j].of]
      BY <1>6, <2>2, <3>2 DEF LastIs
    <3> QED BY <1>6, <2>2, <3>1, <3>3
  <2> QED BY <1>3, <2>1, <2>2
<1> USE DEF t
<1> QED BY <1>5, <1>6

(* What a set is listed as: each of its elements, once. *)
LEMMA Listed ==
  ASSUME NEW S, IsFiniteSet(S)
  PROVE  /\ SetToSeq(S) \in Seq(S)
         /\ \A x \in S : \E j \in DOMAIN SetToSeq(S) : SetToSeq(S)[j] = x
         /\ \A i, j \in DOMAIN SetToSeq(S) : SetToSeq(S)[i] = SetToSeq(S)[j] => i = j
<1>1. Cardinality(S) \in Nat /\ ExistsBijection(1 .. Cardinality(S), S)
  BY FS_CardinalityType
<1> DEFINE N == Cardinality(S)
<1>2. PICK g : g \in Bijection(1 .. N, S)
  BY <1>1 DEF ExistsBijection
<1>3. g \in [1 .. N -> S] /\ \A a, b \in 1 .. N : g[a] = g[b] => a = b
  BY <1>2, Fun_BijectionProperties
<1>4. IsInjective(g)
  BY <1>3 DEF IsInjective
<1> DEFINE f == SetToSeq(S)
<1>5. f \in [1 .. N -> S] /\ IsInjective(f)
  BY <1>3, <1>4, Zenon DEF SetToSeq
<1> HIDE DEF f
<1>6. \A a, b \in 1 .. N : f[a] = f[b] => a = b
  BY <1>5 DEF IsInjective
<1>7. f \in Injection(1 .. N, S)
  BY <1>5, <1>6, Fun_IsInj
<1>8. IsFiniteSet(1 .. N) /\ Cardinality(1 .. N) = N
  BY <1>1, FS_Interval
<1>9. f \in Surjection(1 .. N, S)
  BY <1>7, <1>8, FS_Injection
<1>10. \A x \in S : \E j \in 1 .. N : f[j] = x
  BY <1>9 DEF Surjection
<1>11. DOMAIN f = 1 .. N /\ f \in Seq(S)
  <2> DEFINE n == N
  <2>1. n \in Nat /\ f \in [1 .. n -> S]
    BY <1>1, <1>5
  <2> HIDE DEF n, N
  <2>2. f \in Seq(S)
    BY <2>1
  <2> QED BY <1>5, <2>2
<1>12. \A i, j \in DOMAIN f : f[i] = f[j] => i = j
  BY <1>6, <1>11
<1>13. \A x \in S : \E j \in DOMAIN f : f[j] = x
  BY <1>10, <1>11
<1> USE DEF f
<1> QED BY <1>11, <1>12, <1>13

(***************************************************************************)
(* The debouncer: what waits in a window, and what will be red.            *)
(***************************************************************************)
(* What waits is the latest of its condition. *)
TimesOK ==
  /\ pending \in [Keys -> Nat] /\ row \in [Keys -> [at : Nat, resolved : BOOLEAN]]
  /\ \A r \in released : r.key \in Keys /\ r.at \in Nat \ {0}
  /\ \A k \in Keys : pending[k] # 0 =>
       /\ row[k].at < pending[k]
       /\ \A r \in released : r.key = k => r.at < pending[k]
  /\ \E bound \in Nat : \A r \in released : r.at <= bound

Waiting(k) == pending[k] # 0

(* The row is red, or what a timer has taken will make it red. *)
Late(k) == Red(k) \/ \E r \in released : r.key = k /\ r.at > row[k].at

(* A condition's window and row are as they were. *)
Same(k) == (Waiting(k)' <=> Waiting(k)) /\ (Late(k)' <=> Late(k))

LEMMA LeastNat ==
  ASSUME NEW T, T \subseteq Nat, T # {}
  PROVE  \E m \in T : \A k \in T : m <= k
<1>1. \E m \in T : \A k \in T : ~(<<k, m>> \in OpToRel(<, Nat))
  BY NatLessThanWellFounded, WFMin, Zenon
<1>2. PICK m \in T : \A k \in T : ~(<<k, m>> \in OpToRel(<, Nat))
  BY <1>1
<1>3. ASSUME NEW k \in T PROVE m <= k
  <2>1. ~(<<k, m>> \in OpToRel(<, Nat))
    BY <1>2
  <2>2. ~(k < m)
    BY <2>1 DEF OpToRel
  <2>3. k \in Nat /\ m \in Nat
    OBVIOUS
  <2> QED BY <2>2, <2>3
<1> QED BY <1>3

(* A bounded set of times has a latest one. *)
LEMMA MaxIsMax ==
  ASSUME NEW S, S \subseteq Nat, S # {}, NEW b \in Nat, \A t \in S : t <= b
  PROVE  Max(S) \in S /\ \A t \in S : t <= Max(S)
<1> DEFINE U == {n \in Nat : \A t \in S : t <= n}
<1>1. PICK m \in U : \A n \in U : m <= n
  <2>1. U \subseteq Nat /\ b \in U
    OBVIOUS
  <2> HIDE DEF U
  <2> QED BY <2>1, LeastNat
<1>2. m \in S
  <2> SUFFICES ASSUME m \notin S PROVE FALSE
    OBVIOUS
  <2>1. \A t \in S : t \in Nat /\ t < m
    BY <1>1
  <2>2. m - 1 \in Nat
    <3>1. PICK t \in S : TRUE
      OBVIOUS
    <3>2. t \in Nat /\ t < m /\ m \in Nat
      BY <1>1, <2>1, <3>1
    <3> QED BY <3>2
  <2>3. m - 1 \in U
    BY <2>1, <2>2
  <2> QED BY <1>1, <2>2, <2>3
<1>3. \E x \in S : \A y \in S : x >= y
  <2>1. \A y \in S : m >= y
    BY <1>1
  <2> QED BY <1>2, <2>1
<1>4. Max(S) \in S /\ \A y \in S : Max(S) >= y
  <2> HIDE DEF U
  <2> QED BY <1>3, Zenon DEF Max
<1>5. \A y \in S : y \in Nat
  OBVIOUS
<1> QED BY <1>4, <1>5

(* publish stamps an event later than all there are of its condition. *)
LEMMA NowIsLater ==
  ASSUME TimesOK, NEW k \in Keys
  PROVE  /\ Now(k) \in Nat \ {0}
         /\ \A r \in released : r.key = k => r.at < Now(k)
         /\ pending[k] < Now(k) /\ row[k].at < Now(k)
<1> DEFINE S == OnTheirWay(k) \cup {row[k].at}
<1>1. pending[k] \in Nat /\ row[k].at \in Nat
  BY DEF TimesOK
<1>2. S \subseteq Nat /\ S # {}
  BY <1>1 DEF TimesOK, OnTheirWay
<1>3. PICK b \in Nat : \A r \in released : r.at <= b
  BY DEF TimesOK
<1>4. \A r \in released : r.key = k => r.at \in S
  BY DEF OnTheirWay
<1>5. pending[k] # 0 => pending[k] \in S
  BY DEF OnTheirWay
<1>6. ASSUME NEW t \in S PROVE t <= b + pending[k] + row[k].at
  <2>1. CASE t = pending[k] \/ t = row[k].at
    BY <1>1, <1>3, <2>1
  <2>2. CASE \E r \in released : t = r.at
    <3>1. PICK r \in released : t = r.at
      BY <2>2
    <3>2. t \in Nat /\ t <= b
      BY <1>2, <1>3, <3>1
    <3> HIDE DEF S
    <3> QED BY <1>1, <1>3, <3>2
  <2> QED BY <2>1, <2>2 DEF OnTheirWay
<1>7. row[k].at \in S /\ Now(k) = Max(S) + 1 /\ b + pending[k] + row[k].at \in Nat
  BY <1>1, <1>3 DEF Now
<1>8. Max(S) \in S /\ \A t \in S : t <= Max(S)
  <2> HIDE DEF S
  <2> QED BY <1>2, <1>6, <1>7, MaxIsMax
<1>9. Max(S) \in Nat
  BY <1>2, <1>8
<1>10. \A t \in S : t \in Nat /\ t < Now(k)
  BY <1>2, <1>7, <1>8, <1>9
<1>11. Now(k) \in Nat \ {0}
  BY <1>7, <1>9
<1> HIDE DEF S
<1> QED BY <1>1, <1>4, <1>5, <1>7, <1>10, <1>11

(* Emit, of a time that has been read. *)
Emits(k, at, resolved, inScope) ==
  row' = IF inScope /\ at > row[k].at
         THEN [row EXCEPT ![k] = [resolved |-> resolved,
                 at |-> IF OnTheirWay(k) \subseteq {at} THEN 1 ELSE at]]
         ELSE row

(* What foldClusterEvent makes of the row. *)
LEMMA EmitIs ==
  ASSUME TimesOK, NEW k \in Keys, NEW at \in Nat \ {0}, NEW resolved \in BOOLEAN,
         NEW inScope \in BOOLEAN, Emits(k, at, resolved, inScope)
  PROVE  /\ row' \in [Keys -> [at : Nat, resolved : BOOLEAN]]
         /\ \A j \in Keys : j # k => row'[j] = row[j]
         /\ inScope /\ at > row[k].at =>
              /\ row'[k].resolved = resolved /\ row'[k].at \in Nat \ {0}
              /\ row'[k].at = at \/ (row'[k].at = 1 /\ OnTheirWay(k) \subseteq {at})
         /\ ~(inScope /\ at > row[k].at) => row' = row
<1> DEFINE time == IF OnTheirWay(k) \subseteq {at} THEN 1 ELSE at
<1>1. row' = IF inScope /\ at > row[k].at
             THEN [row EXCEPT ![k] = [resolved |-> resolved, at |-> time]] ELSE row
  BY DEF Emits
<1>2. time = at \/ (time = 1 /\ OnTheirWay(k) \subseteq {at})
  OBVIOUS
<1>3. time \in Nat \ {0}
  BY <1>2
<1> HIDE DEF time
<1>4. [resolved |-> resolved, at |-> time] \in [at : Nat, resolved : BOOLEAN]
  BY <1>3
<1>5. row \in [Keys -> [at : Nat, resolved : BOOLEAN]]
  BY DEF TimesOK
<1>6. row' \in [Keys -> [at : Nat, resolved : BOOLEAN]]
  BY <1>1, <1>4, <1>5
<1> QED BY <1>1, <1>2, <1>3, <1>5, <1>6

(* submit of a resolution: it takes back what waits or, if nothing does, what
   is red or about to be. *)
LEMMA Resolves ==
  ASSUME TimesOK, NEW k \in Keys, NEW inScope \in BOOLEAN, Submit(k, TRUE, FALSE, inScope)
  PROVE  /\ TimesOK'
         /\ \A j \in Keys : j # k => Same(j)
         /\ ~Waiting(k)'
         /\ Waiting(k) => (Late(k)' <=> Late(k))
         /\ ~Waiting(k) /\ inScope => ~Late(k)'
<1>0. /\ row \in [Keys -> [at : Nat, resolved : BOOLEAN]] /\ pending \in [Keys -> Nat]
      /\ \A r \in released : r.at \in Nat \ {0} /\ r.key \in Keys
  BY DEF TimesOK
<1>1. CASE Waiting(k)
  <2>1. pending' = [pending EXCEPT ![k] = 0] /\ UNCHANGED <<row, released>>
    BY <1>1 DEF Submit, Cancels, Waiting
  <2>2. pending' \in [Keys -> Nat] /\ pending'[k] = 0 /\ \A j \in Keys : j # k => pending'[j] = pending[j]
    BY <1>0, <2>1
  <2>3. TimesOK'
    BY <2>1, <2>2 DEF TimesOK
  <2>4. \A j \in Keys : Late(j)' <=> Late(j)
    BY <2>1 DEF Late, Red
  <2> QED BY <1>1, <2>2, <2>3, <2>4 DEF Same, Waiting
<1>2. CASE ~Waiting(k)
  <2>1. Emit(k, Now(k), TRUE, inScope) /\ UNCHANGED <<released, pending>>
    BY <1>2 DEF Submit, Cancels, Waiting
  <2>2. /\ Now(k) \in Nat \ {0} /\ row[k].at < Now(k)
        /\ \A r \in released : r.key = k => r.at < Now(k)
    BY NowIsLater
  <2>a. PICK now \in Nat \ {0}, yes \in BOOLEAN :
          now = Now(k) /\ yes = TRUE /\ Emits(k, now, yes, inScope)
    BY <2>1, <2>2 DEF Emit, Emits, Supersedes
  <2>3. /\ row' \in [Keys -> [at : Nat, resolved : BOOLEAN]]
        /\ \A j \in Keys : j # k => row'[j] = row[j]
        /\ inScope /\ now > row[k].at =>
             /\ row'[k].resolved = TRUE
             /\ row'[k].at = now \/ (row'[k].at = 1 /\ OnTheirWay(k) \subseteq {now})
    <3>1. /\ row' \in [Keys -> [at : Nat, resolved : BOOLEAN]]
          /\ \A j \in Keys : j # k => row'[j] = row[j]
          /\ inScope /\ now > row[k].at =>
               /\ row'[k].resolved = yes
               /\ row'[k].at = now \/ (row'[k].at = 1 /\ OnTheirWay(k) \subseteq {now})
      <4>1. Emits(k, now, yes, inScope)
        BY <2>a
      <4> QED BY <4>1, EmitIs
    <3> QED BY <2>a, <3>1
  <2>4. \A j \in Keys : pending[j] # 0 => j # k
    BY <1>2 DEF Waiting
  <2>5. TimesOK'
    BY <2>1, <2>3, <2>4 DEF TimesOK
  <2>6. ASSUME NEW j \in Keys, j # k PROVE Same(j)
    BY <2>1, <2>3, <2>6 DEF Same, Waiting, Late, Red
  <2>7. ASSUME inScope PROVE ~Late(k)'
    <3>1. row'[k].resolved = TRUE
          /\ (row'[k].at = now \/ (row'[k].at = 1 /\ OnTheirWay(k) \subseteq {now}))
      BY <1>0, <2>a, <2>2, <2>3, <2>7
    <3>2. ASSUME NEW r \in released, r.key = k PROVE ~(r.at > row'[k].at)
      <4>1. r.at \in OnTheirWay(k)
        BY <3>2 DEF OnTheirWay
      <4>2. r.at < now /\ r.at \in Nat
        BY <1>0, <2>a, <2>2, <3>2
      <4>3. row'[k].at = now
        BY <3>1, <4>1, <4>2
      <4> QED BY <2>2, <4>2, <4>3
    <3> QED BY <2>1, <3>1, <3>2 DEF Late, Red
  <2> QED BY <1>2, <2>1, <2>5, <2>6, <2>7 DEF Waiting
<1> QED BY <1>1, <1>2

(* submit of an arise: it waits. *)
LEMMA Arises ==
  ASSUME TimesOK, NEW k \in Keys, NEW inScope \in BOOLEAN, Submit(k, FALSE, FALSE, inScope)
  PROVE  /\ TimesOK'
         /\ \A j \in Keys : j # k => Same(j)
         /\ Waiting(k)' /\ (Late(k)' <=> Late(k))
<1>0. /\ row \in [Keys -> [at : Nat, resolved : BOOLEAN]] /\ pending \in [Keys -> Nat]
      /\ \A r \in released : r.at \in Nat \ {0} /\ r.key \in Keys
  BY DEF TimesOK
<1>1. pending' = [pending EXCEPT ![k] = Now(k)] /\ UNCHANGED <<row, released>>
  BY DEF Submit
<1>2. /\ Now(k) \in Nat \ {0} /\ row[k].at < Now(k)
      /\ \A r \in released : r.key = k => r.at < Now(k)
  BY NowIsLater
<1>3. pending' \in [Keys -> Nat] /\ pending'[k] = Now(k)
      /\ \A j \in Keys : j # k => pending'[j] = pending[j]
  BY <1>0, <1>1, <1>2
<1>4. TimesOK'
  <2>1. ASSUME NEW j \in Keys, pending'[j] # 0
        PROVE  row[j].at < pending'[j] /\ \A r \in released : r.key = j => r.at < pending'[j]
    <3>1. CASE j = k
      BY <1>2, <1>3, <3>1
    <3>2. CASE j # k
      BY <1>3, <2>1, <3>2 DEF TimesOK
    <3> QED BY <3>1, <3>2
  <2> QED BY <1>1, <1>3, <2>1 DEF TimesOK
<1>5. \A j \in Keys : Late(j)' <=> Late(j)
  BY <1>1 DEF Late, Red
<1> QED BY <1>2, <1>3, <1>4, <1>5 DEF Same, Waiting

(* A timer takes what waits, and it will be red. *)
LEMMA Releases ==
  ASSUME TimesOK, NEW k \in Keys, Release(k)
  PROVE  /\ TimesOK'
         /\ \A j \in Keys : j # k => Same(j)
         /\ Waiting(k) /\ ~Waiting(k)' /\ Late(k)'
<1>0. /\ row \in [Keys -> [at : Nat, resolved : BOOLEAN]] /\ pending \in [Keys -> Nat]
      /\ \A r \in released : r.at \in Nat \ {0} /\ r.key \in Keys
      /\ pending[k] # 0 => row[k].at < pending[k]
  BY DEF TimesOK
<1>1. PICK e : /\ released' = released \cup {e} /\ e.key = k /\ e.at = pending[k]
               /\ pending[k] # 0
               /\ pending' = [pending EXCEPT ![k] = 0] /\ UNCHANGED row
  <2> WITNESS [key |-> k, at |-> pending[k]]
  <2> QED BY DEF Release
<1>2. pending' \in [Keys -> Nat] /\ pending'[k] = 0 /\ \A j \in Keys : j # k => pending'[j] = pending[j]
  BY <1>0, <1>1
<1>3. TimesOK'
  <2>1. \A r \in released' : r.key \in Keys /\ r.at \in Nat \ {0}
    BY <1>0, <1>1
  <2>2. ASSUME NEW j \in Keys, pending'[j] # 0
        PROVE  row[j].at < pending'[j] /\ \A r \in released' : r.key = j => r.at < pending'[j]
    <3>1. j # k /\ pending'[j] = pending[j]
      BY <1>2, <2>2
    <3> QED BY <1>1, <2>2, <3>1 DEF TimesOK
  <2>3. \E bound \in Nat : \A r \in released' : r.at <= bound
    <3>1. PICK bound \in Nat : \A r \in released : r.at <= bound
      BY DEF TimesOK
    <3>2. bound + pending[k] \in Nat /\ \A r \in released' : r.at <= bound + pending[k]
      BY <1>0, <1>1, <3>1
    <3> QED BY <3>2
  <2> QED BY <1>0, <1>1, <1>2, <2>1, <2>2, <2>3 DEF TimesOK
<1>4. ASSUME NEW j \in Keys, j # k PROVE Same(j)
  BY <1>1, <1>2, <1>4 DEF Same, Waiting, Late, Red
<1>5. Late(k)'
  BY <1>0, <1>1 DEF Late
<1> QED BY <1>1, <1>2, <1>3, <1>4, <1>5 DEF Waiting

(* It reaches the row, or it was no longer news. *)
LEMMA EmitsReleased ==
  ASSUME TimesOK, NEW r \in released, NEW inScope \in BOOLEAN, EmitReleased(r, inScope)
  PROVE  /\ TimesOK'
         /\ inScope => \A j \in Keys : Same(j)
<1>0. /\ row \in [Keys -> [at : Nat, resolved : BOOLEAN]] /\ pending \in [Keys -> Nat]
      /\ \A s \in released : s.at \in Nat \ {0} /\ s.key \in Keys
      /\ pending[r.key] # 0 => row[r.key].at < pending[r.key] /\ r.at < pending[r.key]
  BY DEF TimesOK
<1> DEFINE k == r.key
<1>1. k \in Keys /\ r.at \in Nat \ {0}
  BY <1>0
<1>2. released' = released \ {r} /\ pending' = pending
     /\ \E no \in BOOLEAN : no = FALSE /\ Emits(k, r.at, no, inScope)
  BY DEF EmitReleased, Emit, Emits, Supersedes
<1>3. /\ row' \in [Keys -> [at : Nat, resolved : BOOLEAN]]
      /\ \A j \in Keys : j # k => row'[j] = row[j]
      /\ inScope /\ r.at > row[k].at =>
           /\ row'[k].resolved = FALSE /\ row'[k].at \in Nat \ {0}
           /\ row'[k].at = r.at \/ (row'[k].at = 1 /\ OnTheirWay(k) \subseteq {r.at})
      /\ ~(inScope /\ r.at > row[k].at) => row' = row
  <2>1. PICK no \in BOOLEAN : no = FALSE /\ Emits(k, r.at, no, inScope)
    BY <1>2
  <2> HIDE DEF k
  <2> QED BY <1>1, <2>1, EmitIs
<1> HIDE DEF k
<1>4. row'[k].at <= r.at \/ row'[k] = row[k]
  BY <1>0, <1>1, <1>3
<1>5. TimesOK'
  <2>1. ASSUME NEW j \in Keys, pending[j] # 0
        PROVE  row'[j].at < pending[j]
    <3>1. CASE j # k
      BY <1>3, <2>1, <3>1 DEF TimesOK
    <3>2. CASE j = k
      <4>1. r.at < pending[k] /\ row[k].at < pending[k] /\ row'[k].at \in Nat /\ pending[k] \in Nat
        BY <1>0, <1>1, <1>3, <2>1, <3>2 DEF k
      <4> QED BY <1>1, <1>4, <3>2, <4>1
    <3> QED BY <3>1, <3>2
  <2>2. \A j \in Keys : pending[j] # 0 => \A s \in released' : s.key = j => s.at < pending[j]
    BY <1>2 DEF TimesOK
  <2>3. \E bound \in Nat : \A s \in released' : s.at <= bound
    BY <1>2 DEF TimesOK
  <2> QED BY <1>0, <1>2, <1>3, <2>1, <2>2, <2>3 DEF TimesOK
<1>6. ASSUME inScope, NEW j \in Keys PROVE Same(j)
  <2>1. Waiting(j)' <=> Waiting(j)
    BY <1>2 DEF Waiting
  <2>2. CASE j # k
    BY <1>2, <1>3, <2>1, <2>2 DEF Same, Late, Red, k
  <2>3. CASE j = k /\ r.at > row[k].at
    <3>1. Late(j)
      BY <2>3 DEF Late, k
    <3>2. Late(j)'
      BY <1>3, <1>6, <2>3 DEF Late, Red
    <3> QED BY <2>1, <3>1, <3>2 DEF Same
  <2>4. CASE j = k /\ ~(r.at > row[k].at)
    BY <1>2, <1>3, <2>1, <2>4 DEF Same, Late, Red, k
  <2> QED BY <2>2, <2>3, <2>4
<1> QED BY <1>5, <1>6

(***************************************************************************)
(* The scope, when Start and Retry wait for the last attempt to settle.    *)
(***************************************************************************)
(* Until an attempt is watched, and again only after the next one has begun,
   nothing moves: the last attempt has settled and the rows are empty. *)
Untouched == Settled /\ \A k \in Keys : row[k] = NoRow

(* Only the attempt that first watched is no restart. *)
ScopeOK ==
  /\ run \in Nat /\ attempt \in Nat /\ first \in Nat
  /\ torn \in BOOLEAN /\ terminal \in BOOLEAN
  /\ run # 0 => attempt # 0
  /\ watching => run # 0 /\ recipe = "ours" /\ watchRun = run /\ first # 0
                 /\ (torn \/ first = attempt)
  /\ first # 0 => tornRun = run /\ (watching \/ torn)
  /\ ~watching /\ ~terminal => Untouched

LEMMA InitScope == Init => ScopeOK
<1> SUFFICES ASSUME Init PROVE ScopeOK
  OBVIOUS
<1>1. /\ run = 0 /\ attempt = 0 /\ recipe = "none" /\ terminal = FALSE /\ watching = FALSE
      /\ watchRun = 0 /\ torn = FALSE /\ tornRun = 0 /\ first = 0
  BY DEF Init
<1>2. Settled
  <2>1. Idle
    BY DEF Init, DebounceInit, Idle
  <2>2. \A i \in Informers : queue[i] = <<>> /\ out[i] = <<>>
    BY DEF Init
  <2>3. check.pod = None
    BY DEF Init
  <2> QED BY <1>1, <2>1, <2>2, <2>3 DEF Settled
<1>3. \A k \in Keys : row[k] = NoRow
  BY DEF Init, DebounceInit
<1> QED BY <1>1, <1>2, <1>3 DEF ScopeOK, Untouched

LEMMA BeginScope == ASSUME Patient, ScopeOK, Start \/ Retry PROVE ScopeOK' /\ Settled /\ Untouched'
<1>1. /\ Settled /\ terminal' = FALSE /\ row' = [k \in Keys |-> NoRow]
      /\ UNCHANGED <<watching, watchRun, torn, tornRun, queue, out, check, pending, released>>
  BY DEF Start, Retry, Begin, feed, hands, bounce
<1>2. Untouched'
  <2>1. Settled'
    BY <1>1 DEF Settled, Idle
  <2>2. \A k \in Keys : row'[k] = NoRow
    BY <1>1
  <2> QED BY <2>1, <2>2 DEF Untouched
<1>3. ~watching
  BY <1>1 DEF Settled
<1>4. run' \in Nat /\ attempt' \in Nat /\ first' \in Nat /\ (run' # 0 => attempt' # 0)
  BY DEF Start, Retry, ScopeOK
<1>5. first' # 0 => run' = run /\ first' = first
  BY DEF Start, Retry
<1> QED BY <1>1, <1>2, <1>3, <1>4, <1>5 DEF ScopeOK

(* Reconcile starts watching only what is untouched, and while it watches, all
   it can do is stop, after the end of the run. *)
LEMMA ReconcileIs ==
  ASSUME IInv, ScopeOK, Reconcile
  PROVE  /\ watching => ~watching' /\ terminal
         /\ ~watching /\ watching' =>
              /\ Untouched /\ ~terminal
              /\ listed' = {} /\ seen' = seen /\ \A k \in Keys : seen[k] = "no"
              /\ cache' = [pod |-> [p \in Pods |-> "absent"], event |-> [s \in Subjects |-> 0]]
<1>1. watching \in BOOLEAN /\ watching' = InScope
  BY DEF IInv, Reconcile
<1>2. watching => (Keeps <=> InScope)
  BY DEF Keeps, ScopeOK
<1>3. watching => ~Keeps
  BY <1>1 DEF Reconcile, Stops, Starts, Keeps, InScope, RunOver, ScopeOK
<1>4. watching => ~InScope /\ terminal
  BY <1>2, <1>3 DEF InScope, RunOver, ScopeOK
<1>5. ASSUME ~watching, watching'
      PROVE  /\ Untouched /\ ~terminal
             /\ listed' = {} /\ seen' = seen /\ \A k \in Keys : seen[k] = "no"
             /\ cache' = [pod |-> [p \in Pods |-> "absent"], event |-> [s \in Subjects |-> 0]]
  <2>1. InScope /\ ~Keeps /\ ~Stops
    BY <1>1, <1>5 DEF Keeps, Stops
  <2>2. ~terminal
    BY <2>1 DEF InScope, RunOver
  <2>3. Untouched /\ \A k \in Keys : seen[k] = "no"
    BY <1>5, <2>2 DEF ScopeOK, IInv, DeadIsForgotten
  <2> QED BY <2>1, <2>2, <2>3 DEF Reconcile
<1> QED BY <1>1, <1>4, <1>5

LEMMA ReconcileScope == ASSUME IInv, ScopeOK, Reconcile PROVE ScopeOK'
<1>1. /\ UNCHANGED <<run, attempt, recipe, terminal, queue, out, check, pending, released, row>>
      /\ watching' = InScope /\ watchRun' = IF RunOver THEN 0 ELSE run
      /\ torn' = ((torn \/ Stops) /\ (RunOver \/ ~Fresh))
      /\ tornRun' = IF RunOver THEN tornRun ELSE run
      /\ first' = IF Starts /\ first = 0 THEN attempt ELSE first
  BY DEF Reconcile, engine, hands, bounce
<1>2. watching \in BOOLEAN /\ RunOver \in BOOLEAN /\ (InScope => ~RunOver /\ run # 0 /\ recipe = "ours")
  BY DEF IInv, InScope, RunOver, ScopeOK
<1>3. torn' \in BOOLEAN /\ first' \in Nat
  BY <1>1 DEF ScopeOK, Stops, RunOver, Fresh
<1>4. CASE watching
  <2>1. ~watching' /\ terminal /\ RunOver /\ Stops
    BY <1>1, <1>4, ReconcileIs DEF RunOver, Stops, Keeps
  <2>2. ~Starts
    BY <1>1, <2>1 DEF Starts
  <2>3. torn' /\ tornRun' = tornRun /\ first' = first
    BY <1>1, <2>1, <2>2
  <2> QED BY <1>1, <1>3, <2>1, <2>3 DEF ScopeOK
<1>5. CASE ~watching /\ watching'
  <2>1. Starts /\ ~RunOver /\ ~Stops /\ run # 0 /\ recipe = "ours"
    BY <1>1, <1>2, <1>5 DEF Starts, Stops, Keeps
  <2>2. first' # 0 /\ tornRun' = run /\ watchRun' = run
    BY <1>1, <2>1 DEF ScopeOK
  <2>3. first = 0 => first' = attempt
    BY <1>1, <2>1
  <2>4. first # 0 => torn'
    BY <1>1, <1>5, <2>1 DEF ScopeOK, Fresh
  <2> QED BY <1>1, <1>3, <1>5, <2>1, <2>2, <2>3, <2>4 DEF ScopeOK
<1>6. CASE ~watching /\ ~watching'
  <2>1. ~Stops /\ ~Starts
    BY <1>1, <1>6 DEF Stops, Starts
  <2>2. first' = first /\ (first # 0 => tornRun' = run /\ torn')
    BY <1>1, <1>6, <2>1 DEF ScopeOK, Fresh
  <2>3. Untouched => Untouched'
    BY <1>1, <1>6 DEF Untouched, Settled, Idle
  <2> QED BY <1>1, <1>3, <1>6, <2>2, <2>3 DEF ScopeOK
<1> QED BY <1>1, <1>2, <1>4, <1>5, <1>6

(* Whatever else moves, a run that is not over is watched. *)
LEMMA BusyScope ==
  ASSUME ScopeOK, UNCHANGED <<run, attempt, recipe, terminal, watching, watchRun, torn, tornRun, first>>,
         watching \/ terminal \/ UNCHANGED <<queue, out, check, pending, released, row>>
  PROVE  ScopeOK'
BY DEF ScopeOK, Untouched, Settled, Idle

LEMMA UntouchedIs ==
  ASSUME Untouched
  PROVE  /\ \A i \in Informers : queue[i] = <<>> /\ out[i] = <<>>
         /\ ~watching /\ check.pod = None /\ released = {} /\ \A k \in Keys : pending[k] = 0
BY DEF Untouched, Settled, Idle

(***************************************************************************)
(* The informers' queues and caches.                                       *)
(***************************************************************************)
PodStates == Troubles \cup {"healthy", "absent", "gone"}

PodNames ==
  {n \in Names : n.of \in Pods /\ n.is # "warning" /\ (n.kind = "delete" <=> n.is = "gone")}

FeedTypeOK ==
  /\ queue \in [Informers -> Seq(Names)] /\ queue["pod"] \in Seq(PodNames)
  /\ listed \subseteq Informers
  /\ pod \in [Pods -> PodStates] /\ event \in [Subjects -> 0 .. 2]
  /\ cache \in [pod : [Pods -> PodStates], event : [Subjects -> 0 .. 2]]
  /\ \A p \in Pods : cache.pod[p] # "absent" => pod[p] # "absent"

LEMMA NotTrouble ==
  /\ "healthy" \notin Troubles /\ "absent" \notin Troubles /\ "gone" \notin Troubles
  /\ "warning" \notin Troubles /\ Warning \notin Troubles /\ None \notin Pods /\ Owner \notin Pods
  /\ Informers = {"pod", "event"} /\ "pod" # "event"
BY ObserverAssumption DEF Informers

LEMMA TakeIs ==
  ASSUME FeedTypeOK, NEW i \in Informers, Take(i)
  PROVE  /\ queue' \in [Informers -> Seq(Names)]
         /\ queue[i] # <<>> /\ out[i] = <<>>
         /\ queue'[i] = Tail(queue[i]) /\ \A h \in Informers : h # i => queue'[h] = queue[h]
         /\ Taken(i) = Head(queue[i]) /\ Taken(i) \in Names
<1>1. queue[i] \in Seq(Names) /\ queue[i] # <<>> /\ queue' = [queue EXCEPT ![i] = Tail(@)]
      /\ out[i] = <<>> /\ queue \in [Informers -> Seq(Names)]
  BY DEF FeedTypeOK, Take
<1>2. Tail(queue[i]) \in Seq(Names) /\ Head(queue[i]) \in Names
  BY <1>1
<1>3. queue' \in [Informers -> Seq(Names)] /\ queue'[i] = Tail(queue[i])
      /\ \A h \in Informers : h # i => queue'[h] = queue[h]
  BY <1>1, <1>2
<1> QED BY <1>1, <1>2, <1>3 DEF Taken

LEMMA ListedSet ==
  ASSUME NEW P, IsFiniteSet(P), NEW f, P \subseteq DOMAIN f
  PROVE  IsFiniteSet({f[p] : p \in P})
<1> DEFINE g == [p \in P |-> f[p]]
           T == {f[p] : p \in P}
<1>1. g \in [P -> T] /\ \A t \in T : \E p \in P : g[p] = t
  OBVIOUS
<1> HIDE DEF g, T
<1>2. g \in Surjection(P, T)
  BY <1>1, Fun_IsSurj
<1>3. IsFiniteSet(T)
  BY <1>2, FS_Surjection
<1> QED BY <1>3 DEF T

(* The first List of an informer: what there is, each once. *)
LEMMA ListPodIs ==
  ASSUME FeedTypeOK, List("pod")
  PROVE  /\ listed' = listed \cup {"pod"} /\ "pod" \notin listed /\ watching
         /\ cache' \in [pod : [Pods -> PodStates], event : [Subjects -> 0 .. 2]]
         /\ cache'.pod = pod /\ cache'.event = cache.event
         /\ queue' \in [Informers -> Seq(Names)] /\ queue'["event"] = queue["event"]
         /\ \A j \in DOMAIN queue'["pod"] :
              LET n == queue'["pod"][j] IN
              n.kind = "initial" /\ n.of \in Pods /\ n.is = pod[n.of] /\ Present(n.is)
         /\ \A i, j \in DOMAIN queue'["pod"] : queue'["pod"][i].of = queue'["pod"][j].of => i = j
         /\ \A p \in Pods : Present(pod[p]) => Mentions(queue'["pod"], p)
<1> DEFINE P == {q \in Pods : Present(pod[q])}
           f == [p \in Pods |-> [kind |-> "initial", of |-> p, is |-> pod[p]]]
           S == {f[p] : p \in P}
           s == SetToSeq(S)
<1>1. /\ listed' = listed \cup {"pod"} /\ "pod" \notin listed /\ watching
      /\ cache' = [cache EXCEPT !.pod = pod]
      /\ queue' = [queue EXCEPT !["pod"] = s]
  <2>1. {[kind |-> "initial", of |-> p, is |-> pod[p]] : p \in P} = S
    OBVIOUS
  <2> HIDE DEF f, S
  <2> QED BY <2>1 DEF List
<1>2. IsFiniteSet(S)
  <2>1. IsFiniteSet(P)
    BY ObserverAssumption, FS_Subset
  <2>2. P \subseteq DOMAIN f
    OBVIOUS
  <2> HIDE DEF f, P
  <2> QED BY <2>1, <2>2, ListedSet
<1>3. \A n \in S : n.kind = "initial" /\ n.of \in Pods /\ n.is = pod[n.of] /\ Present(n.is) /\ n = f[n.of]
  OBVIOUS
<1>4. S \subseteq Names
  BY DEF FeedTypeOK, Names, PodStates, Present, Subjects
<1>5. \A p \in Pods : Present(pod[p]) => \E n \in S : n.of = p
  <2> SUFFICES ASSUME NEW p \in Pods, Present(pod[p]) PROVE \E n \in S : n.of = p
    OBVIOUS
  <2>1. f[p] \in S /\ f[p].of = p
    OBVIOUS
  <2> QED BY <2>1
<1> HIDE DEF S, f, P
<1>6. /\ s \in Seq(S) /\ \A x \in S : \E j \in DOMAIN s : s[j] = x
      /\ \A i, j \in DOMAIN s : s[i] = s[j] => i = j
  BY <1>2, Listed
<1> HIDE DEF s
<1>7. \A j \in DOMAIN s : s[j] \in S
  BY <1>6
<1>8. s \in Seq(Names)
  BY <1>4, <1>6
<1>9. queue' \in [Informers -> Seq(Names)] /\ queue'["pod"] = s /\ queue'["event"] = queue["event"]
  BY <1>1, <1>8, NotTrouble DEF FeedTypeOK
<1>10. \A i, j \in DOMAIN s : s[i].of = s[j].of => i = j
  BY <1>3, <1>6, <1>7
<1>11. \A p \in Pods : Present(pod[p]) => Mentions(s, p)
  BY <1>5, <1>6 DEF Mentions
<1>12. /\ cache' \in [pod : [Pods -> PodStates], event : [Subjects -> 0 .. 2]]
       /\ cache'.pod = pod /\ cache'.event = cache.event
  BY <1>1 DEF FeedTypeOK
<1> QED BY <1>1, <1>3, <1>7, <1>9, <1>10, <1>11, <1>12

LEMMA ListEventIs ==
  ASSUME FeedTypeOK, List("event")
  PROVE  /\ listed' = listed \cup {"event"} /\ "event" \notin listed /\ watching
         /\ cache' \in [pod : [Pods -> PodStates], event : [Subjects -> 0 .. 2]]
         /\ cache'.pod = cache.pod
         /\ queue' \in [Informers -> Seq(Names)] /\ queue'["pod"] = queue["pod"]
         /\ \A i, j \in DOMAIN queue'["event"] : queue'["event"][i].of = queue'["event"][j].of => i = j
<1> DEFINE P == {t \in Subjects : event[t] # 0}
           f == [t \in Subjects |-> [kind |-> "initial", of |-> t, is |-> "warning"]]
           S == {f[t] : t \in P}
           s == SetToSeq(S)
<1>1. /\ listed' = listed \cup {"event"} /\ "event" \notin listed /\ watching
      /\ cache' = [cache EXCEPT !.event = event]
      /\ queue' = [queue EXCEPT !["event"] = s]
  <2>1. {[kind |-> "initial", of |-> t, is |-> "warning"] : t \in P} = S
    OBVIOUS
  <2> HIDE DEF f, S
  <2> QED BY <2>1 DEF List
<1>2. IsFiniteSet(S)
  <2>1. IsFiniteSet(Subjects)
    BY ObserverAssumption, FS_AddElement DEF Subjects
  <2>2. IsFiniteSet(P)
    BY <2>1, FS_Subset
  <2>3. P \subseteq DOMAIN f
    OBVIOUS
  <2> HIDE DEF f, P
  <2> QED BY <2>2, <2>3, ListedSet
<1>3. S \subseteq Names /\ \A n \in S : n.of \in Subjects /\ n = f[n.of]
  BY DEF Names
<1> HIDE DEF S, f, P
<1>4. /\ s \in Seq(S) /\ \A i, j \in DOMAIN s : s[i] = s[j] => i = j
  BY <1>2, Listed
<1> HIDE DEF s
<1>5. \A j \in DOMAIN s : s[j] \in S
  BY <1>4
<1>6. s \in Seq(Names)
  BY <1>3, <1>4
<1>7. queue' \in [Informers -> Seq(Names)] /\ queue'["event"] = s /\ queue'["pod"] = queue["pod"]
  BY <1>1, <1>6, NotTrouble DEF FeedTypeOK
<1>8. \A i, j \in DOMAIN s : s[i].of = s[j].of => i = j
  BY <1>3, <1>4, <1>5
<1>9. /\ cache' \in [pod : [Pods -> PodStates], event : [Subjects -> 0 .. 2]]
      /\ cache'.pod = cache.pod
  BY <1>1 DEF FeedTypeOK
<1> QED BY <1>1, <1>7, <1>8, <1>9

(* A watch: the cache is brought up to date, and the handler will be told of
   anything but the end of what was never there. *)
LEMMA WatchPodIs ==
  ASSUME FeedTypeOK, NEW p \in Pods, WatchPod(p)
  PROVE  /\ watching /\ "pod" \in listed /\ pod[p] # "absent"
         /\ cache' \in [pod : [Pods -> PodStates], event : [Subjects -> 0 .. 2]]
         /\ cache'.pod[p] = pod[p] /\ \A q \in Pods : q # p => cache'.pod[q] = cache.pod[q]
         /\ \/ UNCHANGED queue /\ pod[p] = "gone" /\ ~Present(cache.pod[p]) /\ cache.pod[p] # "gone"
            \/ \E n \in Names :
                 /\ n.of = p /\ n.is = pod[p] /\ n.kind # "initial"
                 /\ n.kind = "delete" <=> n.is = "gone"
                 /\ queue' \in [Informers -> Seq(Names)]
                 /\ queue'["pod"] = Append(queue["pod"], n) /\ queue'["event"] = queue["event"]
<1>1. /\ watching /\ "pod" \in listed /\ cache.pod[p] # pod[p]
      /\ cache' = [cache EXCEPT !.pod[p] = pod[p]]
  BY DEF WatchPod
<1>2. pod[p] # "absent" /\ pod[p] \in PodStates
  BY <1>1 DEF FeedTypeOK
<1>3. cache' = [cache EXCEPT !.pod = [cache.pod EXCEPT ![p] = pod[p]]]
  BY <1>1
<1>4. [cache.pod EXCEPT ![p] = pod[p]] \in [Pods -> PodStates]
  BY <1>2 DEF FeedTypeOK
<1>5. cache' \in [pod : [Pods -> PodStates], event : [Subjects -> 0 .. 2]]
      /\ cache'.pod = [cache.pod EXCEPT ![p] = pod[p]]
  BY <1>3, <1>4 DEF FeedTypeOK
<1>6. cache'.pod[p] = pod[p] /\ \A q \in Pods : q # p => cache'.pod[q] = cache.pod[q]
  BY <1>5 DEF FeedTypeOK
<1> DEFINE kind == IF pod[p] = "gone" THEN "delete"
                   ELSE IF Present(cache.pod[p]) THEN "update" ELSE "add"
           n == [kind |-> kind, of |-> p, is |-> pod[p]]
<1>7. CASE pod[p] = "gone" /\ ~Present(cache.pod[p])
  BY <1>1, <1>2, <1>5, <1>6, <1>7 DEF WatchPod
<1>8. CASE ~(pod[p] = "gone" /\ ~Present(cache.pod[p]))
  <2>1. queue' = [queue EXCEPT !["pod"] = Append(@, n)]
    BY <1>8 DEF WatchPod, Notify
  <2>2. n \in Names /\ n.of = p /\ n.is = pod[p] /\ n.kind # "initial" /\ (n.kind = "delete" <=> n.is = "gone")
    BY <1>2 DEF Names, Subjects, PodStates
  <2> HIDE DEF n
  <2>3. queue \in [Informers -> Seq(Names)] /\ Append(queue["pod"], n) \in Seq(Names)
    BY <2>2, NotTrouble DEF FeedTypeOK
  <2>4. queue' \in [Informers -> Seq(Names)]
        /\ queue'["pod"] = Append(queue["pod"], n) /\ queue'["event"] = queue["event"]
    BY <2>1, <2>3, NotTrouble
  <2> QED BY <1>1, <1>2, <1>5, <1>6, <2>2, <2>4
<1> QED BY <1>7, <1>8

LEMMA WatchEventIs ==
  ASSUME FeedTypeOK, NEW s \in Subjects, WatchEvent(s)
  PROVE  /\ watching /\ "event" \in listed
         /\ cache' \in [pod : [Pods -> PodStates], event : [Subjects -> 0 .. 2]]
         /\ cache'.pod = cache.pod
         /\ \E n \in Names :
              /\ n.kind # "initial" /\ queue' \in [Informers -> Seq(Names)]
              /\ queue'["event"] = Append(queue["event"], n) /\ queue'["pod"] = queue["pod"]
<1>1. /\ watching /\ "event" \in listed
      /\ cache' = [cache EXCEPT !.event = [cache.event EXCEPT ![s] = event[s]]]
  BY DEF WatchEvent
<1>2. [cache.event EXCEPT ![s] = event[s]] \in [Subjects -> 0 .. 2]
  BY DEF FeedTypeOK
<1>3. cache' \in [pod : [Pods -> PodStates], event : [Subjects -> 0 .. 2]] /\ cache'.pod = cache.pod
  BY <1>1, <1>2 DEF FeedTypeOK
<1> DEFINE kind == IF event[s] = 0 THEN "delete" ELSE IF cache.event[s] = 0 THEN "add" ELSE "update"
           n == [kind |-> kind, of |-> s, is |-> "warning"]
<1>4. queue' = [queue EXCEPT !["event"] = Append(@, n)]
  BY DEF WatchEvent, Notify
<1>5. n \in Names /\ n.kind # "initial"
  BY DEF Names
<1> HIDE DEF n
<1>6. queue \in [Informers -> Seq(Names)] /\ Append(queue["event"], n) \in Seq(Names)
  BY <1>5, NotTrouble DEF FeedTypeOK
<1>7. queue' \in [Informers -> Seq(Names)]
      /\ queue'["event"] = Append(queue["event"], n) /\ queue'["pod"] = queue["pod"]
  BY <1>4, <1>6, NotTrouble
<1> QED BY <1>1, <1>3, <1>5, <1>7

LEMMA SeqWithin ==
  ASSUME NEW S, NEW T, NEW s \in Seq(S), \A j \in DOMAIN s : s[j] \in T
  PROVE  s \in Seq(T)
<1>1. Len(s) \in Nat /\ DOMAIN s = 1 .. Len(s) /\ s \in [1 .. Len(s) -> T]
  OBVIOUS
<1> QED BY <1>1

LEMMA NextFeedType == ASSUME IInv, ScopeOK, FeedTypeOK, [Next]_vars PROVE FeedTypeOK'
<1> USE DEF engine, cluster, scoped, feed, hands, bounce
<1>1. CASE Reconcile
  <2>1. UNCHANGED <<pod, event, queue>> /\ (listed' = listed \/ listed' = {})
        /\ (cache' = cache \/ cache' = [pod |-> [p \in Pods |-> "absent"], event |-> [s \in Subjects |-> 0]])
    BY <1>1 DEF Reconcile
  <2>2. cache' \in [pod : [Pods -> PodStates], event : [Subjects -> 0 .. 2]]
        /\ \A p \in Pods : cache'.pod[p] = cache.pod[p] \/ cache'.pod[p] = "absent"
    BY <2>1 DEF FeedTypeOK, PodStates
  <2> QED BY <2>1, <2>2 DEF FeedTypeOK
<1>2. CASE ClusterNext
  <2>1. UNCHANGED <<queue, listed, cache>>
    BY <1>2 DEF ClusterNext, PodChanges, Warn
  <2>2. CASE \E p \in Pods : PodChanges(p)
    <3>1. PICK p \in Pods, to \in Troubles \cup {"healthy", "gone"} : pod' = [pod EXCEPT ![p] = to] /\ event' = event
      BY <2>2 DEF PodChanges
    <3>2. to \in PodStates /\ to # "absent"
      BY NotTrouble DEF PodStates
    <3>3. pod' \in [Pods -> PodStates] /\ \A q \in Pods : pod[q] # "absent" => pod'[q] # "absent"
      BY <3>1, <3>2 DEF FeedTypeOK
    <3> QED BY <2>1, <3>1, <3>3 DEF FeedTypeOK
  <2>3. CASE \E s \in Subjects : Warn(s)
    BY <2>1, <2>3 DEF FeedTypeOK, Warn
  <2> QED BY <1>2, <2>2, <2>3 DEF ClusterNext
<1>3. CASE List("pod")
  <2>1. UNCHANGED <<pod, event>>
    BY <1>3 DEF List
  <2>2. \A j \in DOMAIN queue'["pod"] : queue'["pod"][j] \in PodNames
    BY <1>3, ListPodIs, NotTrouble DEF FeedTypeOK, PodNames, PodStates, Present
  <2>3. queue'["pod"] \in Seq(PodNames)
    BY <1>3, <2>2, ListPodIs, NotTrouble, SeqWithin
  <2> QED BY <1>3, <2>1, <2>3, ListPodIs, NotTrouble DEF FeedTypeOK
<1>4. CASE List("event")
  <2>1. UNCHANGED <<pod, event>>
    BY <1>4 DEF List
  <2> QED BY <1>4, <2>1, ListEventIs, NotTrouble DEF FeedTypeOK
<1>5. CASE \E p \in Pods : WatchPod(p)
  <2>1. PICK p \in Pods : WatchPod(p)
    BY <1>5
  <2>2. UNCHANGED <<pod, event, listed>>
    BY <2>1 DEF WatchPod
  <2>3. /\ queue' \in [Informers -> Seq(Names)] /\ pod[p] # "absent"
        /\ cache' \in [pod : [Pods -> PodStates], event : [Subjects -> 0 .. 2]]
        /\ \A q \in Pods : q # p => cache'.pod[q] = cache.pod[q]
    BY <2>1, WatchPodIs DEF FeedTypeOK
  <2>4. \A q \in Pods : cache'.pod[q] # "absent" => pod[q] # "absent"
    BY <2>3 DEF FeedTypeOK
  <2>5. queue'["pod"] \in Seq(PodNames)
    <3>1. ASSUME NEW n \in Names, n.of = p, n.is = pod[p], n.kind = "delete" <=> n.is = "gone"
          PROVE  Append(queue["pod"], n) \in Seq(PodNames)
      <4>1. n \in PodNames
        BY <3>1, NotTrouble DEF PodNames, FeedTypeOK, PodStates
      <4> QED BY <4>1 DEF FeedTypeOK
    <3>2. UNCHANGED queue \/ \E n \in Names :
            n.of = p /\ n.is = pod[p] /\ (n.kind = "delete" <=> n.is = "gone")
            /\ queue'["pod"] = Append(queue["pod"], n)
      BY <2>1, WatchPodIs
    <3> QED BY <3>1, <3>2 DEF FeedTypeOK
  <2> QED BY <2>2, <2>3, <2>4, <2>5 DEF FeedTypeOK
<1>6. CASE \E s \in Subjects : WatchEvent(s)
  <2>1. PICK s \in Subjects : WatchEvent(s)
    BY <1>6
  <2>2. UNCHANGED <<pod, event, listed>>
    BY <2>1 DEF WatchEvent
  <2> QED BY <2>1, <2>2, WatchEventIs DEF FeedTypeOK
<1>7. CASE PodRecovers \/ PodArises \/ PodSeeds \/ PodDeleted \/ EventArises \/ EventSeeds \/ EventExpires
  <2>1. UNCHANGED <<pod, event, listed, cache>> /\ (Take("pod") \/ Take("event"))
    BY <1>7 DEF PodRecovers, PodArises, PodSeeds, PodDeleted, EventArises, EventSeeds, EventExpires
  <2>2. queue' \in [Informers -> Seq(Names)]
        /\ (queue'["pod"] = queue["pod"] \/ (queue["pod"] # <<>> /\ queue'["pod"] = Tail(queue["pod"])))
    BY <2>1, TakeIs, NotTrouble
  <2>3. queue'["pod"] \in Seq(PodNames)
    <3>1. queue["pod"] # <<>> => Tail(queue["pod"]) \in Seq(PodNames)
      BY DEF FeedTypeOK
    <3> QED BY <2>2, <3>1 DEF FeedTypeOK
  <2> QED BY <2>1, <2>2, <2>3 DEF FeedTypeOK
<1>8. CASE \E i \in Informers : Abandon(i)
  <2>1. PICK i \in Informers : queue' = [queue EXCEPT ![i] = <<>>] /\ UNCHANGED <<pod, event, listed, cache>>
    BY <1>8 DEF Abandon
  <2>2. <<>> \in Seq(Names) /\ <<>> \in Seq(PodNames)
    OBVIOUS
  <2>3. queue' \in [Informers -> Seq(Names)] /\ queue'["pod"] \in Seq(PodNames)
    BY <2>1, <2>2, NotTrouble DEF FeedTypeOK
  <2> QED BY <2>1, <2>3 DEF FeedTypeOK
<1>9. CASE \/ EngineNext \/ CheckPod \/ Corroborated \/ Timer \/ UNCHANGED vars
           \/ \E i \in Informers : Publish(i)
  <2>1. UNCHANGED <<pod, event, listed, cache, queue>>
    BY <1>9 DEF EngineNext, Start, Retry, Begin, Recommend, Finish, CheckPod, Corroborated, Timer,
       vars, Publish
  <2> QED BY <2>1 DEF FeedTypeOK
<1> QED BY <1>1, <1>2, <1>3, <1>4, <1>5, <1>6, <1>7, <1>8, <1>9, NotTrouble DEF Next, Deliver

(***************************************************************************)
(* From the handlers to the debouncer.                                     *)
(***************************************************************************)
(* Informer i has decided an arise, or a resolution, and not published it. *)
Arising(i, k)   == \E j \in DOMAIN out[i] : out[i][j].key = k /\ ~out[i][j].resolved
Resolving(i, k) == \E j \in DOMAIN out[i] : out[i][j].key = k /\ out[i][j].resolved

(* An arise is decided alone, of a Pod by one handler and of an Event by the
   other; no Event is taken while a pod is looked up. *)
HandsOK ==
  /\ out \in [Informers -> Seq(Narrations)]
  /\ \A i \in Informers, k \in Keys : Arising(i, k) => Len(out[i]) = 1
  /\ \A k \in PodKeys : ~Arising("event", k) /\ ~Resolving("event", k)
  /\ \A k \in Keys \ PodKeys : ~Arising("pod", k)
  /\ check \in [pod : Pods \cup {None}, healthy : BOOLEAN]
  /\ check.healthy => check.pod \in Pods /\ out["event"] = <<>>

LEMMA KeysAre ==
  /\ IsFiniteSet(Keys) /\ PodKeys \subseteq Keys
  /\ \A p \in Pods, t \in Troubles : <<p, t>> \in PodKeys
  /\ \A s \in Subjects : <<s, Warning>> \in Keys \ PodKeys
  /\ \A k \in Keys \ PodKeys : k[1] \in Subjects /\ k[2] = Warning /\ k = <<k[1], Warning>>
  /\ \A k \in PodKeys : k[1] \in Pods /\ k[2] \in Troubles /\ k = <<k[1], k[2]>>
  /\ Pods \subseteq Subjects /\ Owner \in Subjects
<1>1. IsFiniteSet(Keys)
  <2>1. IsFiniteSet(Pods) /\ IsFiniteSet(Troubles) /\ IsFiniteSet(Subjects) /\ IsFiniteSet({Warning})
    BY ObserverAssumption, FS_AddElement, FS_Singleton DEF Subjects
  <2>2. IsFiniteSet(Pods \X Troubles) /\ IsFiniteSet(Subjects \X {Warning})
    BY <2>1, FS_Product
  <2> QED BY <2>2, FS_Union DEF Keys
<1> QED BY <1>1, NotTrouble DEF Keys, PodKeys, Subjects

LEMMA NothingOut ==
  ASSUME NEW i \in Informers, out[i] = <<>>, NEW k
  PROVE  ~Arising(i, k) /\ ~Resolving(i, k)
BY DEF Arising, Resolving

(* Decide: what a handler has to say, of each condition once. *)
LEMMA DecideIs ==
  ASSUME out \in [Informers -> Seq(Narrations)], NEW i \in Informers, NEW K \in SUBSET Keys,
         NEW b \in BOOLEAN, out' = [out EXCEPT ![i] = SetToSeq(Says(K, b))]
  PROVE  /\ out' \in [Informers -> Seq(Narrations)]
         /\ \A h \in Informers : h # i => out'[h] = out[h]
         /\ \A k : Arising(i, k)' <=> k \in K /\ ~b
         /\ \A k : Resolving(i, k)' <=> k \in K /\ b
         /\ \A k : K = {k} => Len(out'[i]) = 1
<1> DEFINE S == Says(K, b)
           s == SetToSeq(S)
           f == [k \in K |-> [key |-> k, resolved |-> b]]
<1>1. S = {f[k] : k \in K} /\ K = DOMAIN f
  BY DEF Says
<1>2. IsFiniteSet(K)
  BY KeysAre, FS_Subset
<1>3. IsFiniteSet(S)
  <2> HIDE DEF S, f
  <2> QED BY <1>1, <1>2, ListedSet
<1>4. S \subseteq Narrations /\ \A n \in S : n.key \in K /\ n.resolved = b /\ n = f[n.key]
  BY DEF Says, Narrations
<1>5. \A k \in K : f[k] \in S /\ f[k].key = k /\ f[k].resolved = b
  BY <1>1
<1> HIDE DEF S, f
<1>6. /\ s \in Seq(S) /\ \A x \in S : \E j \in DOMAIN s : s[j] = x
      /\ \A u, v \in DOMAIN s : s[u] = s[v] => u = v
  BY <1>3, Listed
<1>7. out' = [out EXCEPT ![i] = s]
  BY DEF S
<1> HIDE DEF s
<1>8. s \in Seq(Narrations) /\ \A j \in DOMAIN s : s[j] \in S
  BY <1>4, <1>6
<1>9. out' \in [Informers -> Seq(Narrations)] /\ out'[i] = s /\ \A h \in Informers : h # i => out'[h] = out[h]
  BY <1>7, <1>8
<1>10. ASSUME NEW k, NEW j \in DOMAIN s, s[j].key = k PROVE k \in K /\ s[j].resolved = b
  BY <1>4, <1>8, <1>10
<1>11. ASSUME NEW k \in K PROVE \E j \in DOMAIN s : s[j].key = k /\ s[j].resolved = b
  <2>1. PICK j \in DOMAIN s : s[j] = f[k]
    BY <1>5, <1>6
  <2> QED BY <1>5, <2>1
<1>12. \A k : Arising(i, k)' <=> k \in K /\ ~b
  <2>1. ASSUME NEW k, Arising(i, k)' PROVE k \in K /\ ~b
    <3>1. PICK j \in DOMAIN s : s[j].key = k /\ ~s[j].resolved
      BY <1>9, <2>1 DEF Arising
    <3> QED BY <1>10, <3>1
  <2>2. ASSUME NEW k, k \in K, ~b PROVE Arising(i, k)'
    <3>1. PICK j \in DOMAIN s : s[j].key = k /\ s[j].resolved = b
      BY <1>11, <2>2
    <3> QED BY <1>9, <2>2, <3>1 DEF Arising
  <2> QED BY <2>1, <2>2
<1>13. \A k : Resolving(i, k)' <=> k \in K /\ b
  <2>1. ASSUME NEW k, Resolving(i, k)' PROVE k \in K /\ b
    <3>1. PICK j \in DOMAIN s : s[j].key = k /\ s[j].resolved
      BY <1>9, <2>1 DEF Resolving
    <3> QED BY <1>10, <3>1
  <2>2. ASSUME NEW k, k \in K, b PROVE Resolving(i, k)'
    <3>1. PICK j \in DOMAIN s : s[j].key = k /\ s[j].resolved = b
      BY <1>11, <2>2
    <3> QED BY <1>9, <2>2, <3>1 DEF Resolving
  <2> QED BY <2>1, <2>2
<1>14. ASSUME NEW k, K = {k} PROVE Len(s) = 1
  <2>1. \A u, v \in DOMAIN s : u = v
    BY <1>4, <1>6, <1>8, <1>14
  <2>2. Len(s) \in Nat /\ DOMAIN s = 1 .. Len(s)
    BY <1>8
  <2>3. \E j \in DOMAIN s : TRUE
    BY <1>11, <1>14
  <2>4. 1 \in DOMAIN s /\ (Len(s) # 1 => 2 \in DOMAIN s)
    BY <2>2, <2>3
  <2> QED BY <2>1, <2>4
<1> QED BY <1>9, <1>12, <1>13, <1>14

(* Publish: an arise was the only one; a resolution leaves the others. *)
LEMMA PublishIs ==
  ASSUME HandsOK, NEW i \in Informers, Publish(i)
  PROVE  \E k \in Keys :
           /\ out' \in [Informers -> Seq(Narrations)]
           /\ \A h \in Informers : h # i => out'[h] = out[h]
           /\ \A j : j # k => (Resolving(i, j)' <=> Resolving(i, j))
           /\ \A j : ~Arising(i, j)'
           /\ \A j : Resolving(i, j)' => Resolving(i, j)
           /\ \/ /\ Submit(k, TRUE, FALSE, Shown) /\ Resolving(i, k)
                 /\ \A j : ~Arising(i, j)
              \/ /\ Submit(k, FALSE, FALSE, Shown) /\ Arising(i, k)
                 /\ \A j : j # k => ~Arising(i, j)
                 /\ \A j : ~Resolving(i, j) /\ ~Resolving(i, j)'
<1> DEFINE s == out[i]
<1>1. s \in Seq(Narrations) /\ s # <<>> /\ out' = [out EXCEPT ![i] = Tail(s)]
      /\ out \in [Informers -> Seq(Narrations)]
  BY DEF HandsOK, Publish
<1>2. PICK k \in Keys, b \in BOOLEAN : k = Head(s).key /\ b = Head(s).resolved
  <2>1. Head(s) \in Narrations
    BY <1>1
  <2> QED BY <2>1 DEF Narrations
<1>3. Submit(k, b, FALSE, Shown)
  BY <1>2 DEF Publish, Submit, Emit, Supersedes
<1>4. /\ Tail(s) \in Seq(Narrations) /\ s[1].key = k /\ s[1].resolved = b /\ 1 \in DOMAIN s
      /\ \A j \in DOMAIN Tail(s) : j + 1 \in DOMAIN s /\ Tail(s)[j] = s[j + 1]
      /\ \A j \in DOMAIN s : j # 1 => j - 1 \in DOMAIN Tail(s) /\ Tail(s)[j - 1] = s[j]
  BY <1>1, <1>2, TailIs
<1>5. out' \in [Informers -> Seq(Narrations)] /\ out'[i] = Tail(s) /\ \A h \in Informers : h # i => out'[h] = out[h]
  BY <1>1, <1>4
<1>6. \A j : Resolving(i, j)' => Resolving(i, j)
  BY <1>4, <1>5 DEF Resolving
<1>7. ASSUME NEW j, j # k, Resolving(i, j) PROVE Resolving(i, j)'
  <2>1. PICK u \in DOMAIN s : s[u].key = j /\ s[u].resolved
    BY <1>7 DEF Resolving
  <2>2. u # 1
    BY <1>4, <1>7, <2>1
  <2>3. u - 1 \in DOMAIN out'[i] /\ out'[i][u - 1] = s[u]
    BY <1>4, <1>5, <2>2
  <2> QED BY <2>1, <2>3 DEF Resolving
<1>8. ASSUME NEW j \in Keys, Arising(i, j) PROVE j = k /\ ~b /\ Tail(s) = <<>>
  <2>1. Len(s) = 1
    BY <1>8 DEF HandsOK
  <2>2. DOMAIN s = {1} /\ Tail(s) = <<>>
    BY <1>1, <2>1
  <2> QED BY <1>4, <1>8, <2>2 DEF Arising
<1>9. \A j : Arising(i, j) => j \in Keys
  <2>1. \A u \in DOMAIN s : s[u] \in Narrations
    BY <1>1
  <2> QED BY <2>1 DEF Arising, Narrations
<1>10. ASSUME NEW j PROVE ~Arising(i, j)'
  <2>1. SUFFICES ASSUME Arising(i, j)' PROVE FALSE
    OBVIOUS
  <2>2. Arising(i, j)
    BY <1>4, <1>5, <2>1 DEF Arising
  <2>3. out'[i] = <<>>
    BY <1>5, <1>8, <1>9, <2>2
  <2> QED BY <2>1, <2>3 DEF Arising
<1>11. CASE b
  <2>1. Submit(k, TRUE, FALSE, Shown)
    BY <1>3, <1>11 DEF Submit, Emit, Supersedes
  <2>2. Resolving(i, k)
    BY <1>4, <1>11 DEF Resolving
  <2>3. \A j : ~Arising(i, j)
    BY <1>8, <1>9, <1>11
  <2> QED BY <1>5, <1>6, <1>7, <1>10, <2>1, <2>2, <2>3
<1>12. CASE ~b
  <2>1. Submit(k, FALSE, FALSE, Shown)
    BY <1>3, <1>12 DEF Submit, Emit, Supersedes
  <2>2. Arising(i, k)
    BY <1>4, <1>12 DEF Arising
  <2>3. \A j : j # k => ~Arising(i, j)
    BY <1>8, <1>9
  <2>4. Tail(s) = <<>> /\ Len(s) = 1
    BY <1>8, <2>2 DEF HandsOK
  <2>5. DOMAIN s = {1} /\ DOMAIN Tail(s) = {}
    BY <1>1, <2>4
  <2>6. \A j : ~Resolving(i, j) /\ ~Resolving(i, j)'
    BY <1>4, <1>5, <1>12, <2>5 DEF Resolving
  <2> QED BY <1>5, <1>6, <1>7, <1>10, <2>1, <2>2, <2>3, <2>6
<1> QED BY <1>11, <1>12

LEMMA DecideHands ==
  ASSUME HandsOK, NEW i \in Informers, NEW K \in SUBSET Keys, NEW b \in BOOLEAN,
         out' = [out EXCEPT ![i] = SetToSeq(Says(K, b))],
         ~b => \E k \in K : K = {k} /\ (i = "pod" => k \in PodKeys),
         i = "event" => \A k \in K : k \notin PodKeys,
         check' \in [pod : Pods \cup {None}, healthy : BOOLEAN],
         check'.healthy => i = "pod" /\ check' = check
  PROVE  HandsOK'
<1>1. out \in [Informers -> Seq(Narrations)]
  BY DEF HandsOK
<1>2. /\ out' \in [Informers -> Seq(Narrations)]
      /\ \A h \in Informers : h # i => out'[h] = out[h]
      /\ \A k : Arising(i, k)' <=> k \in K /\ ~b
      /\ \A k : Resolving(i, k)' <=> k \in K /\ b
      /\ \A k : K = {k} => Len(out'[i]) = 1
  BY <1>1, DecideIs
<1>3. \A h \in Informers : h # i => \A k : (Arising(h, k)' <=> Arising(h, k)) /\ (Resolving(h, k)' <=> Resolving(h, k))
  BY <1>2 DEF Arising, Resolving
<1>4. ASSUME NEW h \in Informers, NEW k \in Keys, Arising(h, k)' PROVE Len(out'[h]) = 1
  <2>1. CASE h = i
    BY <1>2, <1>4, <2>1
  <2>2. CASE h # i
    BY <1>2, <1>3, <1>4, <2>2 DEF HandsOK
  <2> QED BY <2>1, <2>2
<1>5. ASSUME NEW k \in PodKeys PROVE ~Arising("event", k)' /\ ~Resolving("event", k)'
  <2>1. CASE i = "event"
    BY <1>2, <2>1
  <2>2. CASE i # "event"
    BY <1>3, <2>2, NotTrouble DEF HandsOK
  <2> QED BY <2>1, <2>2
<1>6. ASSUME NEW k \in Keys \ PodKeys PROVE ~Arising("pod", k)'
  <2>1. CASE i = "pod"
    BY <1>2, <2>1
  <2>2. CASE i # "pod"
    BY <1>3, <2>2, NotTrouble DEF HandsOK
  <2> QED BY <2>1, <2>2
<1>7. check'.healthy => check'.pod \in Pods /\ out'["event"] = <<>>
  BY <1>2, NotTrouble DEF HandsOK
<1> QED BY <1>2, <1>4, <1>5, <1>6, <1>7 DEF HandsOK

(* What the handlers decide. *)
LEMMA PodRecoversIs ==
  ASSUME IInv, FeedTypeOK, HandsOK, PodRecovers
  PROVE  \E p \in Pods, K \in SUBSET Keys :
           /\ Taken("pod").of = p /\ Taken("pod").is = "healthy"
           /\ out["pod"] = <<>>
           /\ K = Recovery(p)
           /\ watching =>
                /\ out' = [out EXCEPT !["pod"] = SetToSeq(Says(K, TRUE))]
                /\ seen' = [k \in Keys |-> IF k \in K THEN "no" ELSE seen[k]]
                /\ gaps' = gaps \cup Overtaken(K)
           /\ ~watching => UNCHANGED <<out, seen, gaps>>
<1>1. Taken("pod") \in PodNames /\ out["pod"] = <<>> /\ Taken("pod").is = "healthy"
  <2>1. queue["pod"] # <<>> /\ out["pod"] = <<>> /\ queue["pod"] \in Seq(PodNames)
    BY DEF PodRecovers, Take, FeedTypeOK
  <2> QED BY <2>1 DEF Taken, PodRecovers
<1>2. PICK p \in Pods : p = Taken("pod").of
  BY <1>1 DEF PodNames
<1>3. PICK K \in SUBSET Keys : K = Recovery(p)
  BY <1>2, KeysAre DEF Recovery, Remembered, About, Keys, Subjects
<1> QED BY <1>1, <1>2, <1>3 DEF PodRecovers, Live, Decide, IInv

LEMMA PodTaken ==
  ASSUME FeedTypeOK, Take("pod")
  PROVE  Taken("pod") \in PodNames /\ out["pod"] = <<>>
<1>1. queue["pod"] # <<>> /\ out["pod"] = <<>> /\ queue["pod"] \in Seq(PodNames)
  BY DEF Take, FeedTypeOK
<1> QED BY <1>1 DEF Taken

LEMMA PodArisesIs ==
  ASSUME IInv, FeedTypeOK, PodArises
  PROVE  \E p \in Pods, t \in Troubles : LET k == <<p, t>> IN
           /\ Taken("pod").of = p /\ Taken("pod").is = t /\ out["pod"] = <<>>
           /\ watching /\ seen[k] = "no" =>
                /\ out' = [out EXCEPT !["pod"] = SetToSeq(Says({k}, FALSE))]
                /\ seen' = [seen EXCEPT ![k] = "narrated"]
           /\ ~(watching /\ seen[k] = "no") => UNCHANGED <<out, seen>>
           /\ UNCHANGED <<gaps, check>>
<1>1. Taken("pod") \in PodNames /\ out["pod"] = <<>> /\ Taken("pod").is \in Troubles
  BY PodTaken DEF PodArises
<1>2. PICK p \in Pods, t \in Troubles : p = Taken("pod").of /\ t = Taken("pod").is
  BY <1>1 DEF PodNames
<1> QED BY <1>1, <1>2 DEF PodArises, Live, Decide

LEMMA PodSeedsIs ==
  ASSUME IInv, FeedTypeOK, PodSeeds
  PROVE  /\ Taken("pod").kind = "initial" /\ Taken("pod").of \in Pods /\ ~torn
         /\ UNCHANGED <<out, check, gaps>>
         /\ \/ UNCHANGED seen /\ (watching => Taken("pod").is \notin Troubles)
            \/ \E t \in Troubles : t = Taken("pod").is
                 /\ seen' = [seen EXCEPT ![<<Taken("pod").of, t>>] = "seeded"]
<1>1. Taken("pod") \in PodNames /\ Taken("pod").kind = "initial" /\ ~torn
  BY PodTaken DEF PodSeeds, isRestart
<1>2. Taken("pod").of \in Pods
  BY <1>1 DEF PodNames
<1>3. UNCHANGED <<out, check, gaps>>
  BY DEF PodSeeds, hands
<1>4. CASE watching /\ Taken("pod").is \in Troubles
  <2>1. PICK t \in Troubles : t = Taken("pod").is
    BY <1>4
  <2>2. <<Taken("pod").of, t>> \in PodKeys
    BY <1>2, KeysAre
  <2>3. seen' = [seen EXCEPT ![<<Taken("pod").of, t>>] = "seeded"]
    BY <1>4, <2>1, <2>2 DEF PodSeeds, Live
  <2> QED BY <1>1, <1>2, <1>3, <2>1, <2>3
<1>5. CASE watching /\ Taken("pod").is \notin Troubles
  <2>1. <<Taken("pod").of, Taken("pod").is>> \notin PodKeys
    BY <1>5 DEF PodKeys
  <2> QED BY <1>1, <1>2, <1>3, <1>5, <2>1 DEF PodSeeds
<1>6. CASE ~watching
  BY <1>1, <1>2, <1>3, <1>6 DEF PodSeeds, Live
<1> QED BY <1>1, <1>2, <1>3, <1>4, <1>5, <1>6

LEMMA PodDeletedIs ==
  ASSUME IInv, FeedTypeOK, PodDeleted
  PROVE  \E p \in Pods, all \in SUBSET Keys, K \in SUBSET Keys :
           /\ Taken("pod").of = p /\ Taken("pod").is = "gone" /\ out["pod"] = <<>>
           /\ all = About(p) \cup {<<p, Warning>>} /\ K = Narrated(all)
           /\ out' = [out EXCEPT !["pod"] = SetToSeq(Says(K, TRUE))]
           /\ seen' = [k \in Keys |-> IF k \in all THEN "no" ELSE seen[k]]
           /\ gaps' = gaps \cup Overtaken(all) /\ UNCHANGED check
<1>1. Taken("pod") \in PodNames /\ out["pod"] = <<>> /\ Taken("pod").kind = "delete"
  BY PodTaken DEF PodDeleted
<1>2. PICK p \in Pods : p = Taken("pod").of
  BY <1>1 DEF PodNames
<1>a. PICK all \in SUBSET Keys : all = About(p) \cup {<<p, Warning>>}
  <2>1. About(p) \subseteq PodKeys /\ PodKeys \subseteq Keys
    BY <1>2, KeysAre DEF About, PodKeys
  <2>2. <<p, Warning>> \in Keys
    BY KeysAre
  <2> QED BY <2>1, <2>2
<1>b. PICK K \in SUBSET Keys : K = Narrated(all)
  BY DEF Narrated
<1>4. Taken("pod").is = "gone"
  BY <1>1 DEF PodNames
<1> QED BY <1>1, <1>2, <1>4, <1>a, <1>b DEF PodDeleted, Decide

LEMMA EventTaken ==
  ASSUME FeedTypeOK, Take("event")
  PROVE  /\ Taken("event").of \in Subjects /\ out["event"] = <<>>
         /\ Warned = <<Taken("event").of, Warning>> /\ Warned \in Keys \ PodKeys
<1>1. queue["event"] # <<>> /\ out["event"] = <<>> /\ queue["event"] \in Seq(Names)
  BY NotTrouble DEF Take, FeedTypeOK
<1>2. Taken("event") \in Names
  BY <1>1 DEF Taken
<1> QED BY <1>1, <1>2, KeysAre DEF Names, Warned

LEMMA EventArisesIs ==
  ASSUME IInv, FeedTypeOK, EventArises
  PROVE  \E s \in Subjects : LET k == <<s, Warning>> IN
           /\ Taken("event").of = s /\ out["event"] = <<>> /\ check.pod = None
           /\ watching /\ seen[k] = "no" =>
                /\ out' = [out EXCEPT !["event"] = SetToSeq(Says({k}, FALSE))]
                /\ seen' = [seen EXCEPT ![k] = "narrated"]
                /\ check' = IF s \in Pods THEN [pod |-> s, healthy |-> FALSE] ELSE check
           /\ ~(watching /\ seen[k] = "no") => UNCHANGED <<out, seen, check>>
           /\ UNCHANGED gaps
<1>1. /\ Taken("event").of \in Subjects /\ out["event"] = <<>>
      /\ Warned = <<Taken("event").of, Warning>>
  BY EventTaken DEF EventArises
<1>2. PICK s \in Subjects : s = Taken("event").of
  BY <1>1
<1>3. Warned = <<s, Warning>>
  BY <1>1, <1>2
<1> QED BY <1>1, <1>2, <1>3 DEF EventArises, Live, Decide

LEMMA CorroboratedIs ==
  ASSUME IInv, HandsOK, Corroborated
  PROVE  \E p \in Pods, K \in SUBSET Keys : LET k == <<p, Warning>> IN
           /\ check.pod = p /\ out["event"] = <<>> /\ K = Remembered({k})
           /\ out' = [out EXCEPT !["event"] = SetToSeq(Says(K, TRUE))]
           /\ seen' = [seen EXCEPT ![k] = "no"]
           /\ check' = [pod |-> None, healthy |-> FALSE]
           /\ UNCHANGED gaps
<1>1. check.pod \in Pods /\ out["event"] = <<>>
  BY DEF Corroborated, HandsOK
<1>2. PICK p \in Pods : p = check.pod
  BY <1>1
<1>3. PICK K \in SUBSET Keys : K = Remembered({<<p, Warning>>})
  BY KeysAre DEF Remembered
<1> QED BY <1>1, <1>2, <1>3 DEF Corroborated, Decide

LEMMA NextHands == ASSUME IInv, FeedTypeOK, HandsOK, [Next]_vars PROVE HandsOK'
<1> USE DEF engine, cluster, scoped, feed, hands, bounce
<1>0. check \in [pod : Pods \cup {None}, healthy : BOOLEAN] /\ out \in [Informers -> Seq(Narrations)]
  BY DEF HandsOK
<1>1. ASSUME UNCHANGED <<out, check>> PROVE HandsOK'
  BY <1>1 DEF HandsOK, Arising, Resolving
<1>2. CASE PodRecovers
  <2>1. PICK p \in Pods, K \in SUBSET Keys :
          /\ watching => out' = [out EXCEPT !["pod"] = SetToSeq(Says(K, TRUE))]
          /\ ~watching => UNCHANGED out
    BY <1>2, PodRecoversIs
  <2>2. UNCHANGED check
    BY <1>2 DEF PodRecovers
  <2>3. CASE watching
    <3>1. PICK b \in BOOLEAN : b /\ out' = [out EXCEPT !["pod"] = SetToSeq(Says(K, b))]
      BY <2>1, <2>3
    <3> QED BY <1>0, <2>2, <3>1, DecideHands, NotTrouble
  <2> QED BY <1>1, <2>1, <2>2, <2>3
<1>3. CASE PodArises
  <2>1. PICK k \in PodKeys :
          \/ out' = [out EXCEPT !["pod"] = SetToSeq(Says({k}, FALSE))]
          \/ UNCHANGED out
    BY <1>3, PodArisesIs, KeysAre
  <2>2. UNCHANGED check
    BY <1>3 DEF PodArises
  <2>3. CASE out' = [out EXCEPT !["pod"] = SetToSeq(Says({k}, FALSE))]
    <3>1. PICK b \in BOOLEAN, K \in SUBSET Keys :
            K = {k} /\ ~b /\ out' = [out EXCEPT !["pod"] = SetToSeq(Says(K, b))]
      BY <2>3, KeysAre
    <3> QED BY <1>0, <2>2, <3>1, DecideHands, NotTrouble
  <2> QED BY <1>1, <2>1, <2>2, <2>3
<1>4. CASE PodDeleted
  <2>1. PICK K \in SUBSET Keys : out' = [out EXCEPT !["pod"] = SetToSeq(Says(K, TRUE))] /\ UNCHANGED check
    BY <1>4, PodDeletedIs
  <2>2. PICK b \in BOOLEAN : b /\ out' = [out EXCEPT !["pod"] = SetToSeq(Says(K, b))]
    BY <2>1
  <2> QED BY <1>0, <2>1, <2>2, DecideHands, NotTrouble
<1>5. CASE EventArises
  <2>1. PICK s \in Subjects :
          /\ check.pod = None
          /\ \/ /\ out' = [out EXCEPT !["event"] = SetToSeq(Says({<<s, Warning>>}, FALSE))]
                /\ check' = IF s \in Pods THEN [pod |-> s, healthy |-> FALSE] ELSE check
             \/ UNCHANGED <<out, check>>
    BY <1>5, EventArisesIs
  <2>2. ~check.healthy
    BY <2>1, NotTrouble DEF HandsOK
  <2>3. CASE ~(UNCHANGED <<out, check>>)
    <3>1. PICK b \in BOOLEAN, K \in SUBSET Keys :
            K = {<<s, Warning>>} /\ ~b /\ out' = [out EXCEPT !["event"] = SetToSeq(Says(K, b))]
      BY <2>1, <2>3, KeysAre
    <3>2. check' \in [pod : Pods \cup {None}, healthy : BOOLEAN] /\ ~check'.healthy
      <4>1. CASE s \in Pods
        <5>1. check' = [pod |-> s, healthy |-> FALSE]
          BY <2>1, <2>3, <4>1
        <5> QED BY <4>1, <5>1
      <4>2. CASE s \notin Pods
        BY <1>0, <2>1, <2>2, <2>3, <4>2
      <4> QED BY <4>1, <4>2
    <3>3. <<s, Warning>> \notin PodKeys /\ <<s, Warning>> \in K
      BY <3>1, KeysAre
    <3>4. \E k \in K : K = {k}
      BY <3>1, <3>3
    <3>5. \A k \in K : k \notin PodKeys
      BY <3>1, <3>3
    <3> QED BY <3>1, <3>2, <3>4, <3>5, DecideHands, NotTrouble
  <2> QED BY <1>1, <2>3
<1>6. CASE Corroborated
  <2>1. PICK p \in Pods, K \in SUBSET Keys :
          /\ K = Remembered({<<p, Warning>>})
          /\ out' = [out EXCEPT !["event"] = SetToSeq(Says(K, TRUE))]
          /\ check' = [pod |-> None, healthy |-> FALSE]
    BY <1>6, CorroboratedIs
  <2>2. PICK b \in BOOLEAN : b /\ out' = [out EXCEPT !["event"] = SetToSeq(Says(K, b))]
    BY <2>1
  <2>3. \A k \in K : k \notin PodKeys
    BY <2>1, KeysAre DEF Remembered
  <2>4. check' \in [pod : Pods \cup {None}, healthy : BOOLEAN] /\ ~check'.healthy
    BY <2>1
  <2> QED BY <2>2, <2>3, <2>4, DecideHands, NotTrouble
<1>7. CASE CheckPod
  <2>1. /\ check.pod # None /\ out["event"] = <<>> /\ UNCHANGED out
        /\ check' = [check EXCEPT !.healthy = TRUE] \/ check' = [pod |-> None, healthy |-> FALSE]
    BY <1>7 DEF CheckPod
  <2>2. check' \in [pod : Pods \cup {None}, healthy : BOOLEAN]
        /\ (check'.healthy => check'.pod \in Pods)
    <3>1. CASE check' = [check EXCEPT !.healthy = TRUE]
      <4>1. PICK p \in Pods : check.pod = p
        BY <1>0, <2>1
      <4>2. check' = [pod |-> p, healthy |-> TRUE]
        BY <1>0, <3>1, <4>1
      <4> QED BY <4>2
    <3>2. CASE check' = [pod |-> None, healthy |-> FALSE]
      BY <3>2
    <3> QED BY <2>1, <3>1, <3>2
  <2> QED BY <2>1, <2>2 DEF HandsOK, Arising, Resolving
<1>8. CASE \E i \in Informers : Publish(i)
  <2>1. PICK i \in Informers : Publish(i)
    BY <1>8
  <2>2. /\ out' \in [Informers -> Seq(Narrations)]
        /\ \A h \in Informers : h # i => out'[h] = out[h]
        /\ \A j : ~Arising(i, j)'
        /\ \A j : Resolving(i, j)' => Resolving(i, j)
    BY <2>1, PublishIs
  <2>3. UNCHANGED check /\ out[i] # <<>>
    BY <2>1 DEF Publish
  <2>4. \A h \in Informers : \A k : h # i => (Arising(h, k)' <=> Arising(h, k)) /\ (Resolving(h, k)' <=> Resolving(h, k))
    BY <2>2 DEF Arising, Resolving
  <2>5. \A h \in Informers, k \in Keys : Arising(h, k)' => Len(out'[h]) = 1
    BY <2>2, <2>4 DEF HandsOK
  <2>6. \A k \in PodKeys : ~Arising("event", k)' /\ ~Resolving("event", k)'
    BY <2>2, <2>4, NotTrouble DEF HandsOK
  <2>7. \A k \in Keys \ PodKeys : ~Arising("pod", k)'
    BY <2>2, <2>4, NotTrouble DEF HandsOK
  <2>8. check'.healthy => check'.pod \in Pods /\ out'["event"] = <<>>
    BY <2>2, <2>3, NotTrouble DEF HandsOK
  <2> QED BY <1>0, <2>2, <2>3, <2>5, <2>6, <2>7, <2>8 DEF HandsOK
<1>9. CASE \/ EngineNext \/ ClusterNext \/ Reconcile \/ Timer \/ UNCHANGED vars
           \/ PodSeeds \/ EventSeeds \/ EventExpires
           \/ \E i \in Informers : List(i) \/ Abandon(i)
           \/ \E p \in Pods : WatchPod(p)
           \/ \E s \in Subjects : WatchEvent(s)
  <2>1. UNCHANGED <<out, check>>
    BY <1>9 DEF EngineNext, Start, Retry, Begin, Recommend, Finish, ClusterNext, PodChanges, Warn,
       Reconcile, Timer, vars, PodSeeds, EventSeeds, EventExpires, List, Abandon, WatchPod, WatchEvent
  <2> QED BY <1>1, <2>1
<1> QED BY <1>2, <1>3, <1>4, <1>5, <1>6, <1>7, <1>8, <1>9 DEF Next, Deliver

LEMMA NextScope == ASSUME Patient, IInv, ScopeOK, HandsOK, [Next]_vars PROVE ScopeOK'
<1> USE DEF engine, cluster, scoped, feed, hands, bounce
<1>1. CASE Start \/ Retry
  BY <1>1, BeginScope
<1>2. CASE Recommend \/ Finish
  <2>1. /\ UNCHANGED <<run, attempt, watching, watchRun, torn, tornRun, first>>
        /\ UNCHANGED <<queue, out, check, pending, released, row>>
        /\ watching => recipe' = recipe
        /\ terminal' \in BOOLEAN /\ (~terminal' => ~terminal)
    BY <1>2 DEF Recommend, Finish, ScopeOK
  <2> QED BY <2>1 DEF ScopeOK, Untouched, Settled, Idle
<1>3. CASE Reconcile
  BY <1>3, ReconcileScope
<1>4. CASE ClusterNext \/ UNCHANGED vars
  <2>1. /\ UNCHANGED <<run, attempt, recipe, terminal, watching, watchRun, torn, tornRun, first>>
        /\ UNCHANGED <<queue, out, check, pending, released, row>>
    BY <1>4 DEF ClusterNext, PodChanges, Warn, vars
  <2> QED BY <2>1, BusyScope
<1>5. CASE Timer
  <2>1. UNCHANGED <<run, attempt, recipe, terminal, watching, watchRun, torn, tornRun, first>>
    BY <1>5 DEF Timer
  <2>2. ~Untouched
    BY <1>5, UntouchedIs DEF Timer, Release
  <2> QED BY <2>1, <2>2, BusyScope DEF ScopeOK
<1>6. CASE \E i \in Informers : List(i) \/ Publish(i) \/ Abandon(i)
  <2>1. UNCHANGED <<run, attempt, recipe, terminal, watching, watchRun, torn, tornRun, first>>
    BY <1>6 DEF List, Publish, Abandon
  <2>2. ~Untouched
    BY <1>6, UntouchedIs DEF List, Publish, Abandon
  <2> QED BY <2>1, <2>2, BusyScope DEF ScopeOK
<1>7. CASE (\E p \in Pods : WatchPod(p)) \/ (\E s \in Subjects : WatchEvent(s))
  <2>1. UNCHANGED <<run, attempt, recipe, terminal, watching, watchRun, torn, tornRun, first>> /\ watching
    BY <1>7 DEF WatchPod, WatchEvent
  <2> QED BY <2>1, BusyScope
<1>8. CASE PodRecovers \/ PodArises \/ PodSeeds \/ PodDeleted
  <2>1. UNCHANGED <<run, attempt, recipe, terminal, watching, watchRun, torn, tornRun, first>>
    BY <1>8 DEF PodRecovers, PodArises, PodSeeds, PodDeleted
  <2>2. ~Untouched
    BY <1>8, UntouchedIs DEF PodRecovers, PodArises, PodSeeds, PodDeleted, Take, Informers
  <2> QED BY <2>1, <2>2, BusyScope DEF ScopeOK
<1>9. CASE EventArises \/ EventSeeds \/ EventExpires \/ CheckPod \/ Corroborated
  <2>1. UNCHANGED <<run, attempt, recipe, terminal, watching, watchRun, torn, tornRun, first>>
    BY <1>9 DEF EventArises, EventSeeds, EventExpires, CheckPod, Corroborated
  <2>2. ~Untouched
    BY <1>9, UntouchedIs, NotTrouble
       DEF EventArises, EventSeeds, EventExpires, CheckPod, Corroborated, Take, HandsOK
  <2> QED BY <2>1, <2>2, BusyScope DEF ScopeOK
<1> QED BY <1>1, <1>2, <1>3, <1>4, <1>5, <1>6, <1>7, <1>8, <1>9 DEF Next, EngineNext, Deliver

(***************************************************************************)
(* The invariant of the rows.                                              *)
(***************************************************************************)
(* A condition of a pod that is narrated is on its way to its row or there; one
   that is not narrated has at most its resolution left to show. *)
PodWords(k) ==
  IF seen[k] = "narrated"
  THEN /\ ~Resolving("pod", k)
       /\ IF Arising("pod", k) THEN ~Waiting(k) /\ ~Late(k) ELSE Waiting(k) <=> ~Late(k)
  ELSE /\ ~Arising("pod", k) /\ ~(Waiting(k) /\ Late(k))
       /\ Waiting(k) \/ Late(k) => Resolving("pod", k)

SomeResolve(k) == Resolving("pod", k) \/ Resolving("event", k)
BothResolve(k) == Resolving("pod", k) /\ Resolving("event", k)

(* A Warning is resolved by either handler, so a resolution may meet the arise
   that comes after it: each takes back one of what waits and what is red. *)
WarningWords(k) ==
  /\ seen[k] # "narrated" => ~Arising("event", k) /\ (Waiting(k) /\ Late(k) => BothResolve(k))
  /\ seen[k] # "narrated" \/ Arising("event", k) => (Waiting(k) \/ Late(k) => SomeResolve(k))
  /\ Arising("event", k) => ~(Waiting(k) /\ Late(k))
  /\ Waiting(k) /\ Late(k) => SomeResolve(k)

WordsOK ==
  watching => /\ \A k \in PodKeys : PodWords(k)
              /\ gaps = {} => \A k \in Keys \ PodKeys : WarningWords(k)

(* What an informer has queued ends with what its cache has. *)
FeedOK ==
  /\ InitialFirst(queue["pod"]) /\ InitialFirst(queue["event"])
  /\ watching =>
       /\ LastIs(queue["pod"], cache.pod)
       /\ \A p \in Pods : cache.pod[p] = "absent" => ~Mentions(queue["pod"], p)
       /\ "pod" \notin listed => queue["pod"] = <<>> /\ \A p \in Pods : cache.pod[p] = "absent"
       /\ "event" \notin listed => queue["event"] = <<>>

(* What an initial list has of a pod is the first that is heard of it. *)
FirstHeard ==
  /\ \A j \in DOMAIN queue["pod"] : queue["pod"][j].kind = "initial" =>
       \A t \in Troubles : seen[<<queue["pod"][j].of, t>>] # "narrated"
  /\ \A j \in DOMAIN queue["event"] : queue["event"][j].kind = "initial" =>
       seen[<<queue["event"][j].of, Warning>>] # "narrated"
  /\ "event" \notin listed => \A s \in Subjects : seen[<<s, Warning>>] # "narrated"

(* What is remembered of a pod is true of it, or about to be corrected. *)
MemoryOK ==
  watching =>
    /\ FirstHeard
    /\ \A p \in Pods, t \in Troubles : seen[<<p, t>>] = "narrated" =>
         cache.pod[p] \in Troubles \/ Word(queue["pod"], p, {"healthy", "gone"})
    /\ \A p \in Pods : cache.pod[p] \in Troubles =>
         seen[<<p, cache.pod[p]>>] # "no" \/ Mentions(queue["pod"], p)
    /\ \A k \in Keys : seen[k] = "seeded" => ~torn

(* A Warning about a pod that is healthy is being checked, or its recovery has
   still to be told. *)
CheckOK ==
  watching /\ gaps = {} =>
    \A p \in Pods : seen[<<p, Warning>>] = "narrated" =>
      \/ check.pod = p
      \/ "pod" \in listed
         /\ (cache.pod[p] # "healthy" \/ Word(queue["pod"], p, {"healthy"}))

(***************************************************************************)
(* The words on their way.                                                 *)
(***************************************************************************)
(* What narrates nothing, and forgets nothing that is narrated. *)
LEMMA WordsKeep ==
  ASSUME WordsOK, UNCHANGED <<out, pending, released, row>>, watching' => watching,
         watching' => \A k \in PodKeys : seen'[k] = "narrated" <=> seen[k] = "narrated",
         watching' /\ gaps' = {} =>
           gaps = {} /\ \A k \in Keys \ PodKeys : seen'[k] = "narrated" <=> seen[k] = "narrated"
  PROVE  WordsOK'
<1>1. \A k : /\ Waiting(k)' <=> Waiting(k)
             /\ Late(k)' <=> Late(k)
             /\ \A i \in Informers : (Arising(i, k)' <=> Arising(i, k)) /\ (Resolving(i, k)' <=> Resolving(i, k))
  BY DEF Waiting, Late, Red, Arising, Resolving
<1>2. ASSUME watching', NEW k \in PodKeys PROVE PodWords(k)'
  BY <1>1, <1>2, NotTrouble DEF WordsOK, PodWords
<1>3. ASSUME watching', gaps' = {}, NEW k \in Keys \ PodKeys PROVE WarningWords(k)'
  BY <1>1, <1>3, NotTrouble DEF WordsOK, WarningWords, SomeResolve, BothResolve
<1> QED BY <1>2, <1>3 DEF WordsOK

(* A handler that is done with `all' resolves at least what is narrated of it. *)
LEMMA WordsResolve ==
  ASSUME WordsOK, HandsOK, watching, NEW i \in Informers, out[i] = <<>>,
         NEW all \in SUBSET Keys, NEW K \in SUBSET all, \A k \in all : seen[k] = "narrated" => k \in K,
         i = "event" => all \cap PodKeys = {},
         out' = [out EXCEPT ![i] = SetToSeq(Says(K, TRUE))],
         \A k \in Keys : seen'[k] = IF k \in all THEN "no" ELSE seen[k],
         gaps \cup Overtaken(all) \subseteq gaps',
         UNCHANGED <<pending, released, row, watching>>
  PROVE  WordsOK'
<1>1. \A k : /\ Waiting(k)' <=> Waiting(k)
             /\ Late(k)' <=> Late(k)
  BY DEF Waiting, Late, Red
<1>2. /\ \A h \in Informers : h # i => out'[h] = out[h]
      /\ \A k : ~Arising(i, k)'
      /\ \A k : Resolving(i, k)' <=> k \in K
  <2>1. PICK b \in BOOLEAN : b /\ out' = [out EXCEPT ![i] = SetToSeq(Says(K, b))]
    OBVIOUS
  <2>2. out \in [Informers -> Seq(Narrations)] /\ K \in SUBSET Keys
    BY DEF HandsOK
  <2> QED BY <2>1, <2>2, DecideIs
<1>3. \A k : ~Arising(i, k) /\ ~Resolving(i, k)
  BY NothingOut
<1>4. \A h \in Informers : \A k : h # i => (Arising(h, k)' <=> Arising(h, k)) /\ (Resolving(h, k)' <=> Resolving(h, k))
  BY <1>2 DEF Arising, Resolving
<1>5. ASSUME NEW k \in PodKeys PROVE PodWords(k)'
  <2>0. PodWords(k) /\ k \in Keys
    BY KeysAre DEF WordsOK
  <2>1. CASE k \in all
    <3>1. i = "pod"
      BY <2>1, NotTrouble
    <3>2. /\ seen'[k] = "no" /\ ~Arising("pod", k)' /\ (k \in K => Resolving("pod", k)')
          /\ ~Arising("pod", k) /\ ~Resolving("pod", k)
      BY <1>2, <1>3, <2>0, <2>1, <3>1
    <3> QED BY <1>1, <2>0, <2>1, <3>2 DEF PodWords
  <2>2. CASE k \notin all
    <3>1. seen'[k] = seen[k] /\ k \notin K
      BY <2>0, <2>2
    <3>2. (Arising("pod", k)' <=> Arising("pod", k)) /\ (Resolving("pod", k)' <=> Resolving("pod", k))
      BY <1>2, <1>3, <1>4, <3>1, NotTrouble
    <3> QED BY <1>1, <2>0, <3>1, <3>2 DEF PodWords
  <2> QED BY <2>1, <2>2
<1>6. ASSUME gaps' = {}, NEW k \in Keys \ PodKeys PROVE WarningWords(k)'
  <2>0. gaps = {} /\ Overtaken(all) = {}
    BY <1>6
  <2>1. WarningWords(k)
    BY <2>0 DEF WordsOK
  <2>2. CASE k \in all
    <3>1. ~Arising("event", k)
      BY <2>0, <2>2 DEF Overtaken, Arising
    <3>2. seen'[k] = "no" /\ ~Arising("event", k)'
      BY <1>2, <1>4, <2>2, <3>1, NotTrouble
    <3>3. CASE seen[k] = "narrated"
      <4>1. Resolving(i, k)' /\ ~Resolving(i, k) /\ ~BothResolve(k)
        BY <1>2, <1>3, <2>2, <3>3, NotTrouble DEF BothResolve
      <4>2. SomeResolve(k)' /\ (SomeResolve(k) => BothResolve(k)')
        BY <1>4, <4>1, NotTrouble DEF SomeResolve, BothResolve
      <4> QED BY <1>1, <2>1, <3>1, <3>2, <4>1, <4>2 DEF WarningWords
    <3>4. CASE seen[k] # "narrated"
      <4>1. ~BothResolve(k)
        BY <1>3, NotTrouble DEF BothResolve
      <4>2. SomeResolve(k) => SomeResolve(k)'
        BY <1>3, <1>4, NotTrouble DEF SomeResolve
      <4> QED BY <1>1, <2>1, <3>1, <3>2, <3>4, <4>1, <4>2 DEF WarningWords
    <3> QED BY <3>3, <3>4
  <2>3. CASE k \notin all
    <3>1. seen'[k] = seen[k] /\ k \notin K
      BY <2>3
    <3>2. \A h \in Informers : (Arising(h, k)' <=> Arising(h, k)) /\ (Resolving(h, k)' <=> Resolving(h, k))
      BY <1>2, <1>3, <1>4, <3>1
    <3> QED BY <1>1, <2>1, <3>1, <3>2, NotTrouble DEF WarningWords, SomeResolve, BothResolve
  <2> QED BY <2>2, <2>3
<1> QED BY <1>5, <1>6 DEF WordsOK

LEMMA ArisesAlone ==
  ASSUME out \in [Informers -> Seq(Narrations)], NEW i \in Informers, NEW k \in Keys,
         out' = [out EXCEPT ![i] = SetToSeq(Says({k}, FALSE))]
  PROVE  /\ \A h \in Informers : h # i => out'[h] = out[h]
         /\ \A j : Arising(i, j)' <=> j = k
         /\ \A j : ~Resolving(i, j)'
<1>1. PICK b \in BOOLEAN, K \in SUBSET Keys :
        ~b /\ K = {k} /\ out' = [out EXCEPT ![i] = SetToSeq(Says(K, b))]
  OBVIOUS
<1>2. /\ \A h \in Informers : h # i => out'[h] = out[h]
      /\ \A j : Arising(i, j)' <=> j \in K /\ ~b
      /\ \A j : Resolving(i, j)' <=> j \in K /\ b
  BY <1>1, DecideIs
<1> QED BY <1>1, <1>2

(* A handler narrates what it did not remember. *)
LEMMA WordsArise ==
  ASSUME WordsOK, HandsOK, watching, NEW i \in Informers, out[i] = <<>>,
         NEW k \in Keys, i = "pod" <=> k \in PodKeys, seen[k] = "no",
         out' = [out EXCEPT ![i] = SetToSeq(Says({k}, FALSE))],
         \A j \in Keys : seen'[j] = IF j = k THEN "narrated" ELSE seen[j],
         UNCHANGED <<pending, released, row, watching, gaps>>
  PROVE  WordsOK'
<1>1. \A j : /\ Waiting(j)' <=> Waiting(j)
             /\ Late(j)' <=> Late(j)
  BY DEF Waiting, Late, Red
<1>2. /\ \A h \in Informers : h # i => out'[h] = out[h]
      /\ \A j : Arising(i, j)' <=> j = k
      /\ \A j : ~Resolving(i, j)'
  <2>1. out \in [Informers -> Seq(Narrations)]
    BY DEF HandsOK
  <2> QED BY <2>1, ArisesAlone
<1>3. \A j : ~Arising(i, j) /\ ~Resolving(i, j)
  BY NothingOut
<1>4. \A h \in Informers : \A j : h # i => (Arising(h, j)' <=> Arising(h, j)) /\ (Resolving(h, j)' <=> Resolving(h, j))
  BY <1>2 DEF Arising, Resolving
<1>5. \A h \in Informers : \A j : Resolving(h, j)' <=> Resolving(h, j)
  BY <1>2, <1>3, <1>4
<1>6. \A h \in Informers : \A j : j # k => (Arising(h, j)' <=> Arising(h, j))
  BY <1>2, <1>3, <1>4
<1>7. ASSUME NEW j \in PodKeys PROVE PodWords(j)'
  <2>0. PodWords(j) /\ j \in Keys
    BY KeysAre DEF WordsOK
  <2>1. CASE j = k
    <3>1. i = "pod" /\ seen'[j] = "narrated"
      BY <2>1
    <3>2. Arising("pod", j)' /\ ~Resolving("pod", j)' /\ ~Resolving("pod", j)
      BY <1>2, <1>3, <2>1, <3>1
    <3> QED BY <1>1, <2>0, <2>1, <3>1, <3>2 DEF PodWords
  <2>2. CASE j # k
    <3>1. seen'[j] = seen[j]
      BY <2>0, <2>2
    <3> QED BY <1>1, <1>5, <1>6, <2>0, <2>2, <3>1, NotTrouble DEF PodWords
  <2> QED BY <2>1, <2>2
<1>8. ASSUME gaps' = {}, NEW j \in Keys \ PodKeys PROVE WarningWords(j)'
  <2>0. WarningWords(j)
    BY <1>8 DEF WordsOK
  <2>a. (SomeResolve(j)' <=> SomeResolve(j)) /\ (BothResolve(j)' <=> BothResolve(j))
    BY <1>5, NotTrouble DEF SomeResolve, BothResolve
  <2>1. CASE j = k
    <3>1. i = "event" /\ seen'[j] = "narrated"
      BY <2>1, NotTrouble
    <3>2. ~BothResolve(j)
      BY <1>3, <3>1 DEF BothResolve
    <3> QED BY <1>1, <2>0, <2>a, <2>1, <3>1, <3>2 DEF WarningWords
  <2>2. CASE j # k
    <3>1. seen'[j] = seen[j]
      BY <2>2
    <3> QED BY <1>1, <1>6, <2>0, <2>a, <2>2, <3>1, NotTrouble DEF WarningWords
  <2> QED BY <2>1, <2>2
<1> QED BY <1>7, <1>8 DEF WordsOK

(* A resolution takes back what waits or what is red; an arise waits. *)
LEMMA WordsPublish ==
  ASSUME ScopeOK, TimesOK, HandsOK, WordsOK, NEW i \in Informers, Publish(i)
  PROVE  TimesOK' /\ WordsOK'
<1>0. UNCHANGED <<seen, watching, gaps>>
  BY DEF Publish, scoped
<1>1. PICK k \in Keys, shown \in BOOLEAN :
        /\ watching => shown
        /\ \A h \in Informers : h # i => out'[h] = out[h]
        /\ \A j : j # k => (Resolving(i, j)' <=> Resolving(i, j))
        /\ \A j : ~Arising(i, j)'
        /\ \/ /\ Submit(k, TRUE, FALSE, shown) /\ Resolving(i, k)
              /\ \A j : ~Arising(i, j)
           \/ /\ Submit(k, FALSE, FALSE, shown) /\ Arising(i, k)
              /\ \A j : j # k => ~Arising(i, j)
              /\ \A j : ~Resolving(i, j) /\ ~Resolving(i, j)'
  <2>1. PICK shown \in BOOLEAN : shown = Shown
    BY DEF Shown
  <2>2. watching => shown
    BY <2>1 DEF ScopeOK, Shown
  <2> QED BY <2>1, <2>2, PublishIs
<1>2. \A h \in Informers : \A j : h # i => (Arising(h, j)' <=> Arising(h, j)) /\ (Resolving(h, j)' <=> Resolving(h, j))
  BY <1>1 DEF Arising, Resolving
<1>3. ASSUME NEW j \in Keys, j # k, Same(j)
      PROVE  /\ watching /\ j \in PodKeys => PodWords(j)'
             /\ watching /\ gaps = {} /\ j \notin PodKeys => WarningWords(j)'
  <2>1. \A h \in Informers : (Arising(h, j)' <=> Arising(h, j)) /\ (Resolving(h, j)' <=> Resolving(h, j))
    BY <1>1, <1>2, <1>3
  <2>2. (Waiting(j)' <=> Waiting(j)) /\ (Late(j)' <=> Late(j))
    BY <1>3 DEF Same
  <2>3. watching /\ j \in PodKeys => PodWords(j)'
    BY <1>0, <2>1, <2>2, NotTrouble DEF PodWords, WordsOK
  <2>4. watching /\ gaps = {} /\ j \notin PodKeys => WarningWords(j)'
    BY <1>0, <2>1, <2>2, NotTrouble DEF WarningWords, WordsOK, SomeResolve, BothResolve
  <2> QED BY <2>3, <2>4
<1>4. CASE Submit(k, TRUE, FALSE, shown) /\ Resolving(i, k) /\ \A j : ~Arising(i, j)
  <2>1. /\ TimesOK'
        /\ \A j \in Keys : j # k => Same(j)
        /\ ~Waiting(k)'
        /\ Waiting(k) => (Late(k)' <=> Late(k))
        /\ ~Waiting(k) /\ shown => ~Late(k)'
    BY <1>4, Resolves
  <2>2. \A h \in Informers : Arising(h, k)' <=> Arising(h, k)
    BY <1>1, <1>2, <1>4
  <2>3. watching /\ k \in PodKeys => PodWords(k)'
    <3> SUFFICES ASSUME watching, k \in PodKeys PROVE PodWords(k)'
      OBVIOUS
    <3>1. PodWords(k) /\ i = "pod"
      BY <1>4, NotTrouble DEF WordsOK, HandsOK
    <3>2. seen'[k] # "narrated" /\ ~Arising("pod", k)' /\ ~(Waiting(k) /\ Late(k))
      BY <1>0, <1>1, <1>4, <3>1 DEF PodWords
    <3>3. ~Late(k)'
      BY <1>1, <2>1, <3>2
    <3> QED BY <2>1, <3>2, <3>3 DEF PodWords
  <2>4. watching /\ gaps = {} /\ k \notin PodKeys => WarningWords(k)'
    <3> SUFFICES ASSUME watching, gaps = {}, k \notin PodKeys PROVE WarningWords(k)'
      OBVIOUS
    <3>1. WarningWords(k)
      BY DEF WordsOK
    <3>2. Late(k)' => Waiting(k) /\ Late(k)
      BY <1>1, <2>1
    <3>3. BothResolve(k) => SomeResolve(k)'
      BY <1>2, NotTrouble DEF BothResolve, SomeResolve
    <3>4. Arising("event", k)' => Arising("event", k)
      BY <2>2, NotTrouble
    <3> QED BY <1>0, <2>1, <3>1, <3>2, <3>3, <3>4 DEF WarningWords
  <2> QED BY <1>0, <1>3, <2>1, <2>3, <2>4, KeysAre DEF WordsOK
<1>5. CASE /\ Submit(k, FALSE, FALSE, shown) /\ Arising(i, k)
           /\ \A j : ~Resolving(i, j) /\ ~Resolving(i, j)'
  <2>1. /\ TimesOK'
        /\ \A j \in Keys : j # k => Same(j)
        /\ Waiting(k)' /\ (Late(k)' <=> Late(k))
    BY <1>5, Arises
  <2>3. watching /\ k \in PodKeys => PodWords(k)'
    <3> SUFFICES ASSUME watching, k \in PodKeys PROVE PodWords(k)'
      OBVIOUS
    <3>1. PodWords(k) /\ i = "pod"
      BY <1>5, NotTrouble DEF WordsOK, HandsOK
    <3>2. seen'[k] = "narrated" /\ ~Arising("pod", k)' /\ ~Resolving("pod", k)' /\ ~Late(k)
      BY <1>0, <1>1, <1>5, <3>1 DEF PodWords
    <3> QED BY <2>1, <3>2 DEF PodWords
  <2>4. watching /\ gaps = {} /\ k \notin PodKeys => WarningWords(k)'
    <3> SUFFICES ASSUME watching, gaps = {}, k \notin PodKeys PROVE WarningWords(k)'
      OBVIOUS
    <3>1. WarningWords(k) /\ i = "event"
      BY <1>5, NotTrouble DEF WordsOK, HandsOK
    <3>2. seen'[k] = "narrated" /\ ~Arising("event", k)' /\ (Late(k) => SomeResolve(k))
      BY <1>0, <1>1, <1>5, <3>1 DEF WarningWords
    <3>3. SomeResolve(k) => SomeResolve(k)'
      BY <1>2, <1>5, <3>1, NotTrouble DEF SomeResolve
    <3> QED BY <2>1, <3>2, <3>3 DEF WarningWords
  <2> QED BY <1>0, <1>3, <2>1, <2>3, <2>4, KeysAre DEF WordsOK
<1> QED BY <1>1, <1>4, <1>5

(* What a timer takes from its window is late. *)
LEMMA WordsTimer ==
  ASSUME ScopeOK, TimesOK, WordsOK, Timer
  PROVE  TimesOK' /\ WordsOK'
<1>0. UNCHANGED <<seen, watching, gaps, out>>
  BY DEF Timer, scoped, hands
<1>1. \A h \in Informers : \A j : (Arising(h, j)' <=> Arising(h, j)) /\ (Resolving(h, j)' <=> Resolving(h, j))
  BY <1>0 DEF Arising, Resolving
<1>2. ASSUME NEW j \in Keys, Same(j)
      PROVE  /\ watching /\ j \in PodKeys => PodWords(j)'
             /\ watching /\ gaps = {} /\ j \notin PodKeys => WarningWords(j)'
  <2>2. (Waiting(j)' <=> Waiting(j)) /\ (Late(j)' <=> Late(j))
    BY <1>2 DEF Same
  <2>3. watching /\ j \in PodKeys => PodWords(j)'
    BY <1>0, <1>1, <2>2, NotTrouble DEF PodWords, WordsOK
  <2>4. watching /\ gaps = {} /\ j \notin PodKeys => WarningWords(j)'
    BY <1>0, <1>1, <2>2, NotTrouble DEF WarningWords, WordsOK, SomeResolve, BothResolve
  <2> QED BY <2>3, <2>4
<1>3. CASE \E k \in Keys : Release(k)
  <2>0. PICK k \in Keys : Release(k)
    BY <1>3
  <2>1. /\ TimesOK'
        /\ \A j \in Keys : j # k => Same(j)
        /\ Waiting(k) /\ ~Waiting(k)' /\ Late(k)'
    BY <2>0, Releases
  <2>2. watching /\ k \in PodKeys => PodWords(k)'
    BY <1>0, <1>1, <2>1, NotTrouble DEF PodWords, WordsOK
  <2>3. watching /\ gaps = {} /\ k \notin PodKeys => WarningWords(k)'
    BY <1>0, <1>1, <2>1, NotTrouble DEF WarningWords, WordsOK, SomeResolve, BothResolve
  <2> QED BY <1>0, <1>2, <2>1, <2>2, <2>3, KeysAre DEF WordsOK
<1>4. CASE \E r \in released : EmitReleased(r, Shown)
  <2>1. PICK r \in released, shown \in BOOLEAN : EmitReleased(r, shown) /\ (watching => shown)
    <3>1. PICK shown \in BOOLEAN : shown = Shown
      BY DEF Shown
    <3>2. watching => shown
      BY <3>1 DEF ScopeOK, Shown
    <3> QED BY <1>4, <3>1, <3>2
  <2>2. TimesOK' /\ (shown => \A j \in Keys : Same(j))
    BY <2>1, EmitsReleased
  <2> QED BY <1>0, <1>2, <2>1, <2>2, KeysAre DEF WordsOK
<1> QED BY <1>3, <1>4 DEF Timer

(***************************************************************************)
(* What is queued.                                                         *)
(***************************************************************************)
LEMMA NothingSaid ==
  ASSUME NEW x, NEW what
  PROVE  /\ InitialFirst(<<>>) /\ LastIs(<<>>, what)
         /\ ~Mentions(<<>>, x) /\ ~Word(<<>>, x, what)
BY DEF InitialFirst, LastIs, Mentions, Word

LEMMA OnceEach ==
  ASSUME NEW S, NEW s \in Seq(S),
         \A i, j \in DOMAIN s : s[i].of = s[j].of => i = j
  PROVE  InitialFirst(s)
<1>1. DOMAIN s \subseteq Nat
  OBVIOUS
<1> SUFFICES ASSUME NEW j \in DOMAIN s, NEW i \in DOMAIN s, i < j, s[i].of = s[j].of PROVE FALSE
  BY DEF InitialFirst
<1>2. i = j
  OBVIOUS
<1> QED BY <1>1, <1>2

(* What takes a notification from the front of a queue. *)
LEMMA FeedTake ==
  ASSUME FeedTypeOK, FeedOK, NEW i \in Informers, Take(i), UNCHANGED <<listed, cache, watching>>
  PROVE  /\ FeedOK'
         /\ watching => i \in listed
         /\ \A j \in DOMAIN queue'[i] : queue'[i][j].kind = "initial" => queue'[i][j].of # Taken(i).of
<1>1. /\ queue[i] \in Seq(Names) /\ queue[i] # <<>> /\ queue'[i] = Tail(queue[i])
      /\ Taken(i) = Head(queue[i]) /\ \A h \in Informers : h # i => queue'[h] = queue[h]
  BY TakeIs DEF FeedTypeOK
<1>2. InitialFirst(queue[i])
  BY NotTrouble DEF FeedOK
<1>3. InitialFirst(Tail(queue[i]))
      /\ \A j \in DOMAIN Tail(queue[i]) : Tail(queue[i])[j].kind = "initial" => Tail(queue[i])[j].of # Head(queue[i]).of
  BY <1>1, <1>2, TailOrder
<1>4. watching => i \in listed
  BY <1>1, NotTrouble DEF FeedOK
<1>5. InitialFirst(queue'["pod"]) /\ InitialFirst(queue'["event"])
  BY <1>1, <1>3, NotTrouble DEF FeedOK
<1>6. ASSUME watching PROVE LastIs(queue'["pod"], cache.pod)
  <2>1. LastIs(queue["pod"], cache.pod)
    BY <1>6 DEF FeedOK
  <2>2. CASE i = "pod"
    BY <1>1, <2>1, <2>2, TailLast
  <2>3. CASE i # "pod"
    BY <1>1, <2>1, <2>3, NotTrouble
  <2> QED BY <2>2, <2>3
<1>7. ASSUME NEW p \in Pods, Mentions(queue'["pod"], p) PROVE Mentions(queue["pod"], p)
  <2>1. CASE i = "pod"
    BY <1>1, <1>7, <2>1, TailSays
  <2>2. CASE i # "pod"
    BY <1>1, <1>7, <2>2, NotTrouble
  <2> QED BY <2>1, <2>2
<1>8. \A h \in Informers : queue[h] = <<>> => queue'[h] = <<>>
  BY <1>1
<1>9. FeedOK'
  BY <1>5, <1>6, <1>7, <1>8, NotTrouble DEF FeedOK
<1> QED BY <1>1, <1>3, <1>4, <1>9

LEMMA NextFeed == ASSUME IInv, ScopeOK, FeedTypeOK, FeedOK, [Next]_vars PROVE FeedOK'
<1> USE DEF engine, cluster, scoped, feed, hands, bounce
<1>1. CASE Reconcile
  <2>1. UNCHANGED queue
    BY <1>1 DEF Reconcile
  <2>2. watching' =>
          /\ listed' = {} /\ cache'.pod = [p \in Pods |-> "absent"]
          /\ queue["pod"] = <<>> /\ queue["event"] = <<>>
    BY <1>1, ReconcileIs, UntouchedIs, NotTrouble DEF IInv
  <2> QED BY <2>1, <2>2, NothingSaid DEF FeedOK
<1>2. CASE \/ EngineNext \/ ClusterNext \/ Timer \/ UNCHANGED vars
           \/ (\E i \in Informers : Publish(i)) \/ CheckPod \/ Corroborated
  <2>1. UNCHANGED <<queue, cache, listed, watching>>
    BY <1>2 DEF EngineNext, Start, Retry, Begin, Recommend, Finish, ClusterNext, PodChanges, Warn,
       Timer, vars, Publish, CheckPod, Corroborated
  <2> QED BY <2>1 DEF FeedOK
<1>3. CASE \E i \in Informers : Abandon(i)
  <2>0. PICK i \in Informers : Abandon(i)
    BY <1>3
  <2>1. ~watching /\ ~watching' /\ queue' = [queue EXCEPT ![i] = <<>>]
    BY <2>0 DEF Abandon
  <2>2. \A h \in Informers : queue'[h] = queue[h] \/ queue'[h] = <<>>
    BY <2>1 DEF FeedTypeOK
  <2>3. InitialFirst(queue'["pod"]) /\ InitialFirst(queue'["event"])
    BY <2>2, NothingSaid, NotTrouble DEF FeedOK
  <2> QED BY <2>1, <2>3 DEF FeedOK
<1>4. CASE List("pod")
  <2>1. UNCHANGED watching
    BY <1>4 DEF List
  <2>2. /\ queue'["pod"] \in Seq(Names) /\ queue'["event"] = queue["event"] /\ cache'.pod = pod
        /\ listed' = listed \cup {"pod"}
        /\ \A j \in DOMAIN queue'["pod"] :
             queue'["pod"][j].is = pod[queue'["pod"][j].of] /\ Present(queue'["pod"][j].is)
        /\ \A i, j \in DOMAIN queue'["pod"] : queue'["pod"][i].of = queue'["pod"][j].of => i = j
    BY <1>4, ListPodIs, NotTrouble
  <2>3. InitialFirst(queue'["pod"])
    BY <2>2, OnceEach
  <2>4. LastIs(queue'["pod"], cache'.pod)
    BY <2>2 DEF LastIs
  <2>5. \A p \in Pods : cache'.pod[p] = "absent" => ~Mentions(queue'["pod"], p)
    BY <2>2 DEF Mentions, Present
  <2> QED BY <2>1, <2>2, <2>3, <2>4, <2>5 DEF FeedOK
<1>5. CASE List("event")
  <2>1. UNCHANGED watching
    BY <1>5 DEF List
  <2>2. queue'["event"] \in Seq(Names) /\ queue'["pod"] = queue["pod"] /\ cache'.pod = cache.pod
        /\ listed' = listed \cup {"event"}
        /\ \A i, j \in DOMAIN queue'["event"] : queue'["event"][i].of = queue'["event"][j].of => i = j
    BY <1>5, ListEventIs, NotTrouble
  <2>3. InitialFirst(queue'["event"])
    BY <2>2, OnceEach
  <2> QED BY <2>1, <2>2, <2>3 DEF FeedOK
<1>6. CASE \E p \in Pods : WatchPod(p)
  <2>1. PICK p \in Pods : WatchPod(p)
    BY <1>6
  <2>2. UNCHANGED <<watching, listed>> /\ watching
    BY <2>1 DEF WatchPod
  <2>3. /\ "pod" \in listed /\ pod[p] # "absent"
        /\ cache'.pod[p] = pod[p] /\ \A q \in Pods : q # p => cache'.pod[q] = cache.pod[q]
    BY <2>1, WatchPodIs
  <2>4. /\ LastIs(queue["pod"], cache.pod) /\ InitialFirst(queue["pod"]) /\ InitialFirst(queue["event"])
        /\ \A q \in Pods : cache.pod[q] = "absent" => ~Mentions(queue["pod"], q)
        /\ "event" \notin listed => queue["event"] = <<>>
    BY <2>2 DEF FeedOK
  <2>5. queue["pod"] \in Seq(Names) /\ \A j \in DOMAIN queue["pod"] : queue["pod"][j].of \in Pods
    BY NotTrouble DEF FeedTypeOK, PodNames
  <2>6. CASE UNCHANGED queue /\ ~Present(cache.pod[p]) /\ cache.pod[p] # "gone"
    <3>1. ~Mentions(queue["pod"], p)
      BY <2>4, <2>6 DEF Present
    <3>2. \A j \in DOMAIN queue["pod"] : cache'.pod[queue["pod"][j].of] = cache.pod[queue["pod"][j].of]
      BY <2>3, <2>5, <3>1 DEF Mentions
    <3>3. LastIs(queue["pod"], cache'.pod)
      BY <2>4, <3>2 DEF LastIs
    <3>4. \A q \in Pods : cache'.pod[q] = "absent" => ~Mentions(queue["pod"], q)
      BY <2>3, <2>4
    <3> QED BY <2>2, <2>3, <2>4, <2>6, <3>3, <3>4 DEF FeedOK
  <2>7. CASE \E n \in Names :
               /\ n.of = p /\ n.is = pod[p] /\ n.kind # "initial"
               /\ queue'["pod"] = Append(queue["pod"], n) /\ queue'["event"] = queue["event"]
    <3>1. PICK n \in Names :
            /\ n.of = p /\ n.is = pod[p] /\ n.kind # "initial"
            /\ queue'["pod"] = Append(queue["pod"], n) /\ queue'["event"] = queue["event"]
      BY <2>7
    <3>2. InitialFirst(queue'["pod"])
      BY <2>4, <2>5, <3>1, AppendOrder
    <3>3. PICK what, now : what = cache.pod /\ now = cache'.pod
      OBVIOUS
    <3>4. /\ LastIs(queue["pod"], what) /\ now[n.of] = n.is
          /\ \A j \in DOMAIN queue["pod"] : queue["pod"][j].of # n.of => now[queue["pod"][j].of] = what[queue["pod"][j].of]
      BY <2>3, <2>4, <2>5, <3>1, <3>3
    <3>5. LastIs(Append(queue["pod"], n), now)
      BY <2>5, <3>1, <3>4, AppendOrder
    <3>6. \A q : Mentions(queue'["pod"], q) => Mentions(queue["pod"], q) \/ q = p
      BY <2>5, <3>1, AppendSays
    <3>7. \A q \in Pods : cache'.pod[q] = "absent" => ~Mentions(queue'["pod"], q)
      BY <2>3, <2>4, <3>6
    <3> QED BY <2>2, <2>3, <2>4, <3>1, <3>2, <3>3, <3>5, <3>7 DEF FeedOK
  <2> QED BY <2>1, <2>6, <2>7, WatchPodIs
<1>7. CASE \E s \in Subjects : WatchEvent(s)
  <2>1. PICK s \in Subjects : WatchEvent(s)
    BY <1>7
  <2>2. UNCHANGED <<watching, listed>>
    BY <2>1 DEF WatchEvent
  <2>3. PICK n \in Names :
          /\ "event" \in listed /\ cache'.pod = cache.pod /\ n.kind # "initial"
          /\ queue'["event"] = Append(queue["event"], n) /\ queue'["pod"] = queue["pod"]
    BY <2>1, WatchEventIs
  <2>4. queue["event"] \in Seq(Names)
    BY NotTrouble DEF FeedTypeOK
  <2>5. InitialFirst(queue'["event"])
    BY <2>3, <2>4, AppendOrder DEF FeedOK
  <2> QED BY <2>2, <2>3, <2>5 DEF FeedOK
<1>8. CASE PodRecovers \/ PodArises \/ PodSeeds \/ PodDeleted
  <2>1. UNCHANGED <<listed, cache, watching>> /\ Take("pod")
    BY <1>8 DEF PodRecovers, PodArises, PodSeeds, PodDeleted
  <2> QED BY <2>1, FeedTake, NotTrouble
<1>9. CASE EventArises \/ EventSeeds \/ EventExpires
  <2>1. UNCHANGED <<listed, cache, watching>> /\ Take("event")
    BY <1>9 DEF EventArises, EventSeeds, EventExpires
  <2> QED BY <2>1, FeedTake, NotTrouble
<1> QED BY <1>1, <1>2, <1>3, <1>4, <1>5, <1>6, <1>7, <1>8, <1>9, NotTrouble DEF Next, Deliver

(***************************************************************************)
(* What the handlers remember.                                             *)
(***************************************************************************)
LEMMA LastWord ==
  ASSUME NEW S, NEW s \in Seq(S), NEW what, LastIs(s, what), NEW x, Mentions(s, x)
  PROVE  \E j \in DOMAIN s : s[j].of = x /\ s[j].is = what[x]
<1> DEFINE T == {j \in DOMAIN s : s[j].of = x}
<1>1. Len(s) \in Nat /\ DOMAIN s = 1 .. Len(s)
  OBVIOUS
<1>2. T \subseteq Nat /\ T # {} /\ \A j \in T : j <= Len(s)
  BY <1>1 DEF Mentions
<1>3. Max(T) \in T /\ \A j \in T : j <= Max(T)
  <2> HIDE DEF T
  <2> QED BY <1>1, <1>2, MaxIsMax
<1>4. PICK m \in T : \A j \in T : j <= m
  BY <1>3
<1>5. \A j \in DOMAIN s : j > m => s[j].of # s[m].of
  BY <1>1, <1>2, <1>4
<1> QED BY <1>4, <1>5 DEF LastIs

LEMMA QueuedAre ==
  ASSUME FeedTypeOK
  PROVE  /\ queue["pod"] \in Seq(Names) /\ queue["event"] \in Seq(Names)
         /\ \A j \in DOMAIN queue["pod"] : queue["pod"][j] \in PodNames /\ queue["pod"][j].of \in Pods
         /\ \A j \in DOMAIN queue["event"] : queue["event"][j].of \in Subjects
<1>1. queue["pod"] \in Seq(PodNames) /\ queue["pod"] \in Seq(Names) /\ queue["event"] \in Seq(Names)
  BY NotTrouble DEF FeedTypeOK
<1>2. \A j \in DOMAIN queue["pod"] : queue["pod"][j] \in PodNames /\ queue["pod"][j].of \in Pods
  BY <1>1 DEF PodNames
<1>3. ASSUME NEW s \in Seq(Names), NEW j \in DOMAIN s PROVE s[j].of \in Subjects
  <2>1. s[j] \in Names
    BY <1>3
  <2> QED BY <2>1 DEF Names
<1> QED BY <1>1, <1>2, <1>3

(* Nothing is taken from a queue, and at most Warnings are forgotten. *)
LEMMA MemoryKeep ==
  ASSUME FeedTypeOK, MemoryOK, UNCHANGED <<queue, cache, listed, torn>>, watching' => watching,
         \A k \in Keys : seen'[k] = seen[k] \/ (seen'[k] = "no" /\ k \notin PodKeys)
  PROVE  MemoryOK'
<1> SUFFICES ASSUME watching' PROVE MemoryOK'
  BY DEF MemoryOK
<1>1. \A p \in Pods, t \in Troubles : seen'[<<p, t>>] = seen[<<p, t>>]
  BY KeysAre
<1>2. \A k \in Keys : seen'[k] # "no" => seen'[k] = seen[k]
  OBVIOUS
<1>3. \A s \in Subjects : <<s, Warning>> \in Keys
  BY KeysAre
<1>4. FirstHeard'
  <2>1. FirstHeard
    BY DEF MemoryOK
  <2>2. \A j \in DOMAIN queue["pod"] : \A t \in Troubles :
          seen'[<<queue["pod"][j].of, t>>] = seen[<<queue["pod"][j].of, t>>]
    BY <1>1, QueuedAre
  <2>3. \A j \in DOMAIN queue["event"] : <<queue["event"][j].of, Warning>> \in Keys
    BY <1>3, QueuedAre
  <2>4. \A k \in Keys : seen'[k] = "narrated" => seen[k] = "narrated"
    BY <1>2
  <2> QED BY <1>3, <2>1, <2>2, <2>3, <2>4 DEF FirstHeard
<1>5. \A p \in Pods, t \in Troubles : seen'[<<p, t>>] = "narrated" =>
        cache.pod[p] \in Troubles \/ Word(queue["pod"], p, {"healthy", "gone"})
  BY <1>1 DEF MemoryOK
<1>6. \A p \in Pods : cache.pod[p] \in Troubles =>
        seen'[<<p, cache.pod[p]>>] # "no" \/ Mentions(queue["pod"], p)
  BY <1>1 DEF MemoryOK
<1>7. \A k \in Keys : seen'[k] = "seeded" => ~torn
  BY <1>2 DEF MemoryOK
<1> QED BY <1>4, <1>5, <1>6, <1>7 DEF MemoryOK

LEMMA FirstKept ==
  ASSUME FeedTypeOK, FirstHeard, UNCHANGED listed,
         \A i \in Informers : \A j \in DOMAIN queue'[i] :
           \E h \in DOMAIN queue[i] : queue[i][h] = queue'[i][j],
         \A j \in DOMAIN queue'["pod"] : queue'["pod"][j].kind = "initial" =>
           \A t \in Troubles : LET k == <<queue'["pod"][j].of, t>> IN seen'[k] = "narrated" => seen[k] = "narrated",
         \A j \in DOMAIN queue'["event"] : queue'["event"][j].kind = "initial" =>
           LET k == <<queue'["event"][j].of, Warning>> IN seen'[k] = "narrated" => seen[k] = "narrated",
         "event" \notin listed => \A s \in Subjects :
           LET k == <<s, Warning>> IN seen'[k] = "narrated" => seen[k] = "narrated"
  PROVE  FirstHeard'
<1>1. ASSUME NEW j \in DOMAIN queue'["pod"], queue'["pod"][j].kind = "initial", NEW t \in Troubles
      PROVE  seen'[<<queue'["pod"][j].of, t>>] # "narrated"
  <2>1. PICK h \in DOMAIN queue["pod"] : queue["pod"][h] = queue'["pod"][j]
    BY NotTrouble
  <2>2. seen[<<queue["pod"][h].of, t>>] # "narrated"
    BY <1>1, <2>1 DEF FirstHeard
  <2> QED BY <1>1, <2>1, <2>2
<1>2. ASSUME NEW j \in DOMAIN queue'["event"], queue'["event"][j].kind = "initial"
      PROVE  seen'[<<queue'["event"][j].of, Warning>>] # "narrated"
  <2>1. PICK h \in DOMAIN queue["event"] : queue["event"][h] = queue'["event"][j]
    BY NotTrouble
  <2>2. seen[<<queue["event"][h].of, Warning>>] # "narrated"
    BY <1>2, <2>1 DEF FirstHeard
  <2> QED BY <1>2, <2>1, <2>2
<1>3. ASSUME "event" \notin listed', NEW s \in Subjects PROVE seen'[<<s, Warning>>] # "narrated"
  BY <1>3 DEF FirstHeard
<1> QED BY <1>1, <1>2, <1>3 DEF FirstHeard

(* What takes from a queue leaves a part of it. *)
LEMMA TakeLeaves ==
  ASSUME FeedTypeOK, NEW i \in Informers, Take(i)
  PROVE  /\ \A h \in Informers : \A j \in DOMAIN queue'[h] :
              \E u \in DOMAIN queue[h] : queue[h][u] = queue'[h][j]
         /\ \A h \in Informers : h # i => queue'[h] = queue[h]
         /\ queue[i] \in Seq(Names) /\ queue[i] # <<>> /\ queue'[i] = Tail(queue[i]) /\ Taken(i) = Head(queue[i])
<1>1. /\ queue[i] \in Seq(Names) /\ queue[i] # <<>> /\ queue'[i] = Tail(queue[i]) /\ Taken(i) = Head(queue[i])
      /\ \A h \in Informers : h # i => queue'[h] = queue[h]
  BY TakeIs DEF FeedTypeOK
<1>2. \A j \in DOMAIN queue'[i] : \E u \in DOMAIN queue[i] : queue[i][u] = queue'[i][j]
  BY <1>1, TailIs
<1> QED BY <1>1, <1>2

(* The Pod handler hears that a pod is in no trouble, and forgets what it had
   of it. *)
LEMMA MemoryForgets ==
  ASSUME IInv, FeedTypeOK, FeedOK, MemoryOK, watching, Take("pod"),
         UNCHANGED <<cache, listed, torn, watching>>, Taken("pod").is \notin Troubles,
         \A k \in Keys : seen'[k] \in {seen[k], "no"},
         \A t \in Troubles : seen'[<<Taken("pod").of, t>>] = "no",
         \A p \in Pods, t \in Troubles : p # Taken("pod").of => seen'[<<p, t>>] = seen[<<p, t>>]
  PROVE  MemoryOK'
<1>1. /\ queue["pod"] \in Seq(Names) /\ queue["pod"] # <<>> /\ queue'["pod"] = Tail(queue["pod"])
      /\ Taken("pod") = Head(queue["pod"]) /\ LastIs(queue["pod"], cache.pod)
  BY TakeLeaves, NotTrouble DEF FeedOK
<1>2. FirstHeard'
  <2>1. \A k \in Keys : seen'[k] = "narrated" => seen[k] = "narrated"
    OBVIOUS
  <2>2. /\ \A j \in DOMAIN queue'["pod"] : queue'["pod"][j].of \in Pods
        /\ \A j \in DOMAIN queue'["event"] : queue'["event"][j].of \in Subjects
    <3> QED BY QueuedAre, TakeLeaves, NotTrouble
  <2> QED BY <2>1, <2>2, TakeLeaves, NotTrouble, KeysAre, FirstKept DEF MemoryOK
<1>3. ASSUME NEW p \in Pods, NEW t \in Troubles, seen'[<<p, t>>] = "narrated"
      PROVE  cache.pod[p] \in Troubles \/ Word(queue'["pod"], p, {"healthy", "gone"})
  <2>1. p # Taken("pod").of /\ seen[<<p, t>>] = "narrated"
    BY <1>3
  <2>2. cache.pod[p] \in Troubles \/ Word(queue["pod"], p, {"healthy", "gone"})
    BY <2>1 DEF MemoryOK
  <2> QED BY <1>1, <2>1, <2>2, TailSays
<1>4. ASSUME NEW p \in Pods, cache.pod[p] \in Troubles
      PROVE  seen'[<<p, cache.pod[p]>>] # "no" \/ Mentions(queue'["pod"], p)
  <2>1. CASE p = Taken("pod").of
    BY <1>1, <1>4, <2>1, TailLast
  <2>2. CASE p # Taken("pod").of
    <3>1. seen[<<p, cache.pod[p]>>] # "no" \/ Mentions(queue["pod"], p)
      BY <1>4 DEF MemoryOK
    <3>2. Mentions(queue["pod"], p) => Mentions(queue'["pod"], p)
      BY <1>1, <2>2, TailSays
    <3> QED BY <1>4, <2>2, <3>1, <3>2
  <2> QED BY <2>1, <2>2
<1>5. \A k \in Keys : seen'[k] = "seeded" => ~torn'
  BY DEF MemoryOK
<1> QED BY <1>2, <1>3, <1>4, <1>5 DEF MemoryOK

(* It hears that a pod is in trouble, and remembers it. *)
LEMMA MemoryArises ==
  ASSUME IInv, FeedTypeOK, FeedOK, MemoryOK, watching, Take("pod"),
         UNCHANGED <<cache, listed, torn, watching>>,
         NEW p \in Pods, NEW t \in Troubles, Taken("pod").of = p, Taken("pod").is = t,
         NEW now \in {"no", "seeded", "narrated"}, now # "no", now = "seeded" => seen[<<p, t>>] = "seeded" \/ ~torn,
         \A k \in Keys : seen'[k] = IF k = <<p, t>> THEN now ELSE seen[k]
  PROVE  MemoryOK'
<1>1. /\ queue["pod"] \in Seq(Names) /\ queue["pod"] # <<>> /\ queue'["pod"] = Tail(queue["pod"])
      /\ Taken("pod") = Head(queue["pod"]) /\ LastIs(queue["pod"], cache.pod)
  BY TakeLeaves, NotTrouble DEF FeedOK
<1>2. /\ LastIs(queue'["pod"], cache.pod) /\ queue'["pod"] \in Seq(Names)
      /\ Mentions(queue'["pod"], p) \/ t = cache.pod[p]
      /\ \A j \in DOMAIN queue'["pod"] : queue'["pod"][j].kind = "initial" => queue'["pod"][j].of # p
  <2>1. LastIs(queue'["pod"], cache.pod) /\ (Mentions(queue'["pod"], p) \/ t = cache.pod[p])
    BY <1>1, TailLast
  <2>2. \A j \in DOMAIN queue'["pod"] : queue'["pod"][j].kind = "initial" => queue'["pod"][j].of # p
    BY FeedTake, NotTrouble
  <2> QED BY <1>1, <2>1, <2>2
<1>3. /\ \A q \in Pods, u \in Troubles : <<q, u>> \in Keys
      /\ \A s \in Subjects : <<s, Warning>> \in Keys /\ <<s, Warning>> # <<p, t>>
      /\ <<p, t>> \in Keys
  BY KeysAre
<1>4. FirstHeard'
  <2>1. \A j \in DOMAIN queue'["pod"] : queue'["pod"][j].of \in Pods
    BY QueuedAre, TakeLeaves, NotTrouble
  <2>2. \A j \in DOMAIN queue'["event"] : queue'["event"][j].of \in Subjects
    BY QueuedAre, TakeLeaves, NotTrouble
  <2>3. \A j \in DOMAIN queue'["pod"] : queue'["pod"][j].kind = "initial" =>
          \A u \in Troubles : seen'[<<queue'["pod"][j].of, u>>] = seen[<<queue'["pod"][j].of, u>>]
    BY <1>2, <1>3, <2>1
  <2>4. \A s \in Subjects : seen'[<<s, Warning>>] = seen[<<s, Warning>>]
    BY <1>3
  <2>5. /\ FirstHeard
        /\ \A i \in Informers : \A j \in DOMAIN queue'[i] :
             \E h \in DOMAIN queue[i] : queue[i][h] = queue'[i][j]
    BY TakeLeaves, NotTrouble DEF MemoryOK
  <2> QED BY <2>2, <2>3, <2>4, <2>5, FirstKept
<1>5. ASSUME NEW q \in Pods, NEW u \in Troubles, seen'[<<q, u>>] = "narrated"
      PROVE  cache.pod[q] \in Troubles \/ Word(queue'["pod"], q, {"healthy", "gone"})
  <2>1. CASE <<q, u>> # <<p, t>>
    <3>1. cache.pod[q] \in Troubles \/ Word(queue["pod"], q, {"healthy", "gone"})
      BY <1>3, <1>5, <2>1 DEF MemoryOK
    <3>2. Head(queue["pod"]).is \notin {"healthy", "gone"}
      BY <1>1, NotTrouble
    <3> QED BY <1>1, <3>1, <3>2, TailSays
  <2>2. CASE q = p /\ Mentions(queue'["pod"], p)
    <3>1. PICK j \in DOMAIN queue'["pod"] : queue'["pod"][j].of = p /\ queue'["pod"][j].is = cache.pod[p]
      BY <1>2, <2>2, LastWord
    <3>2. queue'["pod"][j] \in PodNames
      BY QueuedAre, TakeLeaves, NotTrouble
    <3>3. cache.pod[p] \in Troubles \cup {"healthy", "gone"}
      BY <3>1, <3>2 DEF PodNames, Names
    <3>4. queue'["pod"][j].kind # "initial"
      BY <1>2, <3>1
    <3> QED BY <2>2, <3>1, <3>3, <3>4 DEF Word
  <2>3. CASE q = p /\ t = cache.pod[p]
    BY <2>3
  <2> QED BY <1>2, <2>1, <2>2, <2>3
<1>6. ASSUME NEW q \in Pods, cache.pod[q] \in Troubles
      PROVE  seen'[<<q, cache.pod[q]>>] # "no" \/ Mentions(queue'["pod"], q)
  <2>1. CASE q = p
    BY <1>2, <1>3, <1>6, <2>1
  <2>2. CASE q # p
    <3>1. seen[<<q, cache.pod[q]>>] # "no" \/ Mentions(queue["pod"], q)
      BY <1>6 DEF MemoryOK
    <3>2. Mentions(queue["pod"], q) => Mentions(queue'["pod"], q)
      BY <1>1, <2>2, TailSays
    <3>3. seen'[<<q, cache.pod[q]>>] = seen[<<q, cache.pod[q]>>]
      BY <1>3, <1>6, <2>2
    <3> QED BY <3>1, <3>2, <3>3
  <2> QED BY <2>1, <2>2
<1>7. \A k \in Keys : seen'[k] = "seeded" => ~torn'
  BY <1>3 DEF MemoryOK
<1> QED BY <1>4, <1>5, <1>6, <1>7 DEF MemoryOK

(* The first sighting of a pod: a baseline, if it is in trouble. *)
LEMMA MemorySeeds ==
  ASSUME IInv, FeedTypeOK, FeedOK, MemoryOK, watching, PodSeeds
  PROVE  MemoryOK'
<1>1. /\ Take("pod") /\ Taken("pod").kind = "initial" /\ Taken("pod").of \in Pods /\ ~torn
      /\ UNCHANGED <<cache, listed, torn, watching>>
  BY PodSeedsIs DEF PodSeeds, scoped
<1>2. CASE \E t \in Troubles : t = Taken("pod").is
             /\ seen' = [seen EXCEPT ![<<Taken("pod").of, t>>] = "seeded"]
  <2>1. PICK p \in Pods, t \in Troubles, now \in {"no", "seeded", "narrated"} :
          /\ p = Taken("pod").of /\ t = Taken("pod").is /\ now = "seeded"
          /\ seen' = [seen EXCEPT ![<<p, t>>] = now]
    BY <1>1, <1>2
  <2>2. \A k \in Keys : seen'[k] = IF k = <<p, t>> THEN now ELSE seen[k]
    BY <2>1 DEF IInv
  <2> QED BY <1>1, <2>1, <2>2, MemoryArises
<1>3. CASE UNCHANGED seen /\ Taken("pod").is \notin Troubles
  <2>1. /\ queue["pod"] \in Seq(Names) /\ queue["pod"] # <<>> /\ queue'["pod"] = Tail(queue["pod"])
        /\ Taken("pod") = Head(queue["pod"]) /\ LastIs(queue["pod"], cache.pod)
    BY <1>1, TakeLeaves, NotTrouble DEF FeedOK
  <2>2. FirstHeard'
    BY <1>1, <1>3, TakeLeaves, NotTrouble, FirstKept DEF MemoryOK
  <2>3. ASSUME NEW p \in Pods, NEW t \in Troubles, seen'[<<p, t>>] = "narrated"
        PROVE  cache.pod[p] \in Troubles \/ Word(queue'["pod"], p, {"healthy", "gone"})
    <3>1. cache.pod[p] \in Troubles \/ Word(queue["pod"], p, {"healthy", "gone"})
      BY <1>3, <2>3 DEF MemoryOK
    <3> QED BY <1>1, <2>1, <3>1, TailSays
  <2>4. ASSUME NEW p \in Pods, cache.pod[p] \in Troubles
        PROVE  seen'[<<p, cache.pod[p]>>] # "no" \/ Mentions(queue'["pod"], p)
    <3>1. seen[<<p, cache.pod[p]>>] # "no" \/ Mentions(queue["pod"], p)
      BY <2>4 DEF MemoryOK
    <3>2. Mentions(queue["pod"], p) => Mentions(queue'["pod"], p)
      <4>1. CASE p = Head(queue["pod"]).of
        BY <1>3, <2>1, <2>4, <4>1, TailLast
      <4>2. CASE p # Head(queue["pod"]).of
        BY <2>1, <4>2, TailSays
      <4> QED BY <4>1, <4>2
    <3> QED BY <1>3, <3>1, <3>2
  <2>5. \A k \in Keys : seen'[k] = "seeded" => ~torn'
    BY <1>1, <1>3 DEF MemoryOK
  <2> QED BY <1>1, <2>2, <2>3, <2>4, <2>5 DEF MemoryOK
<1> QED BY <1>2, <1>3, PodSeedsIs

(* The Event handler hears of a Warning. *)
LEMMA MemoryEvent ==
  ASSUME IInv, FeedTypeOK, FeedOK, MemoryOK, watching, Take("event"),
         UNCHANGED <<cache, listed, torn, watching>>,
         \A k \in Keys : k # Warned => seen'[k] = seen[k],
         seen'[Warned] = "seeded" => seen[Warned] = "seeded" \/ ~torn
  PROVE  MemoryOK'
<1>1. /\ queue'["pod"] = queue["pod"] /\ "event" \in listed
      /\ \A j \in DOMAIN queue'["event"] : queue'["event"][j].kind = "initial" => queue'["event"][j].of # Taken("event").of
  BY TakeLeaves, FeedTake, NotTrouble
<1>2. Warned = <<Taken("event").of, Warning>> /\ Warned \notin PodKeys
  BY EventTaken
<1>3. \A p \in Pods, t \in Troubles : seen'[<<p, t>>] = seen[<<p, t>>]
  BY <1>2, KeysAre
<1>4. FirstHeard'
  <2>1. \A j \in DOMAIN queue'["pod"] : queue'["pod"][j].of \in Pods
    BY QueuedAre, TakeLeaves, NotTrouble
  <2>2. \A j \in DOMAIN queue'["event"] : queue'["event"][j].of \in Subjects
    BY QueuedAre, TakeLeaves, NotTrouble
  <2>3. \A j \in DOMAIN queue'["event"] : queue'["event"][j].kind = "initial" =>
          seen'[<<queue'["event"][j].of, Warning>>] = seen[<<queue'["event"][j].of, Warning>>]
    BY <1>1, <1>2, <2>2, KeysAre
  <2>5. /\ FirstHeard
        /\ \A i \in Informers : \A j \in DOMAIN queue'[i] :
             \E h \in DOMAIN queue[i] : queue[i][h] = queue'[i][j]
    BY TakeLeaves, NotTrouble DEF MemoryOK
  <2> QED BY <1>1, <1>3, <2>1, <2>3, <2>5, FirstKept
<1>5. \A p \in Pods, t \in Troubles : seen'[<<p, t>>] = "narrated" =>
        cache.pod[p] \in Troubles \/ Word(queue'["pod"], p, {"healthy", "gone"})
  BY <1>1, <1>3 DEF MemoryOK
<1>6. \A p \in Pods : cache.pod[p] \in Troubles =>
        seen'[<<p, cache.pod[p]>>] # "no" \/ Mentions(queue'["pod"], p)
  BY <1>1, <1>3 DEF MemoryOK
<1>7. \A k \in Keys : seen'[k] = "seeded" => ~torn'
  BY DEF MemoryOK
<1> QED BY <1>4, <1>5, <1>6, <1>7 DEF MemoryOK

(* The first List tells of every pod in trouble, and nothing was heard before. *)
LEMMA MemoryList ==
  ASSUME IInv, FeedTypeOK, FeedOK, MemoryOK, NEW i \in Informers, List(i)
  PROVE  MemoryOK'
<1>0. UNCHANGED <<seen, torn, watching>> /\ watching
  BY DEF List, scoped
<1>1. CASE i = "pod"
  <2>1. /\ "pod" \notin listed /\ cache'.pod = pod /\ listed' = listed \cup {"pod"}
        /\ queue'["event"] = queue["event"]
        /\ \A j \in DOMAIN queue'["pod"] : queue'["pod"][j].of \in Pods
        /\ \A p \in Pods : Present(pod[p]) => Mentions(queue'["pod"], p)
    BY <1>1, ListPodIs
  <2>2. queue["pod"] = <<>> /\ \A p \in Pods : cache.pod[p] = "absent"
    BY <1>0, <2>1 DEF FeedOK
  <2>3. \A p \in Pods, t \in Troubles : seen[<<p, t>>] # "narrated"
    BY <1>0, <2>2, NothingSaid, NotTrouble DEF MemoryOK
  <2>4. FirstHeard'
    BY <1>0, <2>1, <2>3 DEF MemoryOK, FirstHeard
  <2>5. \A p \in Pods : pod[p] \in Troubles => Mentions(queue'["pod"], p)
    BY <2>1, NotTrouble DEF Present
  <2> QED BY <1>0, <2>1, <2>3, <2>4, <2>5 DEF MemoryOK
<1>2. CASE i = "event"
  <2>1. /\ "event" \notin listed /\ cache'.pod = cache.pod /\ listed' = listed \cup {"event"}
        /\ queue'["pod"] = queue["pod"] /\ queue' \in [Informers -> Seq(Names)]
    BY <1>2, ListEventIs
  <2>2. \A s \in Subjects : seen[<<s, Warning>>] # "narrated"
    BY <1>0, <2>1 DEF MemoryOK, FirstHeard
  <2>3. \A j \in DOMAIN queue'["event"] : queue'["event"][j].of \in Subjects
    <3>1. \A j \in DOMAIN queue'["event"] : queue'["event"][j] \in Names
      BY <2>1, NotTrouble
    <3> QED BY <3>1 DEF Names
  <2>4. FirstHeard'
    BY <1>0, <2>1, <2>2, <2>3 DEF MemoryOK, FirstHeard
  <2> QED BY <1>0, <2>1, <2>4 DEF MemoryOK
<1> QED BY <1>1, <1>2, NotTrouble

(* A watch: what comes now is no initial list. *)
LEMMA MemoryWatch ==
  ASSUME IInv, FeedTypeOK, FeedOK, MemoryOK, NEW p \in Pods, WatchPod(p)
  PROVE  MemoryOK'
<1>1. UNCHANGED <<seen, torn, watching, listed>> /\ watching
  BY DEF WatchPod, scoped
<1>2. cache'.pod[p] = pod[p] /\ pod[p] # "absent" /\ \A q \in Pods : q # p => cache'.pod[q] = cache.pod[q]
  BY WatchPodIs
<1>3. queue["pod"] \in Seq(Names) /\ pod[p] \in PodStates
  BY QueuedAre DEF FeedTypeOK
<1>4. CASE UNCHANGED queue /\ pod[p] = "gone" /\ ~Present(cache.pod[p])
  <2>1. cache.pod[p] \notin Troubles /\ cache'.pod[p] \notin Troubles
    BY <1>2, <1>4, NotTrouble DEF Present
  <2>2. \A q \in Pods : cache'.pod[q] \in Troubles <=> cache.pod[q] \in Troubles
    BY <1>2, <2>1
  <2>3. \A q \in Pods : cache'.pod[q] \in Troubles => cache'.pod[q] = cache.pod[q]
    BY <1>2, <2>1
  <2>4. FirstHeard'
    BY <1>1, <1>4 DEF MemoryOK, FirstHeard
  <2> QED BY <1>1, <1>4, <2>2, <2>3, <2>4 DEF MemoryOK
<1>5. CASE \E n \in Names :
             /\ n.of = p /\ n.is = pod[p] /\ n.kind # "initial"
             /\ queue'["pod"] = Append(queue["pod"], n) /\ queue'["event"] = queue["event"]
  <2>1. PICK n \in Names :
          /\ n.of = p /\ n.is = pod[p] /\ n.kind # "initial"
          /\ queue'["pod"] = Append(queue["pod"], n) /\ queue'["event"] = queue["event"]
    BY <1>5
  <2>2. FirstHeard'
    <3>1. \A j \in DOMAIN queue'["pod"] : queue'["pod"][j].kind = "initial" =>
            j \in DOMAIN queue["pod"] /\ queue'["pod"][j] = queue["pod"][j]
      BY <1>3, <2>1, AppendIs
    <3> QED BY <1>1, <2>1, <3>1 DEF MemoryOK, FirstHeard
  <2>3. /\ \A q, what : Word(queue["pod"], q, what) => Word(queue'["pod"], q, what)
        /\ \A what : pod[p] \in what => Word(queue'["pod"], p, what)
        /\ \A q : Mentions(queue["pod"], q) => Mentions(queue'["pod"], q)
        /\ Mentions(queue'["pod"], p)
    BY <1>3, <2>1, AppendSays
  <2>4. ASSUME NEW q \in Pods, NEW t \in Troubles, seen'[<<q, t>>] = "narrated"
        PROVE  cache'.pod[q] \in Troubles \/ Word(queue'["pod"], q, {"healthy", "gone"})
    <3>1. CASE q = p
      <4>1. pod[p] \in Troubles \/ pod[p] \in {"healthy", "gone"}
        BY <1>2, <1>3 DEF PodStates
      <4> QED BY <1>2, <2>3, <3>1, <4>1
    <3>2. CASE q # p
      BY <1>1, <1>2, <2>3, <2>4, <3>2 DEF MemoryOK
    <3> QED BY <3>1, <3>2
  <2>5. ASSUME NEW q \in Pods, cache'.pod[q] \in Troubles
        PROVE  seen'[<<q, cache'.pod[q]>>] # "no" \/ Mentions(queue'["pod"], q)
    BY <1>1, <1>2, <2>3, <2>5 DEF MemoryOK
  <2>6. \A k \in Keys : seen'[k] = "seeded" => ~torn'
    BY <1>1 DEF MemoryOK
  <2> QED BY <2>2, <2>4, <2>5, <2>6 DEF MemoryOK
<1> QED BY <1>4, <1>5, WatchPodIs

LEMMA MemoryWatchEvent ==
  ASSUME IInv, FeedTypeOK, FeedOK, MemoryOK, NEW s \in Subjects, WatchEvent(s)
  PROVE  MemoryOK'
<1>1. UNCHANGED <<seen, torn, watching, listed>> /\ watching
  BY DEF WatchEvent, scoped
<1>2. PICK n \in Names :
        /\ cache'.pod = cache.pod /\ n.kind # "initial"
        /\ queue'["event"] = Append(queue["event"], n) /\ queue'["pod"] = queue["pod"]
  BY WatchEventIs
<1>3. queue["event"] \in Seq(Names)
  BY QueuedAre
<1>4. \A j \in DOMAIN queue'["event"] : queue'["event"][j].kind = "initial" =>
        j \in DOMAIN queue["event"] /\ queue'["event"][j] = queue["event"][j]
  BY <1>2, <1>3, AppendIs
<1>5. FirstHeard'
  BY <1>1, <1>2, <1>4 DEF MemoryOK, FirstHeard
<1> QED BY <1>1, <1>2, <1>5 DEF MemoryOK

LEMMA NextMemory ==
  ASSUME Patient, IInv, ScopeOK, FeedTypeOK, FeedOK, HandsOK, MemoryOK, [Next]_vars
  PROVE  MemoryOK'
<1> USE DEF engine, cluster, scoped, feed, hands, bounce
<1>0. seen \in [Keys -> {"no", "seeded", "narrated"}] /\ watching \in BOOLEAN
  BY DEF IInv
<1>1. ASSUME ~watching' PROVE MemoryOK'
  BY <1>1 DEF MemoryOK
<1>2. CASE Reconcile
  <2>1. ASSUME watching'
        PROVE  /\ cache'.pod = [p \in Pods |-> "absent"]
               /\ queue' = queue /\ queue["pod"] = <<>> /\ queue["event"] = <<>>
               /\ \A k \in Keys : seen'[k] = "no"
    BY <1>0, <1>2, <2>1, ReconcileIs, UntouchedIs, NotTrouble DEF Reconcile
  <2>2. ASSUME watching' PROVE MemoryOK'
    <3>1. /\ \A p \in Pods, t \in Troubles : seen'[<<p, t>>] = "no"
          /\ \A s \in Subjects : seen'[<<s, Warning>>] = "no"
          /\ \A p \in Pods : cache'.pod[p] \notin Troubles
      BY <2>1, <2>2, KeysAre, NotTrouble
    <3>2. FirstHeard'
      BY <2>1, <2>2, <3>1 DEF FirstHeard
    <3> QED BY <2>1, <2>2, <3>1, <3>2 DEF MemoryOK
  <2> QED BY <1>1, <2>2
<1>3. CASE Start \/ Retry
  <2>1. ~watching'
    BY <1>3, BeginScope DEF Start, Retry, Begin, Settled
  <2> QED BY <1>1, <2>1
<1>4. CASE \/ Recommend \/ Finish \/ ClusterNext \/ Timer \/ UNCHANGED vars
           \/ (\E i \in Informers : Publish(i)) \/ CheckPod
  <2>1. UNCHANGED <<queue, cache, listed, torn, watching, seen>>
    BY <1>4 DEF Recommend, Finish, ClusterNext, PodChanges, Warn,
       Timer, vars, Publish, CheckPod
  <2> QED BY <2>1, MemoryKeep
<1>5. CASE Corroborated
  <2>1. UNCHANGED <<queue, cache, listed, torn, watching>>
    BY <1>5 DEF Corroborated
  <2>2. PICK p \in Pods : seen' = [seen EXCEPT ![<<p, Warning>>] = "no"]
    BY <1>5, CorroboratedIs
  <2>3. <<p, Warning>> \notin PodKeys
    BY KeysAre
  <2>4. \A k \in Keys : seen'[k] = seen[k] \/ (seen'[k] = "no" /\ k \notin PodKeys)
    BY <1>0, <2>2, <2>3
  <2> QED BY <2>1, <2>4, MemoryKeep
<1>6. CASE \E i \in Informers : List(i)
  BY <1>6, MemoryList
<1>7. CASE \E i \in Informers : Abandon(i)
  <2>1. ~watching'
    BY <1>7 DEF Abandon
  <2> QED BY <1>1, <2>1
<1>8. CASE \E p \in Pods : WatchPod(p)
  BY <1>8, MemoryWatch
<1>9. CASE \E s \in Subjects : WatchEvent(s)
  BY <1>9, MemoryWatchEvent
<1>10. ASSUME watching, PodRecovers PROVE MemoryOK'
  <2>1. Take("pod") /\ UNCHANGED <<cache, listed, torn, watching>>
    BY <1>10 DEF PodRecovers
  <2>2. PICK p \in Pods, K \in SUBSET Keys :
          /\ Taken("pod").of = p /\ Taken("pod").is = "healthy" /\ K = Recovery(p)
          /\ seen' = [k \in Keys |-> IF k \in K THEN "no" ELSE seen[k]]
    BY <1>10, PodRecoversIs
  <2>3. \A k \in Keys : seen'[k] \in {seen[k], "no"}
    BY <2>2
  <2>4. \A t \in Troubles : seen'[<<p, t>>] = "no"
    BY <2>2, KeysAre DEF Recovery, Remembered, About
  <2>5. \A q \in Pods, t \in Troubles : q # p => seen'[<<q, t>>] = seen[<<q, t>>]
    <3>1. ASSUME NEW q \in Pods, NEW t \in Troubles, q # p PROVE <<q, t>> \notin K
      BY <2>2, <3>1, NotTrouble DEF Recovery, Remembered, About
    <3> QED BY <2>2, <3>1, KeysAre
  <2> QED BY <1>10, <2>1, <2>2, <2>3, <2>4, <2>5, NotTrouble, MemoryForgets
<1>11. ASSUME watching, PodArises PROVE MemoryOK'
  <2>1. Take("pod") /\ UNCHANGED <<cache, listed, torn, watching>>
    BY <1>11 DEF PodArises
  <2>2. PICK p \in Pods, t \in Troubles :
          /\ Taken("pod").of = p /\ Taken("pod").is = t
          /\ seen[<<p, t>>] = "no" => seen' = [seen EXCEPT ![<<p, t>>] = "narrated"]
          /\ seen[<<p, t>>] # "no" => UNCHANGED seen
    BY <1>11, PodArisesIs
  <2>3. PICK now \in {"no", "seeded", "narrated"} :
          now = IF seen[<<p, t>>] = "no" THEN "narrated" ELSE seen[<<p, t>>]
    BY <1>0, KeysAre
  <2>4. \A k \in Keys : seen'[k] = IF k = <<p, t>> THEN now ELSE seen[k]
    BY <1>0, <2>2, <2>3
  <2>5. now # "no" /\ (now = "seeded" => seen[<<p, t>>] = "seeded")
    BY <2>3
  <2> QED BY <1>11, <2>1, <2>2, <2>4, <2>5, MemoryArises
<1>12. ASSUME watching, PodDeleted PROVE MemoryOK'
  <2>1. Take("pod") /\ UNCHANGED <<cache, listed, torn, watching>>
    BY <1>12 DEF PodDeleted
  <2>2. PICK p \in Pods, all \in SUBSET Keys :
          /\ Taken("pod").of = p /\ Taken("pod").is = "gone" /\ all = About(p) \cup {<<p, Warning>>}
          /\ seen' = [k \in Keys |-> IF k \in all THEN "no" ELSE seen[k]]
    BY <1>12, PodDeletedIs
  <2>3. \A k \in Keys : seen'[k] \in {seen[k], "no"}
    BY <2>2
  <2>4. \A t \in Troubles : seen'[<<p, t>>] = "no"
    BY <2>2, KeysAre DEF About
  <2>5. \A q \in Pods, t \in Troubles : q # p => seen'[<<q, t>>] = seen[<<q, t>>]
    <3>1. ASSUME NEW q \in Pods, NEW t \in Troubles, q # p PROVE <<q, t>> \notin all
      BY <2>2, <3>1, NotTrouble DEF About
    <3> QED BY <2>2, <3>1, KeysAre
  <2> QED BY <1>12, <2>1, <2>2, <2>3, <2>4, <2>5, NotTrouble, MemoryForgets
<1>13. ASSUME watching, PodSeeds PROVE MemoryOK'
  BY <1>13, MemorySeeds
<1>14. ASSUME watching, EventArises \/ EventSeeds \/ EventExpires PROVE MemoryOK'
  <2>1. Take("event") /\ UNCHANGED <<cache, listed, torn, watching>>
    BY <1>14 DEF EventArises, EventSeeds, EventExpires
  <2>2. PICK to \in {"seeded", "narrated", "no"} :
          /\ UNCHANGED seen \/ seen' = [seen EXCEPT ![Warned] = to]
          /\ to = "seeded" => ~torn
    BY <1>14 DEF EventArises, EventSeeds, EventExpires, isRestart
  <2>3. \A k \in Keys : k # Warned => seen'[k] = seen[k]
    BY <1>0, <2>2
  <2>4. seen'[Warned] = "seeded" => seen[Warned] = "seeded" \/ ~torn
    BY <1>0, <2>1, <2>2, EventTaken
  <2> QED BY <1>14, <2>1, <2>3, <2>4, MemoryEvent
<1>15. CASE \/ PodRecovers \/ PodArises \/ PodSeeds \/ PodDeleted
            \/ EventArises \/ EventSeeds \/ EventExpires
  <2>1. UNCHANGED watching
    BY <1>15 DEF PodRecovers, PodArises, PodSeeds, PodDeleted, EventArises, EventSeeds, EventExpires
  <2> QED BY <1>1, <1>10, <1>11, <1>12, <1>13, <1>14, <1>15, <2>1
<1> QED BY <1>2, <1>3, <1>4, <1>5, <1>6, <1>7, <1>8, <1>9, <1>15 DEF Next, EngineNext, Deliver

(***************************************************************************)
(* The pods that are looked up.                                            *)
(***************************************************************************)
(* Nothing is taken from the Pod informer's queue or cache. *)
LEMMA CheckKeep ==
  ASSUME CheckOK, queue'["pod"] = queue["pod"], cache'.pod = cache.pod, listed \subseteq listed',
         watching' /\ gaps' = {} => watching /\ gaps = {},
         \A p \in Pods : seen'[<<p, Warning>>] = "narrated" =>
           check'.pod = p \/ (seen[<<p, Warning>>] = "narrated" /\ check.pod # p)
  PROVE  CheckOK'
BY DEF CheckOK

(* What is taken from it is no word of a recovery, or one that is heard. *)
LEMMA CheckTakes ==
  ASSUME FeedTypeOK, CheckOK, Take("pod"), UNCHANGED <<cache, listed, watching, check>>,
         gaps \subseteq gaps',
         \A p \in Pods : seen'[<<p, Warning>>] = "narrated" =>
           /\ seen[<<p, Warning>>] = "narrated"
           /\ ~(Taken("pod").of = p /\ Taken("pod").is = "healthy") \/ Taken("pod").kind = "initial"
  PROVE  CheckOK'
<1> SUFFICES ASSUME watching, gaps = {}, NEW p \in Pods, seen'[<<p, Warning>>] = "narrated"
             PROVE  \/ check.pod = p
                    \/ "pod" \in listed
                       /\ (cache.pod[p] # "healthy" \/ Word(queue'["pod"], p, {"healthy"}))
  BY DEF CheckOK
<1>1. \/ check.pod = p
      \/ "pod" \in listed
         /\ (cache.pod[p] # "healthy" \/ Word(queue["pod"], p, {"healthy"}))
  BY DEF CheckOK
<1>2. /\ queue["pod"] \in Seq(Names) /\ queue["pod"] # <<>> /\ queue'["pod"] = Tail(queue["pod"])
      /\ Taken("pod") = Head(queue["pod"])
  BY TakeLeaves, NotTrouble
<1>3. Word(queue["pod"], p, {"healthy"}) => Word(queue'["pod"], p, {"healthy"})
  <2>1. ~(Head(queue["pod"]).of = p /\ Head(queue["pod"]).is \in {"healthy"}) \/ Head(queue["pod"]).kind = "initial"
    BY <1>2
  <2> QED BY <1>2, <2>1, TailSays
<1> QED BY <1>1, <1>3

LEMMA NextCheck ==
  ASSUME Patient, IInv, ScopeOK, FeedTypeOK, FeedOK, HandsOK, CheckOK, [Next]_vars
  PROVE  CheckOK'
<1> USE DEF engine, cluster, scoped, feed, hands, bounce
<1>0. seen \in [Keys -> {"no", "seeded", "narrated"}] /\ watching \in BOOLEAN
  BY DEF IInv
<1>k. \A s \in Subjects : <<s, Warning>> \in Keys
  BY KeysAre
<1>1. ASSUME ~watching' PROVE CheckOK'
  BY <1>1 DEF CheckOK
<1>2. CASE Reconcile
  <2>1. watching' => \A k \in Keys : seen'[k] = "no"
    BY <1>0, <1>2, ReconcileIs
  <2> QED BY <1>k, <2>1, KeysAre DEF CheckOK
<1>3. CASE Start \/ Retry
  <2>1. ~watching'
    BY <1>3, BeginScope DEF Start, Retry, Begin, Settled
  <2> QED BY <1>1, <2>1
<1>4. CASE Recommend \/ Finish \/ ClusterNext \/ Timer \/ UNCHANGED vars \/ \E i \in Informers : Publish(i)
  <2>1. UNCHANGED <<queue, cache, listed, watching, seen, check, gaps>>
    BY <1>4 DEF Recommend, Finish, ClusterNext, PodChanges, Warn, Timer, vars, Publish
  <2> QED BY <2>1, CheckKeep
<1>5. CASE List("pod")
  <2>1. "pod" \notin listed /\ UNCHANGED <<watching, seen, check, gaps>> /\ watching
    BY <1>5 DEF List
  <2> QED BY <2>1 DEF CheckOK
<1>6. CASE List("event")
  <2>1. UNCHANGED <<watching, seen, check, gaps>>
    BY <1>6 DEF List
  <2> QED BY <1>6, <2>1, ListEventIs, CheckKeep
<1>7. CASE \E i \in Informers : Abandon(i)
  <2>1. ~watching'
    BY <1>7 DEF Abandon
  <2> QED BY <1>1, <2>1
<1>8. CASE \E p \in Pods : WatchPod(p)
  <2>1. PICK p \in Pods : WatchPod(p)
    BY <1>8
  <2>2. UNCHANGED <<watching, seen, check, gaps, listed>>
    BY <2>1 DEF WatchPod
  <2>3. cache'.pod[p] = pod[p] /\ \A q \in Pods : q # p => cache'.pod[q] = cache.pod[q]
    BY <2>1, WatchPodIs
  <2>4. "pod" \in listed
    BY <2>1, WatchPodIs
  <2>5. queue["pod"] \in Seq(Names)
    BY QueuedAre
  <2>6. \A q \in Pods : Word(queue["pod"], q, {"healthy"}) => Word(queue'["pod"], q, {"healthy"})
    <3>1. ASSUME NEW n \in Names, queue'["pod"] = Append(queue["pod"], n), NEW q \in Pods,
                 Word(queue["pod"], q, {"healthy"})
          PROVE  Word(queue'["pod"], q, {"healthy"})
      BY <2>5, <3>1, AppendSays
    <3>2. UNCHANGED queue \/ \E n \in Names : queue'["pod"] = Append(queue["pod"], n)
      BY <2>1, WatchPodIs
    <3> QED BY <3>1, <3>2
  <2>7. pod[p] = "healthy" => Word(queue'["pod"], p, {"healthy"})
    <3>1. ASSUME NEW n \in Names, n.of = p, n.is = pod[p], n.kind # "initial", pod[p] = "healthy",
                 queue'["pod"] = Append(queue["pod"], n)
          PROVE  Word(queue'["pod"], p, {"healthy"})
      BY <2>5, <3>1, AppendSays
    <3>2. pod[p] = "healthy" => \E n \in Names :
            n.of = p /\ n.is = pod[p] /\ n.kind # "initial" /\ queue'["pod"] = Append(queue["pod"], n)
      BY <2>1, WatchPodIs
    <3> QED BY <3>1, <3>2
  <2> QED BY <2>2, <2>3, <2>4, <2>6, <2>7 DEF CheckOK
<1>9. CASE \E s \in Subjects : WatchEvent(s)
  <2>1. PICK s \in Subjects : WatchEvent(s)
    BY <1>9
  <2>2. UNCHANGED <<watching, seen, check, gaps, listed>>
    BY <2>1 DEF WatchEvent
  <2>3. cache'.pod = cache.pod /\ queue'["pod"] = queue["pod"]
    BY <2>1, WatchEventIs
  <2> QED BY <2>2, <2>3, CheckKeep
<1>10. CASE PodRecovers
  <2>1. Take("pod") /\ UNCHANGED <<cache, listed, check, watching>>
    BY <1>10 DEF PodRecovers
  <2>2. PICK p \in Pods, K \in SUBSET Keys :
          /\ Taken("pod").of = p /\ K = Recovery(p)
          /\ watching => seen' = [k \in Keys |-> IF k \in K THEN "no" ELSE seen[k]]
                         /\ gaps' = gaps \cup Overtaken(K)
    BY <1>10, PodRecoversIs
  <2>3. ASSUME watching PROVE CheckOK'
    <3>1. \A q \in Pods : seen'[<<q, Warning>>] = "narrated" => seen[<<q, Warning>>] = "narrated" /\ q # p
      <4>1. \A k \in Keys : seen'[k] = "narrated" => seen[k] = "narrated" /\ k \notin K
        BY <2>2, <2>3
      <4>2. seen[<<p, Warning>>] = "narrated" => <<p, Warning>> \in K
        BY <1>k, <2>2 DEF Recovery, Remembered, Subjects
      <4> QED BY <1>k, <4>1, <4>2, KeysAre
    <3> QED BY <2>1, <2>2, <2>3, <3>1, CheckTakes
  <2> QED BY <1>1, <2>1, <2>3
<1>11. CASE PodArises
  <2>1. Take("pod") /\ UNCHANGED <<cache, listed, check, watching, gaps>>
    BY <1>11 DEF PodArises
  <2>2. PICK p \in Pods, t \in Troubles :
          /\ Taken("pod").of = p /\ Taken("pod").is = t
          /\ UNCHANGED seen \/ seen' = [seen EXCEPT ![<<p, t>>] = "narrated"]
    BY <1>11, PodArisesIs
  <2>3. \A q \in Pods : seen'[<<q, Warning>>] = seen[<<q, Warning>>] /\ Taken("pod").is # "healthy"
    BY <1>0, <1>k, <2>2, KeysAre, NotTrouble
  <2> QED BY <2>1, <2>3, CheckTakes
<1>12. CASE PodSeeds
  <2>1. Take("pod") /\ UNCHANGED <<cache, listed, check, watching, gaps>>
    BY <1>12 DEF PodSeeds
  <2>2. Taken("pod").kind = "initial" /\ \A k \in Keys : seen'[k] = "narrated" => seen[k] = "narrated"
    BY <1>0, <1>12, PodSeedsIs
  <2>3. \A q \in Pods : seen'[<<q, Warning>>] = "narrated" => seen[<<q, Warning>>] = "narrated"
    BY <1>k, <2>2, KeysAre
  <2> QED BY <2>1, <2>2, <2>3, CheckTakes
<1>13. CASE PodDeleted
  <2>1. Take("pod") /\ UNCHANGED <<cache, listed, check, watching>>
    BY <1>13 DEF PodDeleted
  <2>2. PICK all \in SUBSET Keys :
          /\ Taken("pod").is = "gone" /\ gaps' = gaps \cup Overtaken(all)
          /\ seen' = [k \in Keys |-> IF k \in all THEN "no" ELSE seen[k]]
    BY <1>13, PodDeletedIs
  <2>3. \A q \in Pods : seen'[<<q, Warning>>] = "narrated" => seen[<<q, Warning>>] = "narrated"
    BY <1>k, <2>2, KeysAre
  <2> QED BY <2>1, <2>2, <2>3, CheckTakes
<1>14. CASE EventArises
  <2>1. /\ Take("event") /\ check.pod = None
        /\ UNCHANGED <<cache, listed, watching, gaps>>
    BY <1>14 DEF EventArises
  <2>2. PICK s \in Subjects :
          \/ /\ seen' = [seen EXCEPT ![<<s, Warning>>] = "narrated"]
             /\ check' = IF s \in Pods THEN [pod |-> s, healthy |-> FALSE] ELSE check
          \/ UNCHANGED <<seen, check>>
    BY <1>14, EventArisesIs
  <2>3. queue'["pod"] = queue["pod"]
    BY <2>1, TakeLeaves, NotTrouble
  <2>4. ASSUME NEW p \in Pods, seen'[<<p, Warning>>] = "narrated"
        PROVE  check'.pod = p \/ (seen[<<p, Warning>>] = "narrated" /\ check.pod # p)
    <3>1. check.pod # p
      BY <2>1, NotTrouble
    <3>2. CASE UNCHANGED <<seen, check>>
      BY <2>4, <3>1, <3>2
    <3>3. CASE /\ seen' = [seen EXCEPT ![<<s, Warning>>] = "narrated"]
               /\ check' = IF s \in Pods THEN [pod |-> s, healthy |-> FALSE] ELSE check
      <4>1. CASE s = p
        BY <3>3, <4>1
      <4>2. CASE s # p
        <5>1. seen'[<<p, Warning>>] = seen[<<p, Warning>>]
          BY <1>0, <1>k, <3>3, <4>2, KeysAre
        <5> QED BY <2>4, <3>1, <5>1
      <4> QED BY <4>1, <4>2
    <3> QED BY <2>2, <3>2, <3>3
  <2> QED BY <2>1, <2>3, <2>4, CheckKeep
<1>15. CASE EventSeeds \/ EventExpires
  <2>1. Take("event") /\ check.pod = None /\ UNCHANGED <<cache, listed, watching, check>> /\ gaps \subseteq gaps'
    BY <1>15 DEF EventSeeds, EventExpires
  <2>2. PICK to \in {"seeded", "no"} : UNCHANGED seen \/ seen' = [seen EXCEPT ![Warned] = to]
    BY <1>15 DEF EventSeeds, EventExpires
  <2>3. queue'["pod"] = queue["pod"]
    BY <2>1, TakeLeaves, NotTrouble
  <2>4. \A k \in Keys : seen'[k] = "narrated" => seen[k] = "narrated"
    BY <1>0, <2>2
  <2>5. \A p \in Pods : seen'[<<p, Warning>>] = "narrated" => seen[<<p, Warning>>] = "narrated" /\ check.pod # p
    BY <1>k, <2>1, <2>4, KeysAre, NotTrouble
  <2> QED BY <2>1, <2>3, <2>5, CheckKeep
<1>16. CASE CheckPod
  <2>1. /\ UNCHANGED <<queue, cache, listed, watching, seen>> /\ gaps \subseteq gaps'
        /\ gaps' = {} => "pod" \in listed
        /\ \/ check'.pod = check.pod
           \/ watching => cache.pod[check.pod] # "healthy"
    <3>1. UNCHANGED <<queue, cache, listed, watching, seen>> /\ gaps \subseteq gaps'
      BY <1>16 DEF CheckPod
    <3>2. gaps' = {} => "pod" \in listed
      BY <1>16 DEF CheckPod
    <3>3. check \in [pod : Pods \cup {None}, healthy : BOOLEAN]
      BY DEF HandsOK
    <3>4. Healthy(check.pod) => check'.pod = check.pod
      BY <1>16, <3>3 DEF CheckPod
    <3> QED BY <3>1, <3>2, <3>4 DEF Healthy
  <2> QED BY <2>1 DEF CheckOK
<1>17. CASE Corroborated
  <2>1. UNCHANGED <<queue, cache, listed, watching, gaps>>
    BY <1>17 DEF Corroborated
  <2>2. PICK p \in Pods : check.pod = p /\ seen' = [seen EXCEPT ![<<p, Warning>>] = "no"]
    BY <1>17, CorroboratedIs
  <2>3. ASSUME NEW q \in Pods, seen'[<<q, Warning>>] = "narrated"
        PROVE  seen[<<q, Warning>>] = "narrated" /\ check.pod # q
    BY <1>0, <1>k, <2>2, <2>3, KeysAre
  <2> QED BY <2>1, <2>3, CheckKeep
<1> QED BY <1>2, <1>3, <1>4, <1>5, <1>6, <1>7, <1>8, <1>9, <1>10, <1>11, <1>12, <1>13, <1>14, <1>15, <1>16, <1>17,
           NotTrouble DEF Next, EngineNext, Deliver

LEMMA NextWords ==
  ASSUME Patient, IInv, ScopeOK, TimesOK, FeedTypeOK, HandsOK, MemoryOK, WordsOK, [Next]_vars
  PROVE  TimesOK' /\ WordsOK'
<1> USE DEF engine, cluster, scoped, feed, hands, bounce
<1>0. seen \in [Keys -> {"no", "seeded", "narrated"}] /\ watching \in BOOLEAN
  BY DEF IInv
<1>1. ASSUME UNCHANGED <<pending, released, row>> PROVE TimesOK'
  BY <1>1 DEF TimesOK
<1>2. ASSUME ~watching' PROVE WordsOK'
  BY <1>2 DEF WordsOK
<1>3. CASE Start \/ Retry
  <2>1. /\ ~watching' /\ row' = [k \in Keys |-> NoRow] /\ UNCHANGED <<pending, released>>
    BY <1>3, BeginScope DEF Start, Retry, Begin, Settled
  <2>2. TimesOK'
    <3>1. row' \in [Keys -> [at : Nat, resolved : BOOLEAN]] /\ \A k \in Keys : row'[k].at = 0
      BY <2>1 DEF NoRow
    <3> QED BY <2>1, <3>1 DEF TimesOK
  <2> QED BY <1>2, <2>1, <2>2
<1>4. CASE Reconcile
  <2>1. UNCHANGED <<pending, released, row, out>>
    BY <1>4 DEF Reconcile
  <2>2. ASSUME watching' PROVE WordsOK'
    <3>1. /\ \A k \in Keys : seen'[k] = "no"
          /\ Untouched
      BY <1>0, <1>4, <2>2, ReconcileIs
    <3>2. \A k : ~Arising("pod", k)' /\ ~Resolving("pod", k)' /\ ~Arising("event", k)' /\ ~Resolving("event", k)'
      BY <2>1, <3>1, UntouchedIs, NotTrouble DEF Arising, Resolving
    <3>3. \A k \in Keys : ~Waiting(k)' /\ ~Late(k)'
      BY <2>1, <3>1, UntouchedIs DEF Waiting, Late, Red, Untouched, NoRow
    <3>4. \A k \in PodKeys : PodWords(k)'
      BY <3>1, <3>2, <3>3, KeysAre DEF PodWords
    <3>5. \A k \in Keys \ PodKeys : WarningWords(k)'
      BY <3>1, <3>2, <3>3 DEF WarningWords
    <3> QED BY <3>4, <3>5 DEF WordsOK
  <2> QED BY <1>1, <1>2, <2>1, <2>2
<1>5. CASE \/ Recommend \/ Finish \/ ClusterNext \/ UNCHANGED vars \/ CheckPod
           \/ (\E i \in Informers : List(i) \/ Abandon(i))
           \/ (\E p \in Pods : WatchPod(p)) \/ (\E s \in Subjects : WatchEvent(s))
  <2>1. UNCHANGED <<pending, released, row, out, seen, watching>> /\ gaps \subseteq gaps'
    BY <1>5 DEF Recommend, Finish, ClusterNext, PodChanges, Warn, vars, CheckPod, List, Abandon, WatchPod, WatchEvent
  <2> QED BY <1>1, <2>1, WordsKeep
<1>6. CASE Timer
  BY <1>6, WordsTimer
<1>7. CASE \E i \in Informers : Publish(i)
  BY <1>7, WordsPublish
<1>8. CASE PodRecovers
  <2>1. UNCHANGED <<pending, released, row, watching>>
    BY <1>8 DEF PodRecovers
  <2>2. PICK p \in Pods, K \in SUBSET Keys :
          /\ out["pod"] = <<>> /\ K = Recovery(p)
          /\ watching =>
               /\ out' = [out EXCEPT !["pod"] = SetToSeq(Says(K, TRUE))]
               /\ seen' = [k \in Keys |-> IF k \in K THEN "no" ELSE seen[k]]
               /\ gaps' = gaps \cup Overtaken(K)
    BY <1>8, PodRecoversIs
  <2>3. ASSUME watching PROVE WordsOK'
    <3>1. /\ out' = [out EXCEPT !["pod"] = SetToSeq(Says(K, TRUE))]
          /\ \A k \in Keys : seen'[k] = IF k \in K THEN "no" ELSE seen[k]
          /\ gaps \cup Overtaken(K) \subseteq gaps'
      BY <2>2, <2>3
    <3> QED BY <2>1, <2>2, <2>3, <3>1, NotTrouble, WordsResolve
  <2> QED BY <1>1, <1>2, <2>1, <2>3
<1>9. CASE PodDeleted
  <2>1. UNCHANGED <<pending, released, row, watching>>
    BY <1>9 DEF PodDeleted
  <2>2. PICK p \in Pods, all \in SUBSET Keys, K \in SUBSET Keys :
          /\ out["pod"] = <<>> /\ K = Narrated(all)
          /\ out' = [out EXCEPT !["pod"] = SetToSeq(Says(K, TRUE))]
          /\ seen' = [k \in Keys |-> IF k \in all THEN "no" ELSE seen[k]]
          /\ gaps' = gaps \cup Overtaken(all)
    BY <1>9, PodDeletedIs
  <2>3. ASSUME watching PROVE WordsOK'
    <3>1. /\ K \in SUBSET all /\ \A k \in all : seen[k] = "narrated" => k \in K
          /\ \A k \in Keys : seen'[k] = IF k \in all THEN "no" ELSE seen[k]
          /\ gaps \cup Overtaken(all) \subseteq gaps'
      BY <2>2 DEF Narrated
    <3> QED BY <2>1, <2>2, <2>3, <3>1, NotTrouble, WordsResolve
  <2> QED BY <1>1, <1>2, <2>1, <2>3
<1>10. CASE PodArises
  <2>1. UNCHANGED <<pending, released, row, watching, gaps>>
    BY <1>10 DEF PodArises
  <2>2. PICK p \in Pods, t \in Troubles :
          /\ out["pod"] = <<>>
          /\ watching /\ seen[<<p, t>>] = "no" =>
               /\ out' = [out EXCEPT !["pod"] = SetToSeq(Says({<<p, t>>}, FALSE))]
               /\ seen' = [seen EXCEPT ![<<p, t>>] = "narrated"]
          /\ ~(watching /\ seen[<<p, t>>] = "no") => UNCHANGED <<out, seen>>
    BY <1>10, PodArisesIs
  <2>3. PICK k \in PodKeys : k = <<p, t>>
    BY KeysAre
  <2>4. CASE watching /\ seen[k] = "no"
    <3>1. /\ out' = [out EXCEPT !["pod"] = SetToSeq(Says({k}, FALSE))]
          /\ \A j \in Keys : seen'[j] = IF j = k THEN "narrated" ELSE seen[j]
      BY <1>0, <2>2, <2>3, <2>4
    <3>2. WordsOK'
      BY <2>1, <2>2, <2>4, <3>1, KeysAre, NotTrouble, WordsArise
    <3> QED BY <1>1, <2>1, <3>2
  <2>5. CASE ~(watching /\ seen[k] = "no")
    BY <1>1, <2>1, <2>2, <2>3, <2>5, WordsKeep
  <2> QED BY <2>4, <2>5
<1>11. CASE EventArises
  <2>1. UNCHANGED <<pending, released, row, watching, gaps>>
    BY <1>11 DEF EventArises
  <2>2. PICK s \in Subjects :
          /\ out["event"] = <<>>
          /\ watching /\ seen[<<s, Warning>>] = "no" =>
               /\ out' = [out EXCEPT !["event"] = SetToSeq(Says({<<s, Warning>>}, FALSE))]
               /\ seen' = [seen EXCEPT ![<<s, Warning>>] = "narrated"]
          /\ ~(watching /\ seen[<<s, Warning>>] = "no") => UNCHANGED <<out, seen>>
    BY <1>11, EventArisesIs
  <2>3. PICK k \in Keys \ PodKeys : k = <<s, Warning>>
    BY KeysAre
  <2>4. CASE watching /\ seen[k] = "no"
    <3>1. /\ out' = [out EXCEPT !["event"] = SetToSeq(Says({k}, FALSE))]
          /\ \A j \in Keys : seen'[j] = IF j = k THEN "narrated" ELSE seen[j]
      BY <1>0, <2>2, <2>3, <2>4
    <3>2. WordsOK'
      BY <2>1, <2>2, <2>4, <3>1, KeysAre, NotTrouble, WordsArise
    <3> QED BY <1>1, <2>1, <3>2
  <2>5. CASE ~(watching /\ seen[k] = "no")
    BY <1>1, <2>1, <2>2, <2>3, <2>5, WordsKeep
  <2> QED BY <2>4, <2>5
<1>12. CASE Corroborated
  <2>1. UNCHANGED <<pending, released, row, watching, gaps>>
    BY <1>12 DEF Corroborated
  <2>2. PICK p \in Pods, K \in SUBSET Keys :
          /\ out["event"] = <<>> /\ K = Remembered({<<p, Warning>>})
          /\ out' = [out EXCEPT !["event"] = SetToSeq(Says(K, TRUE))]
          /\ seen' = [seen EXCEPT ![<<p, Warning>>] = "no"]
    BY <1>12, CorroboratedIs
  <2>3. PICK all \in SUBSET Keys : all = {<<p, Warning>>}
    BY KeysAre
  <2>4. ASSUME watching PROVE WordsOK'
    <3>1. /\ K \in SUBSET all /\ \A k \in all : seen[k] = "narrated" => k \in K
      BY <2>2, <2>3 DEF Remembered
    <3>2. \A k \in Keys : seen'[k] = IF k \in all THEN "no" ELSE seen[k]
      BY <1>0, <2>2, <2>3
    <3>3. gaps \cup Overtaken(all) \subseteq gaps'
      BY <2>1, <2>2 DEF Overtaken
    <3>4. all \cap PodKeys = {}
      BY <2>3, KeysAre
    <3> QED BY <2>1, <2>2, <2>4, <3>1, <3>2, <3>3, <3>4, NotTrouble, WordsResolve
  <2> QED BY <1>1, <1>2, <2>1, <2>4
<1>13. CASE PodSeeds
  <2>1. UNCHANGED <<pending, released, row, watching, gaps, out>>
    BY <1>13 DEF PodSeeds
  <2>2. ASSUME watching, NEW k \in Keys PROVE seen'[k] = "narrated" <=> seen[k] = "narrated"
    <3>1. CASE UNCHANGED seen
      BY <3>1
    <3>2. CASE \E t \in Troubles : t = Taken("pod").is
                 /\ seen' = [seen EXCEPT ![<<Taken("pod").of, t>>] = "seeded"]
      <4>1. PICK t \in Troubles : seen' = [seen EXCEPT ![<<Taken("pod").of, t>>] = "seeded"]
        BY <3>2
      <4>2. 1 \in DOMAIN queue["pod"] /\ Taken("pod") = queue["pod"][1] /\ Taken("pod").kind = "initial"
        BY <1>13, TakeLeaves, TailIs, NotTrouble, PodSeedsIs DEF PodSeeds
      <4>3. seen[<<Taken("pod").of, t>>] # "narrated"
        BY <2>2, <4>2 DEF MemoryOK, FirstHeard
      <4> QED BY <1>0, <4>1, <4>3
    <3> QED BY <1>13, <3>1, <3>2, PodSeedsIs
  <2> QED BY <1>1, <2>1, <2>2, KeysAre, WordsKeep
<1>14. CASE EventSeeds
  <2>1. UNCHANGED <<pending, released, row, watching, gaps, out>> /\ Take("event")
    BY <1>14 DEF EventSeeds
  <2>2. ASSUME watching, NEW k \in Keys PROVE seen'[k] = "narrated" <=> seen[k] = "narrated"
    <3>1. seen' = [seen EXCEPT ![Warned] = "seeded"] /\ Warned = <<Taken("event").of, Warning>>
      BY <1>14, <2>1, <2>2, EventTaken DEF EventSeeds, Live
    <3>2. 1 \in DOMAIN queue["event"] /\ Taken("event") = queue["event"][1] /\ Taken("event").kind = "initial"
      BY <1>14, <2>1, TakeLeaves, TailIs, NotTrouble DEF EventSeeds
    <3>3. seen[Warned] # "narrated"
      BY <2>2, <3>1, <3>2 DEF MemoryOK, FirstHeard
    <3> QED BY <1>0, <3>1, <3>3
  <2> QED BY <1>1, <2>1, <2>2, KeysAre, WordsKeep
<1>15. CASE EventExpires
  <2>1. UNCHANGED <<pending, released, row, watching, out>> /\ Take("event")
        /\ seen' = [seen EXCEPT ![Warned] = "no"]
        /\ gaps \subseteq gaps' /\ (gaps' = {} => seen[Warned] # "narrated")
    BY <1>15 DEF EventExpires
  <2>2. Warned \in Keys \ PodKeys
    BY <2>1, EventTaken
  <2>3. \A k \in PodKeys : seen'[k] = "narrated" <=> seen[k] = "narrated"
    BY <1>0, <2>1, <2>2, KeysAre
  <2>4. gaps' = {} => \A k \in Keys \ PodKeys : seen'[k] = "narrated" <=> seen[k] = "narrated"
    BY <1>0, <2>1, <2>2
  <2> QED BY <1>1, <2>1, <2>3, <2>4, WordsKeep
<1> QED BY <1>3, <1>4, <1>5, <1>6, <1>7, <1>8, <1>9, <1>10, <1>11, <1>12, <1>13, <1>14, <1>15 DEF Next, EngineNext, Deliver

(***************************************************************************)
(* The rows.                                                               *)
(***************************************************************************)
RowInv ==
  /\ IInv /\ ScopeOK /\ TimesOK /\ FeedTypeOK /\ HandsOK /\ WordsOK
  /\ FeedOK /\ MemoryOK /\ CheckOK

LEMMA InitRow == Init => RowInv
<1> SUFFICES ASSUME Init PROVE RowInv
  OBVIOUS
<1>1. /\ ~watching /\ watching \in BOOLEAN /\ listed = {}
      /\ queue = [i \in Informers |-> <<>>] /\ out = [i \in Informers |-> <<>>]
      /\ cache = [pod |-> [p \in Pods |-> "absent"], event |-> [s \in Subjects |-> 0]]
      /\ check = [pod |-> None, healthy |-> FALSE]
      /\ seen = [k \in Keys |-> "no"] /\ event = [s \in Subjects |-> 0]
      /\ pod \in [Pods -> {"healthy", "absent"} \cup Troubles]
      /\ pending = [k \in Keys |-> 0] /\ released = {} /\ row = [k \in Keys |-> NoRow]
  BY DEF Init, DebounceInit
<1>2. IInv
  BY <1>1 DEF IInv, DeadIsForgotten
<1>3. TimesOK
  <2>1. row \in [Keys -> [at : Nat, resolved : BOOLEAN]] /\ pending \in [Keys -> Nat]
    BY <1>1 DEF NoRow
  <2>2. \A r \in released : r.at <= 0
    BY <1>1
  <2> QED BY <1>1, <2>1, <2>2 DEF TimesOK
<1>4. FeedTypeOK
  <2>1. <<>> \in Seq(Names) /\ <<>> \in Seq(PodNames)
    OBVIOUS
  <2>2. queue \in [Informers -> Seq(Names)] /\ queue["pod"] \in Seq(PodNames)
    BY <1>1, <2>1, NotTrouble
  <2>3. pod \in [Pods -> PodStates] /\ event \in [Subjects -> 0 .. 2]
    BY <1>1 DEF PodStates
  <2>4. cache \in [pod : [Pods -> PodStates], event : [Subjects -> 0 .. 2]]
        /\ \A p \in Pods : cache.pod[p] = "absent"
    BY <1>1 DEF PodStates
  <2> QED BY <1>1, <2>2, <2>3, <2>4 DEF FeedTypeOK
<1>5. HandsOK
  <2>1. <<>> \in Seq(Narrations) /\ check \in [pod : Pods \cup {None}, healthy : BOOLEAN]
    BY <1>1
  <2>2. out \in [Informers -> Seq(Narrations)] /\ \A i \in Informers : out[i] = <<>>
    BY <1>1, <2>1
  <2>3. \A i \in Informers : \A k : ~Arising(i, k) /\ ~Resolving(i, k)
    BY <2>2, NothingOut
  <2> QED BY <1>1, <2>1, <2>2, <2>3, NotTrouble DEF HandsOK
<1>6. FeedOK
  BY <1>1, NothingSaid, NotTrouble DEF FeedOK
<1>7. WordsOK /\ MemoryOK /\ CheckOK
  BY <1>1 DEF WordsOK, MemoryOK, CheckOK
<1> QED BY <1>2, <1>3, <1>4, <1>5, <1>6, <1>7, InitScope DEF RowInv

LEMMA NextRow == ASSUME Patient PROVE RowInv /\ [Next]_vars => RowInv'
BY NextIInv, NextScope, NextWords, NextFeedType, NextHands, NextFeed, NextMemory, NextCheck DEF RowInv

(* When nothing is under way, a row says what is remembered of its condition. *)
LEMMA QuietIs ==
  ASSUME RowInv, Quiet
  PROVE  /\ watching /\ cache.pod = pod /\ released = {}
         /\ \A k \in Keys : ~Waiting(k) /\ (Late(k) <=> Red(k))
         /\ \A k, i : i \in Informers => ~Arising(i, k) /\ ~Resolving(i, k)
         /\ \A p, what : ~Word(queue["pod"], p, what) /\ ~Mentions(queue["pod"], p)
         /\ check.pod = None
<1>1. /\ watching /\ cache = [pod |-> pod, event |-> event] /\ check.pod = None
      /\ \A i \in Informers : queue[i] = <<>> /\ out[i] = <<>>
      /\ released = {} /\ \A k \in Keys : pending[k] = 0
  BY DEF Quiet, Drained, Idle
<1>2. cache.pod = pod
  BY <1>1
<1>3. \A k \in Keys : ~Waiting(k) /\ (Late(k) <=> Red(k))
  BY <1>1 DEF Waiting, Late
<1>4. \A k, i : i \in Informers => ~Arising(i, k) /\ ~Resolving(i, k)
  BY <1>1, NothingOut
<1>5. \A p, what : ~Word(queue["pod"], p, what) /\ ~Mentions(queue["pod"], p)
  BY <1>1, NothingSaid, NotTrouble
<1> QED BY <1>1, <1>2, <1>3, <1>4, <1>5

(* A row that is red says a condition that is narrated. *)
LEMMA RedIsNarrated ==
  ASSUME RowInv, Quiet, gaps = {}, NEW k \in Keys, Red(k)
  PROVE  seen[k] = "narrated"
<1>1. Late(k) /\ \A i \in Informers : ~Resolving(i, k)
  BY QuietIs
<1>2. CASE k \in PodKeys
  BY <1>1, <1>2, QuietIs, NotTrouble DEF RowInv, WordsOK, PodWords
<1>3. CASE k \notin PodKeys
  BY <1>1, <1>3, QuietIs, NotTrouble DEF RowInv, WordsOK, WarningWords, SomeResolve
<1> QED BY <1>2, <1>3

(* A red row is remembered by the handler that would clear it, in whatever order
   handlers, timers, teardowns and Retries come, but for the named gaps. *)
THEOREM RedIsRememberedHolds ==
  ASSUME Patient PROVE Spec => []RedIsRemembered
<1>1. RowInv => RedIsRemembered
  BY RedIsNarrated DEF RedIsRemembered
<1> QED BY <1>1, InitRow, NextRow, PTL DEF Spec

(* No red row outlives the recovery of its pod: not the pod's own troubles, and
   not a Warning about it that either handler may resolve. *)
THEOREM NoRedOnHealthyHolds ==
  ASSUME Patient PROVE Spec => []NoRedOnHealthy
<1>1. RowInv => NoRedOnHealthy
  <2> SUFFICES ASSUME RowInv, Quiet, gaps = {}, NEW k \in Keys,
                      k[1] \in Pods, pod[k[1]] = "healthy", Red(k)
               PROVE  FALSE
    BY DEF NoRedOnHealthy
  <2>1. seen[k] = "narrated"
    BY RedIsNarrated
  <2>2. PICK p \in Pods : p = k[1]
    OBVIOUS
  <2>3. cache.pod[p] = "healthy" /\ check.pod # p
    BY <2>2, QuietIs, NotTrouble
  <2>4. CASE k \in PodKeys
    <3>1. PICK t \in Troubles : k = <<p, t>>
      BY <2>2, <2>4, KeysAre
    <3> QED BY <2>1, <2>3, <3>1, QuietIs, NotTrouble DEF RowInv, MemoryOK
  <2>5. CASE k \notin PodKeys
    <3>1. k = <<p, Warning>>
      BY <2>2, <2>5, KeysAre
    <3> QED BY <2>1, <2>3, <3>1, QuietIs DEF RowInv, CheckOK
  <2> QED BY <2>4, <2>5
<1> QED BY <1>1, InitRow, NextRow, PTL DEF Spec

(* A pod in trouble is red, or was so when this attempt first looked: nothing the
   handlers do leaves a failure without its row. *)
THEOREM NoHiddenFailureHolds ==
  ASSUME Patient PROVE Spec => []NoHiddenFailure
<1>1. RowInv => NoHiddenFailure
  <2> SUFFICES ASSUME RowInv, Quiet, NEW p \in Pods, InTrouble(p)
               PROVE  \/ Red(<<p, pod[p]>>)
                      \/ attempt = first /\ seen[<<p, pod[p]>>] = "seeded"
    BY DEF NoHiddenFailure
  <2>1. PICK k \in PodKeys : k = <<p, pod[p]>>
    BY KeysAre DEF InTrouble
  <2>2. seen[k] # "no" /\ seen[k] \in {"no", "seeded", "narrated"} /\ k \in Keys
    BY <2>1, QuietIs, KeysAre DEF RowInv, MemoryOK, InTrouble, IInv
  <2>3. CASE seen[k] = "narrated"
    <3>1. PodWords(k) /\ ~Arising("pod", k) /\ ~Waiting(k) /\ (Late(k) <=> Red(k))
      BY <2>2, QuietIs, NotTrouble DEF RowInv, WordsOK
    <3> QED BY <2>1, <2>3, <3>1 DEF PodWords
  <2>4. CASE seen[k] = "seeded"
    <3>1. ~torn
      BY <2>2, <2>4, QuietIs DEF RowInv, MemoryOK
    <3> QED BY <2>1, <2>4, <3>1, QuietIs DEF RowInv, ScopeOK
  <2> QED BY <2>2, <2>3, <2>4
<1> QED BY <1>1, InitRow, NextRow, PTL DEF Spec

(* withNamespaceLive: a handler that finds its namespace gone writes nothing,
   so what the sweep has cleared stays cleared. *)
THEOREM DeadStaysForgotten == Spec => []DeadIsForgotten
<1>1. Init => IInv
  BY DEF Init, IInv, DeadIsForgotten
<1>2. IInv => DeadIsForgotten
  BY DEF IInv
<1> QED BY <1>1, <1>2, NextIInv, PTL DEF Spec
=============================================================================
