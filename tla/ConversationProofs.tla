-------------------------- MODULE ConversationProofs --------------------------
(***************************************************************************)
(* Theorems about Conversation: the trigger a request asks about, and the  *)
(* calls and results it shows, for every window, batch and number of       *)
(* triggers and requests.                                                  *)
(***************************************************************************)
EXTENDS Conversation, FiniteSetTheorems, TLAPS

-----------------------------------------------------------------------------
(* Sequences of records. *)

Listed(s) == \E S : s \in Seq(S)
\* Records of the kinds K, each about finitely many numbers.
Made(m, K) == Listed(m) /\ \A i \in DOMAIN m : m[i].kind \in K /\ IsFiniteSet(m[i].of)

\* The positions of a sequence.
LEMMA ListedFacts ==
  ASSUME NEW s, Listed(s)
  PROVE  Len(s) \in Nat /\ DOMAIN s = 1..Len(s)
<1>1. PICK S : s \in Seq(S)
  BY DEF Listed
<1> QED BY <1>1

\* What is where in two sequences, one behind the other.
LEMMA ConcatFacts ==
  ASSUME NEW a, NEW b, Listed(a), Listed(b)
  PROVE  /\ Listed(a \o b) /\ Len(a \o b) = Len(a) + Len(b)
         /\ DOMAIN (a \o b) = 1..(Len(a) + Len(b))
         /\ \A i \in 1..Len(a) : (a \o b)[i] = a[i]
         /\ \A i \in 1..Len(b) : (a \o b)[Len(a) + i] = b[i]
<1>1. PICK R, T : a \in Seq(R) /\ b \in Seq(T)
  BY DEF Listed
<1>2. PICK S : S = R \cup T
  OBVIOUS
<1>3. a \in Seq(S) /\ b \in Seq(S)
  BY <1>1, <1>2
<1>4. /\ (a \o b) \in Seq(S) /\ Len(a \o b) = Len(a) + Len(b)
      /\ \A i \in 1..Len(a) : (a \o b)[i] = a[i]
      /\ \A i \in 1..Len(b) : (a \o b)[Len(a) + i] = b[i]
  BY <1>3
<1>5. DOMAIN (a \o b) = 1..Len(a \o b)
  BY <1>4
<1> QED BY <1>4, <1>5 DEF Listed

LEMMA ConcatAssociates ==
  ASSUME NEW a, NEW b, NEW c, Listed(a), Listed(b), Listed(c)
  PROVE  (a \o b) \o c = a \o (b \o c)
<1>1. PICK R, T, U : a \in Seq(R) /\ b \in Seq(T) /\ c \in Seq(U)
  BY DEF Listed
<1>2. PICK S : S = R \cup T \cup U
  OBVIOUS
<1>3. a \in Seq(S) /\ b \in Seq(S) /\ c \in Seq(S)
  BY <1>1, <1>2
<1> QED BY <1>3

\* An element of two sequences, one behind the other, is one of either.
LEMMA ConcatParts ==
  ASSUME NEW a, NEW b, Listed(a), Listed(b), NEW i \in DOMAIN (a \o b)
  PROVE  \/ i \in DOMAIN a /\ (a \o b)[i] = a[i]
         \/ \E k \in DOMAIN b : i = Len(a) + k /\ (a \o b)[i] = b[k]
<1>1. PICK m, n : m = Len(a) /\ n = Len(b)
  OBVIOUS
<1>2. m \in Nat /\ n \in Nat /\ DOMAIN a = 1..m /\ DOMAIN b = 1..n
  BY <1>1, ListedFacts
<1>3. i \in 1..(m + n)
  BY <1>1, ConcatFacts
<1>4. CASE i <= m
  <2>1. i \in 1..m
    BY <1>2, <1>3, <1>4
  <2> QED BY <1>1, <1>2, <2>1, ConcatFacts
<1>5. CASE i > m
  <2>1. PICK k : k = i - m
    OBVIOUS
  <2>2. k \in 1..n /\ i = m + k
    BY <1>2, <1>3, <1>5, <2>1
  <2> QED BY <1>1, <1>2, <2>2, ConcatFacts
<1> QED BY <1>2, <1>3, <1>4, <1>5

LEMMA MadeConcat ==
  ASSUME NEW a, NEW b, NEW K, Made(a, K), Made(b, K)
  PROVE  Made(a \o b, K)
<1>1. Listed(a) /\ Listed(b)
  BY DEF Made
<1>2. Listed(a \o b)
  BY <1>1, ConcatFacts
<1>3. ASSUME NEW i \in DOMAIN (a \o b)
      PROVE  (a \o b)[i].kind \in K /\ IsFiniteSet((a \o b)[i].of)
  BY <1>1, <1>3, ConcatParts DEF Made
<1> QED BY <1>2, <1>3 DEF Made

LEMMA MadeMore ==
  ASSUME NEW a, NEW K, NEW L, Made(a, K), K \subseteq L
  PROVE  Made(a, L)
BY DEF Made

\* One record is a sequence of its kind.
LEMMA RecIsMade ==
  ASSUME NEW kind, NEW of
  PROVE  /\ Listed(Rec(kind, of)) /\ Len(Rec(kind, of)) = 1 /\ DOMAIN Rec(kind, of) = {1}
         /\ Rec(kind, of)[1].kind = kind /\ Rec(kind, of)[1].of = of
         /\ Rec(kind, of)[1] = [kind |-> kind, of |-> of]
         /\ IsFiniteSet(of) => \A K : kind \in K => Made(Rec(kind, of), K)
<1>1. PICK r : r = [kind |-> kind, of |-> of]
  OBVIOUS
<1>2. r.kind = kind /\ r.of = of
  BY <1>1
<1>3. PICK s : s = <<r>>
  OBVIOUS
<1>4. s \in Seq({r}) /\ Len(s) = 1 /\ DOMAIN s = {1} /\ s[1] = r
  BY <1>3
<1>5. s = Rec(kind, of)
  BY <1>1, <1>3 DEF Rec
<1>6. Listed(s)
  BY <1>4 DEF Listed
<1> QED BY <1>1, <1>2, <1>4, <1>5, <1>6 DEF Made

LEMMA OneIsMade ==
  ASSUME NEW kind, NEW of, IsFiniteSet(of), NEW K, kind \in K
  PROVE  Made(Rec(kind, of), K)
BY RecIsMade

LEMMA EmptyIsMade == Listed(<< >>) /\ Len(<< >>) = 0 /\ \A K : Made(<< >>, K)
<1>1. \A S : << >> \in Seq(S)
  OBVIOUS
<1> QED BY <1>1 DEF Listed, Made

LEMMA OthersAreMade ==
  ASSUME NEW n \in Nat
  PROVE  /\ Made(Others(n), {"other"}) /\ Len(Others(n)) = n
<1>1. PICK s : s = [i \in 1..n |-> [kind |-> "other", of |-> {}]]
  OBVIOUS
<1>2. s \in Seq({[kind |-> "other", of |-> {}]}) /\ Len(s) = n /\ DOMAIN s = 1..n
  BY <1>1
<1>3. Listed(s)
  BY <1>2 DEF Listed
<1>4. \A i \in DOMAIN s : s[i].kind = "other" /\ s[i].of = {}
  BY <1>1
<1>5. IsFiniteSet({})
  BY FS_EmptySet
<1>6. s = Others(n)
  BY <1>1 DEF Others
<1> QED BY <1>2, <1>3, <1>4, <1>5, <1>6 DEF Made

LEMMA ResultsAreMade ==
  ASSUME NEW ids, IsFiniteSet(ids)
  PROVE  Made(Results(ids), {"result"}) /\ Len(Results(ids)) = Cardinality(ids)
<1>1. PICK n : n = Cardinality(ids)
  OBVIOUS
<1>2. n \in Nat
  BY <1>1, FS_CardinalityType
<1>3. PICK s : s = [i \in 1..n |-> [kind |-> "result", of |-> {Nth(ids, i)}]]
  OBVIOUS
<1>4. PICK S : S = {[kind |-> "result", of |-> {Nth(ids, i)}] : i \in 1..n}
  OBVIOUS
<1>5. s \in Seq(S) /\ Len(s) = n /\ DOMAIN s = 1..n
  <2>1. DOMAIN s = 1..n /\ s = [i \in 1..n |-> s[i]]
    BY <1>3
  <2>2. \A i \in 1..n : s[i] \in S
    BY <1>3, <1>4
  <2> QED BY <1>2, <2>1, <2>2
<1>6. \A x : IsFiniteSet({x})
  BY FS_Singleton
<1>7. \A i \in DOMAIN s : s[i].kind = "result" /\ IsFiniteSet(s[i].of)
  BY <1>3, <1>6
<1>8. s = Results(ids)
  BY <1>1, <1>3 DEF Results
<1> QED BY <1>1, <1>5, <1>7, <1>8 DEF Made, Listed

\* What is behind a does not change what is found in a.
LEMMA OfKindConcat ==
  ASSUME NEW a, NEW b, Listed(a), NEW K, Made(b, K), NEW kind, kind \notin K
  PROVE  /\ OfKind(a \o b, kind) = OfKind(a, kind) /\ Mentioned(a \o b, kind) = Mentioned(a, kind)
         /\ \A i \in OfKind(a, kind) : (a \o b)[i] = a[i]
<1>1. Listed(b) /\ Len(a) \in Nat /\ DOMAIN a = 1..Len(a)
  BY ListedFacts DEF Made
<1>2. \A i \in DOMAIN a : i \in DOMAIN (a \o b) /\ (a \o b)[i] = a[i]
  <2>1. PICK m, n : m = Len(a) /\ n = Len(b)
    OBVIOUS
  <2>2. n \in Nat /\ m \in Nat
    BY <1>1, <2>1, ListedFacts
  <2>3. DOMAIN (a \o b) = 1..(m + n) /\ \A i \in 1..m : (a \o b)[i] = a[i]
    BY <1>1, <2>1, ConcatFacts
  <2> QED BY <1>1, <2>1, <2>2, <2>3
<1>3. \A i \in DOMAIN (a \o b) : (a \o b)[i].kind = kind => i \in DOMAIN a
  BY <1>1, ConcatParts DEF Made
<1>4. OfKind(a \o b, kind) = OfKind(a, kind)
  BY <1>2, <1>3 DEF OfKind
<1>5. \A i \in OfKind(a, kind) : (a \o b)[i] = a[i]
  BY <1>2 DEF OfKind
<1>6. {(a \o b)[i].of : i \in OfKind(a, kind)} = {a[i].of : i \in OfKind(a, kind)}
  BY <1>5
<1> QED BY <1>4, <1>5, <1>6 DEF Mentioned

\* A record put at the end is one of its kind, at the end.
LEMMA LastIsFound ==
  ASSUME NEW a, NEW r, Listed(a)
  PROVE  /\ OfKind(a \o <<r>>, r.kind) = OfKind(a, r.kind) \cup {Len(a) + 1}
         /\ (a \o <<r>>)[Len(a) + 1] = r
<1>1. PICK b, n, kind : b = <<r>> /\ n = Len(a) /\ kind = r.kind
  OBVIOUS
<1>2. b \in Seq({r}) /\ Len(b) = 1 /\ b[1] = r
  BY <1>1
<1>3. n \in Nat /\ DOMAIN a = 1..n
  BY <1>1, ListedFacts
<1>4. /\ DOMAIN (a \o b) = 1..(n + 1) /\ \A i \in 1..n : (a \o b)[i] = a[i]
      /\ \A i \in 1..1 : (a \o b)[n + i] = b[i]
  BY <1>1, <1>2, ConcatFacts DEF Listed
<1>5. (a \o b)[n + 1] = r
  <2>1. 1 \in 1..1
    OBVIOUS
  <2>2. (a \o b)[n + 1] = b[1]
    BY <1>4, <2>1
  <2> QED BY <1>2, <2>2
<1>6. \A i \in 1..(n + 1) : i \in 1..n \/ i = n + 1
  BY <1>3
<1>7. n + 1 \in 1..(n + 1) /\ \A i \in 1..n : i \in 1..(n + 1)
  BY <1>3
<1>8. OfKind(a \o b, kind) = OfKind(a, kind) \cup {n + 1}
  BY <1>1, <1>3, <1>4, <1>5, <1>6, <1>7 DEF OfKind
<1> QED BY <1>1, <1>5, <1>8

Less == {p \in Nat \X Nat : p[1] < p[2]}

\* A set of numbers has a least element.
LEMMA LeastExists ==
  ASSUME NEW D, D \in SUBSET Nat, D # {}
  PROVE  \E n \in D : \A m \in D : n <= m
<1>1. IsWellFoundedOn(Less, Nat)
  <2>1. Less = OpToRel(<, Nat)
    BY DEF Less, OpToRel
  <2> QED BY <2>1, NatLessThanWellFounded
<1>2. PICK n \in D : \A m \in D : <<m, n>> \notin Less
  BY <1>1, WFMin
<1>3. \A m \in D : ~(m < n)
  BY <1>2 DEF Less
<1> QED BY <1>3

\* What Min and Max choose, from any set of numbers and from any bounded one.
LEMMA MinIn ==
  ASSUME NEW D, D \in SUBSET Nat, D # {}
  PROVE  Min(D) \in D /\ \A i \in D : Min(D) <= i
<1>1. \E x \in D : \A y \in D : x <= y
  BY LeastExists
<1> QED BY <1>1 DEF Min

LEMMA MaxIn ==
  ASSUME NEW n \in Nat, NEW D, D \in SUBSET (1..n), D # {}
  PROVE  Max(D) \in D /\ \A i \in D : i <= Max(D)
<1>1. PICK Up : Up = {n - i : i \in D}
  OBVIOUS
<1>2. Up \in SUBSET Nat /\ Up # {}
  <2>1. \A i \in D : n - i \in Nat
    OBVIOUS
  <2> QED BY <1>1, <2>1
<1>3. PICK u \in Up : \A v \in Up : u <= v
  BY <1>2, LeastExists
<1>4. PICK i \in D : u = n - i
  BY <1>1
<1>5. \A j \in D : n - i <= n - j
  BY <1>1, <1>3, <1>4
<1>6. \A j \in D : i >= j
  BY <1>5
<1>7. Max(D) \in D /\ \A j \in D : Max(D) >= j
  BY <1>6 DEF Max
<1> QED BY <1>7

-----------------------------------------------------------------------------
(* The last outcome, and what comes after it. *)

LEMMA OfKindIn ==
  ASSUME NEW s, Listed(s), NEW kind
  PROVE  OfKind(s, kind) \in SUBSET (1..Len(s)) /\ IsFiniteSet(OfKind(s, kind))
<1>1. Len(s) \in Nat /\ DOMAIN s = 1..Len(s)
  BY ListedFacts
<1>2. IsFiniteSet(1..Len(s))
  BY <1>1, FS_Interval
<1> QED BY <1>1, <1>2, FS_Subset DEF OfKind

\* Where the last outcome is, or 0.
LastOutcome(s) == IF OfKind(s, "outcome") = {} THEN 0 ELSE Max(OfKind(s, "outcome"))

\* What is behind the last outcome: SubSeq with its positions shifted.
LEMMA SinceFacts ==
  ASSUME NEW s, Listed(s), NEW o, o = LastOutcome(s), NEW n, n = Len(s)
  PROVE  /\ o \in 0..n /\ \A i \in OfKind(s, "outcome") : i <= o
         /\ Listed(SinceOutcome(s)) /\ DOMAIN SinceOutcome(s) = 1..(n - o)
         /\ \A i \in 1..(n - o) : SinceOutcome(s)[i] = s[o + i]
<1>1. n \in Nat /\ DOMAIN s = 1..n
  BY ListedFacts
<1>2. PICK D : D = OfKind(s, "outcome")
  OBVIOUS
<1>3. D \in SUBSET (1..n)
  BY <1>2, OfKindIn
<1>4. CASE D = {}
  <2>1. o = 0 /\ SinceOutcome(s) = s
    BY <1>2, <1>4 DEF LastOutcome, SinceOutcome
  <2> QED BY <1>1, <1>2, <1>4, <2>1
<1>5. CASE D # {}
  <2>1. o = Max(D) /\ SinceOutcome(s) = SubSeq(s, o + 1, n)
    BY <1>2, <1>5 DEF LastOutcome, SinceOutcome
  <2>2. o \in D /\ \A i \in D : i <= o
    BY <1>1, <1>3, <1>5, <2>1, MaxIn
  <2>3. PICK S : s \in Seq(S)
    BY DEF Listed
  <2>4. o \in 1..n
    BY <1>3, <2>2
  <2>5. PICK u : u = SubSeq(s, o + 1, n)
    OBVIOUS
  <2>6. u = [i \in 1..(n - o) |-> s[o + i]]
    <3>1. u = [i \in 1..(n - (o + 1) + 1) |-> s[i + (o + 1) - 1]]
      BY <1>1, <2>3, <2>4, <2>5
    <3>2. n - (o + 1) + 1 = n - o /\ \A i \in 1..(n - o) : i + (o + 1) - 1 = o + i
      BY <1>1, <2>4
    <3> QED BY <3>1, <3>2
  <2>7. \A i \in 1..(n - o) : s[o + i] \in S
    <3>1. \A i \in 1..(n - o) : o + i \in 1..n
      BY <1>1, <2>4
    <3> QED BY <1>1, <2>3, <3>1
  <2>8. n - o \in Nat
    BY <1>1, <2>4
  <2>9. u \in Seq(S)
    BY <2>6, <2>7, <2>8
  <2>10. DOMAIN u = 1..(n - o) /\ \A i \in 1..(n - o) : u[i] = s[o + i]
    BY <2>6
  <2>11. Listed(u) /\ u = SinceOutcome(s)
    BY <2>1, <2>5, <2>9 DEF Listed
  <2>12. o \in 0..n
    BY <1>1, <2>4
  <2> QED BY <1>2, <2>2, <2>10, <2>11, <2>12
<1> QED BY <1>4, <1>5

\* What is after it, seen from the whole session.
LEMMA OpenFacts ==
  ASSUME NEW s, Listed(s), NEW kind, NEW o, o = LastOutcome(s)
  PROVE  /\ \A i \in OfKind(SinceOutcome(s), kind) : o + i \in OfKind(s, kind) /\ o + i > o
         /\ \A i \in OfKind(s, kind) : i > o => i - o \in OfKind(SinceOutcome(s), kind)
         /\ \A i \in OfKind(SinceOutcome(s), kind) : SinceOutcome(s)[i] = s[o + i]
<1>1. PICK n, u : n = Len(s) /\ u = SinceOutcome(s)
  OBVIOUS
<1>2. n \in Nat /\ DOMAIN s = 1..n
  BY <1>1, ListedFacts
<1>3. o \in 0..n /\ DOMAIN u = 1..(n - o) /\ \A i \in 1..(n - o) : u[i] = s[o + i]
  BY <1>1, SinceFacts
<1>4. \A i \in 1..(n - o) : o + i \in 1..n /\ o + i > o
  BY <1>2, <1>3
<1>5. \A i \in OfKind(u, kind) : o + i \in OfKind(s, kind) /\ o + i > o /\ u[i] = s[o + i]
  BY <1>2, <1>3, <1>4 DEF OfKind
<1>6. ASSUME NEW i \in OfKind(s, kind), i > o PROVE i - o \in OfKind(u, kind)
  <2>1. PICK j : j = i - o
    OBVIOUS
  <2>2. i \in 1..n /\ s[i].kind = kind
    BY <1>2 DEF OfKind
  <2>3. j \in 1..(n - o) /\ o + j = i
    BY <1>2, <1>3, <1>6, <2>1, <2>2
  <2>4. u[j].kind = kind
    BY <1>3, <2>2, <2>3
  <2> QED BY <1>3, <2>1, <2>3, <2>4 DEF OfKind
<1> QED BY <1>1, <1>5, <1>6

\* Records of other kinds, behind the session, leave its open ones as they are.
LEMMA StillOpen ==
  ASSUME NEW a, NEW b, Listed(a), NEW K, Made(b, K), "outcome" \notin K,
         NEW kind, kind \notin K
  PROVE  OfKind(SinceOutcome(a \o b), kind) = OfKind(SinceOutcome(a), kind)
<1>1. PICK s : s = a \o b
  OBVIOUS
<1>2. Listed(s)
  BY <1>1, ConcatFacts DEF Made
<1>3. OfKind(s, "outcome") = OfKind(a, "outcome") /\ OfKind(s, kind) = OfKind(a, kind)
  BY <1>1, OfKindConcat
<1>4. PICK o : o = LastOutcome(a)
  OBVIOUS
<1>5. o = LastOutcome(s)
  BY <1>3, <1>4 DEF LastOutcome
<1>6. o \in Nat
  <2>1. Len(a) \in Nat
    BY ListedFacts
  <2>2. o \in 0..Len(a)
    BY <1>4, SinceFacts
  <2> QED BY <2>1, <2>2
<1>7. PICK A, B : A = OfKind(SinceOutcome(a), kind) /\ B = OfKind(SinceOutcome(s), kind)
  OBVIOUS
<1>8. /\ \A i \in A : o + i \in OfKind(a, kind) /\ o + i > o
      /\ \A i \in OfKind(a, kind) : i > o => i - o \in A
  BY <1>4, <1>7, OpenFacts
<1>9. /\ \A i \in B : o + i \in OfKind(a, kind) /\ o + i > o
      /\ \A i \in OfKind(a, kind) : i > o => i - o \in B
  BY <1>2, <1>3, <1>5, <1>7, OpenFacts
<1>10. A \subseteq Nat /\ B \subseteq Nat
  <2>1. \A u, k : Listed(u) => OfKind(u, k) \subseteq Nat
    <3>1. \A u, k : Listed(u) => OfKind(u, k) \in SUBSET (1..Len(u))
      BY OfKindIn
    <3> QED BY <3>1
  <2> QED BY <1>2, <1>7, <2>1, SinceFacts
<1>11. \A i \in Nat : (o + i) - o = i
  BY <1>6
<1>12. \A i \in A : i \in B
  BY <1>8, <1>9, <1>10, <1>11
<1>13. \A i \in B : i \in A
  BY <1>8, <1>9, <1>10, <1>11
<1> QED BY <1>1, <1>7, <1>12, <1>13

-----------------------------------------------------------------------------
(* The trigger that is asked about. *)

OneOpen(s) == Cardinality(OfKind(SinceOutcome(s), "trigger")) = 1
Delivered(s) == Cardinality(OfKind(s, "trigger"))

\* Triggers are numbered in their order.
LastNumbered(s) ==
  OfKind(s, "trigger") # {} => s[Max(OfKind(s, "trigger"))].of = {Delivered(s)}

\* If one trigger is open, it is the one active_trigger finds, and the latest.
LEMMA OneOpenIsLast ==
  ASSUME NEW s, Listed(s), LastNumbered(s), OneOpen(s)
  PROVE  ActiveTrigger(s) = {Delivered(s)}
<1>1. PICK u, D, T, o : /\ u = SinceOutcome(s) /\ D = OfKind(u, "trigger")
                        /\ T = OfKind(s, "trigger") /\ o = LastOutcome(s)
  OBVIOUS
<1>2. Listed(u)
  BY <1>1, SinceFacts
<1>3. IsFiniteSet(D) /\ D \in SUBSET (1..Len(u)) /\ Len(u) \in Nat
  BY <1>1, <1>2, OfKindIn, ListedFacts
<1>4. PICK p : D = {p}
  BY <1>1, <1>3, FS_Singleton DEF OneOpen
<1>5. p \in Nat /\ D \in SUBSET Nat /\ D # {}
  BY <1>3, <1>4
<1>6. Min(D) = p
  BY <1>4, <1>5, MinIn
<1>7. u[p] = s[o + p] /\ o + p \in T /\ o + p > o /\ \A i \in T : i > o => i - o \in D
  BY <1>1, <1>4, OpenFacts
<1>8. o \in Nat /\ Len(s) \in Nat /\ T \in SUBSET (1..Len(s))
  <2>1. o \in 0..Len(s)
    BY <1>1, SinceFacts
  <2> QED BY <1>1, <2>1, OfKindIn, ListedFacts
<1>9. \A i \in T : i <= o + p
  <2>1. TAKE i \in T
  <2>2. i \in Nat
    BY <1>8
  <2>3. i > o => i - o = p
    BY <1>4, <1>7
  <2> QED BY <1>5, <1>8, <2>2, <2>3
<1>10. Max(T) = o + p
  <2>1. Max(T) \in T /\ \A i \in T : i <= Max(T)
    BY <1>7, <1>8, MaxIn
  <2>2. PICK x, y : x = Max(T) /\ y = o + p
    OBVIOUS
  <2>3. x \in T /\ y \in T /\ x <= y /\ y <= x
    BY <1>7, <1>9, <2>1, <2>2
  <2>4. x \in Nat /\ y \in Nat
    BY <1>8, <2>3
  <2> QED BY <2>2, <2>3, <2>4
<1>11. s[Max(T)].of = {Delivered(s)}
  BY <1>1, <1>7 DEF LastNumbered
<1>12. ActiveTrigger(s) = u[Min(D)].of
  BY <1>1 DEF ActiveTrigger
<1> QED BY <1>6, <1>7, <1>10, <1>11, <1>12

\* What is appended but a trigger keeps the numbers.
LEMMA NumbersKept ==
  ASSUME NEW a, NEW b, Listed(a), NEW K, Made(b, K), "trigger" \notin K, LastNumbered(a)
  PROVE  LastNumbered(a \o b) /\ Delivered(a \o b) = Delivered(a)
<1>1. PICK T : T = OfKind(a, "trigger")
  OBVIOUS
<1>2. OfKind(a \o b, "trigger") = T /\ \A i \in T : (a \o b)[i] = a[i]
  <2>1. /\ OfKind(a \o b, "trigger") = OfKind(a, "trigger")
        /\ \A i \in OfKind(a, "trigger") : (a \o b)[i] = a[i]
    BY OfKindConcat, Zenon
  <2> QED BY <1>1, <2>1
<1>3. T # {} => Max(T) \in T
  <2>1. Len(a) \in Nat /\ T \in SUBSET (1..Len(a))
    BY <1>1, OfKindIn, ListedFacts
  <2> QED BY <2>1, MaxIn
<1> QED BY <1>1, <1>2, <1>3 DEF LastNumbered, Delivered

\* A new trigger has the next number.
LEMMA NumbersGrow ==
  ASSUME NEW a, Listed(a), NEW b, b = a \o Asking({Delivered(a) + 1})
  PROVE  Delivered(b) = Delivered(a) + 1 /\ LastNumbered(b)
<1>1. PICK n, T : n = Len(a) /\ T = OfKind(a, "trigger")
  OBVIOUS
<1>2. n \in Nat /\ T \in SUBSET (1..n) /\ IsFiniteSet(T)
  BY <1>1, OfKindIn, ListedFacts
<1>3. PICK r : r = [kind |-> "trigger", of |-> {Delivered(a) + 1}]
  OBVIOUS
<1>4. b = a \o <<r>> /\ r.kind = "trigger" /\ r.of = {Delivered(a) + 1}
  BY <1>3 DEF Asking, Rec
<1>5. OfKind(b, "trigger") = T \cup {n + 1} /\ b[n + 1] = r
  <2>1. /\ OfKind(a \o <<r>>, r.kind) = OfKind(a, r.kind) \cup {Len(a) + 1}
        /\ (a \o <<r>>)[Len(a) + 1] = r
    BY LastIsFound, Zenon
  <2> QED BY <1>1, <1>4, <2>1
<1>6. n + 1 \notin T
  BY <1>2
<1>7. Cardinality(T \cup {n + 1}) = Cardinality(T) + 1
  BY <1>2, <1>6, FS_AddElement
<1>8. Delivered(b) = Delivered(a) + 1
  BY <1>1, <1>5, <1>7 DEF Delivered
<1>9. Max(T \cup {n + 1}) = n + 1
  <2>1. PICK D : D = T \cup {n + 1}
    OBVIOUS
  <2>2. D \in SUBSET (1..(n + 1)) /\ D # {} /\ n + 1 \in D /\ n + 1 \in Nat
    BY <1>2, <2>1
  <2>3. Max(D) \in D /\ \A i \in D : i <= Max(D)
    BY <2>2, MaxIn
  <2>4. Max(D) \in 1..(n + 1) /\ n + 1 <= Max(D)
    BY <2>2, <2>3
  <2> QED BY <1>2, <2>1, <2>4
<1> QED BY <1>4, <1>5, <1>8, <1>9 DEF LastNumbered

Kinds == {"trigger", "other", "summary", "outcome", "approved", "rejected", "graph", "done",
          "result", "cache", "respond", "call", "pending", "plan"}
\* ... of what the actions append, but Deliver's trigger.
Later == Kinds \ {"trigger"}
\* ... and that ends nothing.
Going == Later \ {"outcome"}

AboutInv ==
  /\ Made(records, Kinds) /\ Made(context, Kinds)
  /\ IsFiniteSet(request.cache) /\ IsFiniteSet(running) /\ LastNumbered(records)
  /\ pc \in {"ask", "resolve", "asked"} => (OneOpen(records) => trigger = {Delivered(records)})
  /\ pc = "asked" => Repeated(request.meant) = trigger

\* Records that are no trigger and no outcome leave the triggers as they are.
LEMMA GoesOnAbout ==
  ASSUME AboutInv, NEW m, Made(m, Going), records' = records \o m
  PROVE  /\ Made(records', Kinds) /\ LastNumbered(records')
         /\ Delivered(records') = Delivered(records)
         /\ OneOpen(records') <=> OneOpen(records)
<1>1. Listed(records) /\ "trigger" \notin Going /\ "outcome" \notin Going /\ Going \subseteq Kinds
  BY DEF AboutInv, Made, Going, Later
<1>2. Made(records \o m, Kinds)
  BY <1>1, MadeConcat, MadeMore DEF AboutInv
<1>3. OneOpen(records \o m) <=> OneOpen(records)
  BY <1>1, StillOpen DEF OneOpen
<1>4. LastNumbered(records \o m) /\ Delivered(records \o m) = Delivered(records)
  BY <1>1, NumbersKept DEF AboutInv
<1> QED BY <1>2, <1>3, <1>4

LEMMA OutcomeIsMade == Made(Outcome, Later)
<1>1. Made(Rec("outcome", {}), Later)
  <2>1. IsFiniteSet({}) /\ "outcome" \in Later
    BY FS_EmptySet DEF Later, Kinds
  <2> QED BY <2>1, RecIsMade
<1>2. Made(Others(1), Later)
  <2>1. {"other"} \subseteq Later
    BY DEF Later, Kinds
  <2> QED BY <2>1, OthersAreMade, MadeMore
<1> QED BY <1>1, <1>2, MadeConcat DEF Outcome

\* An outcome leaves no trigger open.
LEMMA FinishKeepsAbout ==
  ASSUME AboutInv, NEW m, Made(m, Later), Finish(m), UNCHANGED request
  PROVE  AboutInv'
<1>0. Made(context', Kinds) /\ IsFiniteSet(running')
  BY EmptyIsMade, FS_EmptySet DEF Finish, Leave
<1>1. PICK b : b = m \o Outcome
  OBVIOUS
<1>2. Made(b, Later) /\ records' = records \o b /\ pc' = "idle"
  BY <1>1, OutcomeIsMade, MadeConcat DEF Finish, Leave, AppendAll
<1>3. Listed(records) /\ "trigger" \notin Later /\ Later \subseteq Kinds
  BY DEF AboutInv, Made, Later
<1>4. Made(records', Kinds)
  BY <1>2, <1>3, MadeConcat, MadeMore DEF AboutInv
<1>5. LastNumbered(records')
  BY <1>2, <1>3, NumbersKept DEF AboutInv
<1> QED BY <1>0, <1>2, <1>4, <1>5 DEF AboutInv

\* The kinds that each sequence of records an action appends is made of.
LEMMA MetadataIsMade ==
  ASSUME AboutInv
  PROVE  Made(Metadata, {"other", "cache"})
<1>1. PICK K : K = {"other", "cache"}
  OBVIOUS
<1>2. Made(Others(IF Caching THEN 1 ELSE 0), K)
  <2>1. PICK n : n = IF Caching THEN 1 ELSE 0
    OBVIOUS
  <2>2. n \in Nat /\ {"other"} \subseteq K
    BY <1>1, <2>1
  <2> QED BY <2>1, <2>2, OthersAreMade, MadeMore
<1>3. Made(Rec("cache", request.cache), K) /\ Made(<< >>, K)
  <2>1. "cache" \in K /\ IsFiniteSet(request.cache)
    BY <1>1 DEF AboutInv
  <2> QED BY <2>1, OneIsMade, EmptyIsMade
<1> QED BY <1>1, <1>2, <1>3, MadeConcat DEF Metadata

LEMMA CheckpointsAreMade ==
  ASSUME NEW calls, IsFiniteSet(calls), NEW ended, IsFiniteSet(ended)
  PROVE  Made(Checkpoints(calls, ended), {"other", "done"})
<1>1. PICK K : K = {"other", "done"}
  OBVIOUS
<1>2. Made(Others(5 * Cardinality(calls)), K)
  <2>1. PICK n : n = 5 * Cardinality(calls)
    OBVIOUS
  <2>2. n \in Nat /\ {"other"} \subseteq K
    BY <1>1, <2>1, FS_CardinalityType
  <2> QED BY <2>1, <2>2, OthersAreMade, MadeMore
<1>3. Made(Rec("done", ended), K) /\ Made(<< >>, K)
  <2>1. "done" \in K
    BY <1>1
  <2> QED BY <2>1, OneIsMade, EmptyIsMade
<1> QED BY <1>1, <1>2, <1>3, MadeConcat DEF Checkpoints

\* A session is about finitely many calls, and so is its open graph.
LEMMA MentionedIsFinite ==
  ASSUME NEW s, NEW K, Made(s, K), NEW kind
  PROVE  IsFiniteSet(Mentioned(s, kind))
<1>1. PICK D, M : D = OfKind(s, kind) /\ M = {s[i].of : i \in D}
  OBVIOUS
<1>2. IsFiniteSet(D)
  BY <1>1, OfKindIn DEF Made
<1>3. IsFiniteSet(M)
  <2>1. PICK f : f = [i \in D |-> s[i].of]
    OBVIOUS
  <2>2. f \in Surjection(D, M)
    BY <1>1, <2>1 DEF Surjection
  <2> QED BY <1>2, <2>2, FS_Surjection
<1>4. \A m \in M : IsFiniteSet(m)
  BY <1>1 DEF Made, OfKind
<1>5. IsFiniteSet(UNION M)
  BY <1>3, <1>4, FS_UNION
<1> QED BY <1>1, <1>5 DEF Mentioned

LEMMA OpenCallsAreFinite ==
  ASSUME NEW s, NEW K, Made(s, K)
  PROVE  IsFiniteSet(OpenCalls(s))
<1>1. PICK u, D, n : u = SinceOutcome(s) /\ D = OfKind(u, "graph") /\ n = Len(u)
  OBVIOUS
<1>2. Listed(u)
  BY <1>1, SinceFacts DEF Made
<1>3. D \in SUBSET (1..n) /\ n \in Nat
  BY <1>1, <1>2, OfKindIn, ListedFacts
<1>4. CASE D = {}
  BY <1>1, <1>4, FS_EmptySet DEF OpenCalls
<1>5. CASE D # {}
  <2>1. Max(D) \in D
    BY <1>3, <1>5, MaxIn
  <2>2. PICK o : o = LastOutcome(s)
    OBVIOUS
  <2>3. PICK x : x = u[Max(D)]
    OBVIOUS
  <2>4. x = s[o + Max(D)] /\ o + Max(D) \in OfKind(s, "graph")
    BY <1>1, <2>1, <2>2, <2>3, OpenFacts DEF Made
  <2>5. IsFiniteSet(x.of)
    BY <2>4 DEF Made, OfKind
  <2>6. OpenCalls(s) \subseteq x.of
    BY <1>1, <1>5, <2>3 DEF OpenCalls
  <2> QED BY <2>5, <2>6, FS_Subset
<1> QED BY <1>4, <1>5

\* So are the calls that are executed for planned ones, and the graph that is recorded.
LEMMA ExecutedAreFinite ==
  ASSUME NEW s, NEW K, Made(s, K), NEW p, IsFiniteSet(p.calls)
  PROVE  /\ IsFiniteSet(GraphCalls(s, p)) /\ IsFiniteSet(Unended(s, p))
         /\ \A L : "graph" \in L => Made(NewGraph(s, p), L)
<1>1. PICK D, n : D = Alike(s, p) /\ n = Len(s)
  OBVIOUS
<1>2. D \in SUBSET (1..n) /\ D \subseteq OfKind(s, "graph") /\ n \in Nat
  <2>1. Listed(s)
    BY DEF Made
  <2> QED BY <1>1, <2>1, OfKindIn, ListedFacts DEF Alike
<1>3. IsFiniteSet(GraphCalls(s, p))
  <2>1. CASE D = {}
    BY <1>1, <2>1 DEF GraphCalls
  <2>2. CASE D # {}
    <3>1. Max(D) \in D
      BY <1>2, <2>2, MaxIn
    <3> QED BY <1>1, <1>2, <2>2, <3>1 DEF GraphCalls, Made, OfKind
  <2> QED BY <2>1, <2>2
<1>4. IsFiniteSet(Unended(s, p))
  BY <1>3, FS_Subset DEF Unended
<1>5. \A L : "graph" \in L => Made(NewGraph(s, p), L)
  BY OneIsMade, EmptyIsMade DEF NewGraph
<1> QED BY <1>3, <1>4, <1>5

\* Each action keeps the invariant.
LEMMA DeliverKeepsAbout ==
  ASSUME AboutInv, Deliver
  PROVE  AboutInv'
<1>1. PICK t, plan, begun, summary :
        /\ t = {Delivered(records) + 1} /\ plan \in Proposals(records)
        /\ begun = records \o Asking(t) \o Others(1) \o plan
        /\ summary \in Summary(begun) /\ records' = begun \o summary \o Others(1)
        /\ trigger' = t
  BY Zenon DEF Deliver, Delivered
<1>2. PICK a : a = records \o Asking(t)
  OBVIOUS
<1>3. Listed(records)
  BY DEF AboutInv, Made
<1>4. Delivered(a) = Delivered(records) + 1 /\ LastNumbered(a)
  BY <1>1, <1>2, <1>3, NumbersGrow
<1>5. Made(a, Kinds)
  <2>1. IsFiniteSet(t) /\ "trigger" \in Kinds
    BY <1>1, FS_Singleton DEF Kinds
  <2>2. Made(Asking(t), Kinds)
    BY <2>1, OneIsMade DEF Asking
  <2> QED BY <1>2, <2>2, MadeConcat DEF AboutInv
<1>6. Made(Others(1), Going) /\ Made(summary, Going) /\ Made(plan, Going)
  <2>1. {"other"} \subseteq Going /\ {"summary", "plan"} \subseteq Going /\ IsFiniteSet({})
    BY FS_EmptySet DEF Going, Later, Kinds
  <2>2. summary = << >> \/ summary = Rec("summary", {})
    BY <1>1 DEF Summary
  <2>3. plan = << >> \/ plan = Rec("plan", {})
    BY <1>1 DEF Proposals
  <2> QED BY <2>1, <2>2, <2>3, OthersAreMade, MadeMore, OneIsMade, EmptyIsMade
<1>7. "trigger" \notin Going /\ Going \subseteq Kinds
  BY DEF Going, Later
<1>8. PICK b, c : b = a \o Others(1) /\ c = begun \o summary
  OBVIOUS
<1>9. records' = c \o Others(1) /\ begun = b \o plan
  BY <1>1, <1>2, <1>8
<1>10. Made(b, Kinds) /\ LastNumbered(b) /\ Delivered(b) = Delivered(a)
  BY <1>4, <1>5, <1>6, <1>7, <1>8, MadeConcat, MadeMore, NumbersKept DEF Made
<1>10a. Made(begun, Kinds) /\ LastNumbered(begun) /\ Delivered(begun) = Delivered(a)
  BY <1>6, <1>7, <1>9, <1>10, MadeConcat, MadeMore, NumbersKept DEF Made
<1>11. Made(c, Kinds) /\ LastNumbered(c) /\ Delivered(c) = Delivered(a)
  BY <1>6, <1>7, <1>8, <1>10a, MadeConcat, MadeMore, NumbersKept DEF Made
<1>12. Made(records', Kinds) /\ LastNumbered(records') /\ Delivered(records') = Delivered(a)
  BY <1>6, <1>7, <1>9, <1>11, MadeConcat, MadeMore, NumbersKept DEF Made
<1>13. pc' # "asked" /\ UNCHANGED <<request, running>> /\ context' = records'
  BY DEF Deliver
<1> QED BY <1>1, <1>4, <1>12, <1>13 DEF AboutInv

LEMMA ResolveKeepsAbout ==
  ASSUME AboutInv, Resolve
  PROVE  AboutInv'
<1>1. PICK p, verdict, left, graph, told :
        /\ p.calls \in Held(records) /\ verdict \in {"approved", "rejected"}
        /\ left = IF verdict = "rejected" THEN p.calls ELSE Unended(context, p)
        /\ \/ graph = << >>
           \/ graph = NewGraph(context, p) \o Checkpoints(left, left)
        /\ told = << >> \/ told = Rec(verdict, p.calls)
        /\ AppendAll(told \o graph \o Results(left))
        /\ context' = context \o Results(left)
  BY Zenon DEF Resolve
<1>2. IsFiniteSet(p.calls) /\ IsFiniteSet(left) /\ Made(NewGraph(context, p), Going)
  <2>1. PICK i \in DOMAIN records : p.calls = records[i].of
    BY <1>1 DEF Held, OfKind
  <2>2. IsFiniteSet(p.calls)
    BY <2>1 DEF AboutInv, Made
  <2>3. "graph" \in Going /\ Made(context, Kinds)
    BY DEF Going, Later, Kinds, AboutInv
  <2> QED BY <1>1, <2>2, <2>3, ExecutedAreFinite
<1>3. /\ {"other", "done"} \subseteq Going /\ {"result"} \subseteq Going
      /\ verdict \in Going
  BY <1>1 DEF Going, Later, Kinds
<1>4. Made(Checkpoints(left, left), Going) /\ Made(Results(left), Going) /\ Made(<< >>, Going)
  BY <1>2, <1>3, CheckpointsAreMade, ResultsAreMade, EmptyIsMade, MadeMore
<1>5. Made(Rec(verdict, p.calls), Going)
  BY <1>2, <1>3, OneIsMade
<1>6. Made(graph, Going) /\ Made(told, Going)
  BY <1>1, <1>2, <1>4, <1>5, MadeConcat
<1>7. PICK m : m = told \o graph \o Results(left)
  OBVIOUS
<1>8. Made(m, Going) /\ records' = records \o m
  BY <1>1, <1>4, <1>6, <1>7, MadeConcat DEF AppendAll
<1>9. pc = "resolve" /\ pc' = "ask" /\ UNCHANGED <<trigger, request, running>>
  BY DEF Resolve
<1>10. Made(context', Kinds)
  <2>1. Going \subseteq Kinds
    BY DEF Going, Later
  <2> QED BY <1>1, <1>4, <2>1, MadeConcat, MadeMore DEF AboutInv
<1> QED BY <1>8, <1>9, <1>10, GoesOnAbout DEF AboutInv

\* The trigger of a message put at the end, but for what is no trigger, is the last one.
LEMMA RepeatedConcat ==
  ASSUME NEW a, Listed(a), NEW t, NEW K, NEW g, Made(g, K), "trigger" \notin K
  PROVE  Repeated((a \o Asking(t)) \o g) = t
<1>1. PICK n, T, r, b : /\ n = Len(a) /\ T = OfKind(a, "trigger")
                        /\ r = [kind |-> "trigger", of |-> t] /\ b = a \o <<r>>
  OBVIOUS
<1>2. b = a \o Asking(t) /\ r.kind = "trigger" /\ r.of = t
  BY <1>1 DEF Asking, Rec
<1>3. n \in Nat /\ T \in SUBSET (1..n)
  BY <1>1, OfKindIn, ListedFacts
<1>4. OfKind(b, "trigger") = T \cup {n + 1} /\ b[n + 1] = r
  <2>1. /\ OfKind(a \o <<r>>, r.kind) = OfKind(a, r.kind) \cup {Len(a) + 1}
        /\ (a \o <<r>>)[Len(a) + 1] = r
    BY LastIsFound, Zenon
  <2> QED BY <1>1, <1>2, <2>1
<1>5. Listed(b)
  <2>1. Listed(Asking(t))
    BY RecIsMade DEF Asking
  <2> QED BY <1>2, <2>1, ConcatFacts
<1>6. PICK c, D : c = b \o g /\ D = T \cup {n + 1}
  OBVIOUS
<1>7. OfKind(c, "trigger") = D /\ c[n + 1] = r
  <2>1. /\ OfKind(b \o g, "trigger") = OfKind(b, "trigger")
        /\ \A i \in OfKind(b, "trigger") : (b \o g)[i] = b[i]
    BY <1>5, OfKindConcat, Zenon
  <2> QED BY <1>4, <1>6, <2>1
<1>8. Max(D) = n + 1
  <2>1. D \in SUBSET (1..(n + 1)) /\ D # {} /\ n + 1 \in D /\ n + 1 \in Nat
    BY <1>3, <1>6
  <2>2. Max(D) \in D /\ \A i \in D : i <= Max(D)
    BY <2>1, MaxIn
  <2>3. Max(D) \in 1..(n + 1) /\ n + 1 <= Max(D)
    BY <2>1, <2>2
  <2> QED BY <1>3, <2>3
<1>9. Repeated(c) = t
  BY <1>2, <1>7, <1>8 DEF Repeated
<1> QED BY <1>2, <1>6, <1>9

\* The messages of a sequence of records are a sequence.
LEMMA MessagesAreListed ==
  ASSUME NEW s, Listed(s)
  PROVE  Listed(Messages(s))
<1>1. PICK D : D = {i \in DOMAIN s : s[i].kind \in Spoken}
  OBVIOUS
<1>2. IsFiniteSet(D)
  <2>1. Len(s) \in Nat /\ DOMAIN s = 1..Len(s)
    BY ListedFacts
  <2>2. IsFiniteSet(1..Len(s))
    BY <2>1, FS_Interval
  <2> QED BY <1>1, <2>1, <2>2, FS_Subset
<1>3. PICK n : n = Cardinality(D)
  OBVIOUS
<1>4. n \in Nat
  BY <1>2, <1>3, FS_CardinalityType
<1>5. PICK m : m = [p \in 1..n |-> s[Nth(D, p)]]
  OBVIOUS
<1>6. PICK S : S = {m[p] : p \in 1..n}
  OBVIOUS
<1>7. m \in Seq(S)
  <2>1. DOMAIN m = 1..n /\ m = [p \in 1..n |-> m[p]] /\ \A p \in 1..n : m[p] \in S
    BY <1>5, <1>6
  <2> QED BY <1>4, <2>1
<1>8. m = Messages(s)
  BY <1>1, <1>3, <1>5 DEF Messages
<1> QED BY <1>7, <1>8 DEF Listed

\* The records that are shown: those behind the first o.
Behind(s, o) == IF o = 0 THEN s ELSE SubSeq(s, o + 1, Len(s))

\* The records a window shows, with their positions shifted.
LEMMA BehindFacts ==
  ASSUME NEW s, Listed(s), NEW o \in 0..Len(s)
  PROVE  /\ Listed(Behind(s, o)) /\ DOMAIN Behind(s, o) = 1..(Len(s) - o)
         /\ \A i \in 1..(Len(s) - o) : Behind(s, o)[i] = s[o + i]
<1>1. PICK n, w : n = Len(s) /\ w = Behind(s, o)
  OBVIOUS
<1>2. n \in Nat /\ DOMAIN s = 1..n
  BY <1>1, ListedFacts
<1>3. CASE o = 0
  <2>1. w = s
    BY <1>1, <1>3 DEF Behind
  <2> QED BY <1>1, <1>2, <1>3, <2>1
<1>4. CASE o # 0
  <2>1. PICK S : s \in Seq(S)
    BY DEF Listed
  <2>2. o \in 1..n
    BY <1>1, <1>2, <1>4
  <2>3. w = SubSeq(s, o + 1, n)
    BY <1>1, <1>4 DEF Behind
  <2>4. w = [i \in 1..(n - o) |-> s[o + i]]
    <3>1. w = [i \in 1..(n - (o + 1) + 1) |-> s[i + (o + 1) - 1]]
      BY <1>2, <2>1, <2>2, <2>3
    <3>2. n - (o + 1) + 1 = n - o /\ \A i \in 1..(n - o) : i + (o + 1) - 1 = o + i
      BY <1>2, <2>2
    <3> QED BY <3>1, <3>2
  <2>5. \A i \in 1..(n - o) : s[o + i] \in S
    <3>1. \A i \in 1..(n - o) : o + i \in 1..n
      BY <1>2, <2>2
    <3> QED BY <1>2, <2>1, <3>1
  <2>6. n - o \in Nat
    BY <1>2, <2>2
  <2>7. w \in Seq(S) /\ Len(w) = n - o
    BY <2>4, <2>5, <2>6
  <2>8. DOMAIN w = 1..(n - o) /\ \A i \in 1..(n - o) : w[i] = s[o + i]
    BY <2>4
  <2> QED BY <1>1, <2>7, <2>8 DEF Listed
<1> QED BY <1>3, <1>4

\* A request: a notice if there are records that are not shown, the messages among those
\* that are, and the trigger.
LEMMA ShownFacts ==
  ASSUME NEW s, Listed(s), NEW t
  PROVE  \E o, notice :
           /\ o \in 0..Len(s)
           /\ notice = IF o = 0 THEN << >> ELSE Notice
           /\ Shown(s, t) = notice \o Messages(Behind(s, o)) \o Asking(t)
           /\ Listed(notice) /\ Listed(Messages(Behind(s, o)))
<1>1. PICK n : n = Len(s)
  OBVIOUS
<1>2. n \in Nat /\ Window \in Nat \ {0}
  BY <1>1, ListedFacts, WindowAssumption
<1>3. PICK o : o = IF Truncated(s) THEN n - Window ELSE 0
  OBVIOUS
<1>4. o \in 0..n /\ (o = 0 <=> ~Truncated(s))
  BY <1>1, <1>2, <1>3 DEF Truncated
<1>5. Behind(s, o) = IF Truncated(s) THEN SubSeq(s, n - Window + 1, n) ELSE s
  BY <1>1, <1>3, <1>4 DEF Behind
<1>6. PICK notice : notice = IF o = 0 THEN << >> ELSE Notice
  OBVIOUS
<1>7. Shown(s, t) = notice \o Messages(Behind(s, o)) \o Asking(t)
  BY <1>1, <1>4, <1>5, <1>6 DEF Shown
<1>8. Listed(notice)
  <2>1. PICK r : r = [kind |-> "notice", of |-> {}]
    OBVIOUS
  <2>2. <<r>> \in Seq({r})
    OBVIOUS
  <2>3. Listed(Notice)
    BY <2>1, <2>2 DEF Listed, Notice
  <2> QED BY <1>6, <2>3, EmptyIsMade
<1>9. Listed(Messages(Behind(s, o)))
  BY <1>1, <1>4, BehindFacts, MessagesAreListed
<1> QED BY <1>1, <1>4, <1>6, <1>7, <1>8, <1>9

\* A request ends with the trigger that its driver answers.
LEMMA AskKeepsAbout ==
  ASSUME AboutInv, Ask
  PROVE  AboutInv'
<1>0. Listed(context) /\ IsFiniteSet(LatestCache(context))
  <2>1. PICK D, n : D = OfKind(context, "cache") /\ n = Len(context)
    OBVIOUS
  <2>2. D \in SUBSET (1..n) /\ n \in Nat /\ Listed(context)
    BY <2>1, OfKindIn, ListedFacts DEF AboutInv, Made
  <2>3. D # {} => Max(D) \in D
    BY <2>2, MaxIn
  <2>4. D # {} => IsFiniteSet(context[Max(D)].of)
    BY <2>1, <2>3 DEF AboutInv, Made, OfKind
  <2> QED BY <2>1, <2>2, <2>4, FS_EmptySet DEF LatestCache
<1>1. PICK all : all = Contents(context, trigger)
  OBVIOUS
<1>2. Repeated(all) = trigger
  <2>1. PICK o, notice :
          /\ o \in 0..Len(context)
          /\ Shown(context, trigger) = notice \o Messages(Behind(context, o)) \o Asking(trigger)
          /\ Listed(notice) /\ Listed(Messages(Behind(context, o)))
    BY <1>0, ShownFacts
  <2>2. PICK a : a = notice \o Messages(Behind(context, o))
    OBVIOUS
  <2>3. Listed(a) /\ Shown(context, trigger) = a \o Asking(trigger)
    BY <2>1, <2>2, ConcatFacts
  <2>4. Made(Guide(context), {"guide"}) /\ "trigger" \notin {"guide"}
    BY OneIsMade, EmptyIsMade, FS_EmptySet DEF Guide
  <2>5. all = (a \o Asking(trigger)) \o Guide(context)
    BY <1>1, <2>3 DEF Contents
  <2> QED BY <2>3, <2>4, <2>5, RepeatedConcat
<1>3. request'.meant = all /\ request'.cache \in {{}, LatestCache(context), {Len(caches) + 1}}
  BY <1>1 DEF Ask
<1>3a. UNCHANGED <<context, running>>
  BY DEF Ask
<1>4. IsFiniteSet(request'.cache)
  <2>1. IsFiniteSet({}) /\ \A x : IsFiniteSet({x})
    BY FS_EmptySet, FS_Singleton
  <2> QED BY <1>0, <1>3, <2>1
<1>5. pc = "ask" /\ pc' = "asked" /\ UNCHANGED <<records, trigger>>
  BY DEF Ask
<1> QED BY <1>2, <1>3, <1>3a, <1>4, <1>5 DEF AboutInv

LEMMA FinishesKeepAbout ==
  ASSUME AboutInv, Stop \/ Respond \/ ProviderFails
  PROVE  AboutInv'
<1>1. UNCHANGED request
  BY DEF Stop, Respond, ProviderFails
<1>2. CASE Stop \/ ProviderFails
  <2>1. Finish(<< >>)
    BY <1>2 DEF Stop, ProviderFails
  <2> QED BY <1>1, <2>1, EmptyIsMade, FinishKeepsAbout
<1>3. CASE Respond
  <2>1. PICK said : /\ said = Rec("respond", {}) \/ said = Others(1)
                    /\ Finish(Metadata \o said)
    BY <1>3 DEF Respond
  <2>2. /\ {"other", "cache"} \subseteq Later /\ {"other"} \subseteq Later
        /\ "respond" \in Later /\ IsFiniteSet({})
    BY FS_EmptySet DEF Later, Kinds
  <2>3. Made(said, Later)
    BY <2>1, <2>2, OneIsMade, OthersAreMade, MadeMore
  <2>4. Made(Metadata, Later)
    BY <2>2, MetadataIsMade, MadeMore
  <2>5. PICK m : m = Metadata \o said
    OBVIOUS
  <2>6. Made(m, Later) /\ Finish(m)
    BY <2>1, <2>3, <2>4, <2>5, MadeConcat
  <2> QED BY <1>1, <2>6, FinishKeepsAbout
<1> QED BY <1>2, <1>3

\* The numbers of new calls.
LEMMA IdsAreFinite ==
  ASSUME NEW n \in Nat, NEW c \in Nat
  PROVE  IsFiniteSet(Ids(n, c))
<1>1. c + 1 \in Int /\ c + n \in Int
  OBVIOUS
<1> QED BY <1>1, FS_Interval DEF Ids

LEMMA PlanKeepsAbout ==
  ASSUME AboutInv, PlanCalls
  PROVE  AboutInv'
<1>1. PICK n, p, calls, planned :
        /\ n \in Batches /\ p.calls = calls
        /\ calls = Ids(n, Cardinality(Mentioned(records, "call")))
        /\ planned = Metadata \o Rec("call", calls)
        /\ \/ /\ AppendAll(planned \o NewGraph(context, p))
              /\ running' = Unended(context, p)
              /\ pc' = "run" /\ UNCHANGED <<context, trigger>>
           \/ Finish(planned \o Rec("pending", calls))
  <2>1. PICK n \in Batches, named \in BOOLEAN :
          LET calls == Ids(n, Cardinality(Mentioned(records, "call")))
              p == [calls |-> calls, step |-> step, named |-> named]
              planned == Metadata \o Rec("call", calls)
          IN  \/ /\ AppendAll(planned \o NewGraph(context, p))
                 /\ running' = Unended(context, p)
                 /\ pc' = "run" /\ UNCHANGED <<context, trigger>>
              \/ Finish(planned \o Rec("pending", calls))
    BY Zenon DEF PlanCalls
  <2>2. PICK calls, p : /\ calls = Ids(n, Cardinality(Mentioned(records, "call")))
                        /\ p = [calls |-> calls, step |-> step, named |-> named]
    OBVIOUS
  <2>3. p.calls = calls
    BY <2>2
  <2> QED BY <2>1, <2>2, <2>3, Zenon
<1>2. IsFiniteSet(calls)
  <2>1. PICK c : c = Cardinality(Mentioned(records, "call"))
    OBVIOUS
  <2>2. c \in Nat
    BY <2>1, MentionedIsFinite, FS_CardinalityType DEF AboutInv
  <2>3. n \in Nat
    BY <1>1, BatchesAssumption
  <2> QED BY <1>1, <2>1, <2>2, <2>3, IdsAreFinite
<1>3. {"other", "cache"} \subseteq Going /\ {"call", "graph", "pending"} \subseteq Going
  BY DEF Going, Later, Kinds
<1>4. Made(planned, Going)
  <2>1. Made(Metadata, Going)
    BY <1>3, MetadataIsMade, MadeMore
  <2>2. Made(Rec("call", calls), Going)
    BY <1>2, <1>3, OneIsMade
  <2> QED BY <1>1, <2>1, <2>2, MadeConcat
<1>5. /\ Made(NewGraph(context, p), Going) /\ Made(Rec("pending", calls), Going)
      /\ IsFiniteSet(Unended(context, p))
  <2>1. Made(context, Kinds) /\ IsFiniteSet(p.calls) /\ "graph" \in Going
    BY <1>1, <1>2, <1>3 DEF AboutInv
  <2> QED BY <1>2, <1>3, <2>1, ExecutedAreFinite, OneIsMade
<1>6. PICK g, h : g = planned \o NewGraph(context, p) /\ h = planned \o Rec("pending", calls)
  OBVIOUS
<1>7. Made(g, Going) /\ Made(h, Going)
  BY <1>4, <1>5, <1>6, MadeConcat
<1>8. UNCHANGED request
  BY DEF PlanCalls
<1>9. CASE /\ AppendAll(planned \o NewGraph(context, p)) /\ running' = Unended(context, p)
           /\ pc' = "run" /\ UNCHANGED <<context, trigger>>
  <2>1. records' = records \o g
    BY <1>6, <1>9 DEF AppendAll
  <2> QED BY <1>5, <1>7, <1>8, <1>9, <2>1, GoesOnAbout DEF AboutInv
<1>10. CASE Finish(planned \o Rec("pending", calls))
  <2>1. Finish(h) /\ Going \subseteq Later
    BY <1>6, <1>10 DEF Going
  <2> QED BY <1>7, <1>8, <2>1, MadeMore, FinishKeepsAbout
<1> QED BY <1>1, <1>9, <1>10

LEMMA RunKeepsAbout ==
  ASSUME AboutInv, Run
  PROVE  AboutInv'
<1>1. PICK m : m = Checkpoints(running, running) \o Results(running)
  OBVIOUS
<1>2. {"other", "done"} \subseteq Going /\ {"result"} \subseteq Going
  BY DEF Going, Later, Kinds
<1>3. Made(Checkpoints(running, running), Going) /\ Made(Results(running), Going)
  BY <1>2, CheckpointsAreMade, ResultsAreMade, MadeMore DEF AboutInv
<1>4. Made(m, Going) /\ records' = records \o m
  BY <1>1, <1>3, MadeConcat DEF Run, Answers, AppendAll
<1>5. pc' = "continue" /\ IsFiniteSet(running') /\ UNCHANGED <<context, trigger, request>>
  BY FS_EmptySet DEF Run
<1> QED BY <1>4, <1>5, GoesOnAbout DEF AboutInv

LEMMA ContinueKeepsAbout ==
  ASSUME AboutInv, Continue
  PROVE  AboutInv'
<1>1. PICK calls, m : /\ calls = OpenCalls(records)
                      /\ m = IF calls = {} THEN << >>
                             ELSE Checkpoints(calls, calls) \o Results(calls)
                      /\ AppendAll(m) /\ context' = records \o Results(calls)
  BY Zenon DEF Continue
<1>2. IsFiniteSet(calls)
  BY <1>1, OpenCallsAreFinite DEF AboutInv
<1>3. {"other", "done"} \subseteq Going /\ {"result"} \subseteq Going /\ Going \subseteq Kinds
  BY DEF Going, Later, Kinds
<1>4. Made(Checkpoints(calls, calls), Going) /\ Made(Results(calls), Going) /\ Made(<< >>, Going)
  BY <1>2, <1>3, CheckpointsAreMade, ResultsAreMade, EmptyIsMade, MadeMore
<1>5. Made(m, Going) /\ records' = records \o m
  BY <1>1, <1>4, MadeConcat DEF AppendAll
<1>6. Made(context', Kinds)
  BY <1>1, <1>3, <1>4, MadeConcat, MadeMore DEF AboutInv
<1>7. trigger' = ActiveTrigger(records) /\ pc' = "ask" /\ UNCHANGED <<request, running>>
  BY DEF Continue
<1>8. OneOpen(records) => trigger' = {Delivered(records)}
  BY <1>7, OneOpenIsLast DEF AboutInv, Made
<1> QED BY <1>5, <1>6, <1>7, <1>8, GoesOnAbout DEF AboutInv

LEMMA InterruptKeepsAbout ==
  ASSUME AboutInv, Interrupt
  PROVE  AboutInv'
<1>1. pc' = "idle" /\ context' = << >> /\ IsFiniteSet(running') /\ UNCHANGED request
  BY FS_EmptySet DEF Interrupt, Leave
<1>2. Made(context', Kinds)
  BY <1>1, EmptyIsMade
<1>3. PICK calls : calls = running
  OBVIOUS
<1>4. IsFiniteSet(calls)
  BY <1>3 DEF AboutInv
<1>5. {"other", "done"} \subseteq Going /\ {"result"} \subseteq Going
  BY DEF Going, Later, Kinds
<1>6. \/ UNCHANGED records
      \/ \E some \in FirstOf(calls) :
           \/ AppendAll(Checkpoints(calls, some))
           \/ AppendAll(Checkpoints(calls, calls) \o Results(some))
  BY <1>3, Zenon DEF Interrupt
<1>7. CASE UNCHANGED records
  BY <1>1, <1>2, <1>7 DEF AboutInv
<1>8. ASSUME NEW some \in FirstOf(calls), NEW m, records' = records \o m,
             \/ m = Checkpoints(calls, some)
             \/ m = Checkpoints(calls, calls) \o Results(some)
      PROVE  AboutInv'
  <2>1. IsFiniteSet(some)
    <3>1. some \subseteq calls
      BY <1>8 DEF FirstOf
    <3> QED BY <1>4, <3>1, FS_Subset
  <2>2. Made(Checkpoints(calls, some), Going) /\ Made(Checkpoints(calls, calls), Going)
    BY <1>4, <1>5, <2>1, CheckpointsAreMade, MadeMore
  <2>3. Made(Results(some), Going)
    BY <1>5, <2>1, ResultsAreMade, MadeMore
  <2>4. Made(m, Going)
    BY <1>8, <2>2, <2>3, MadeConcat
  <2> QED BY <1>1, <1>2, <1>8, <2>4, GoesOnAbout DEF AboutInv
<1> QED BY <1>6, <1>7, <1>8 DEF AppendAll

\* The driver answers the latest trigger, where only one is open.
LEMMA AboutHolds == Spec => []AboutInv
<1>1. Init => AboutInv
  <2> SUFFICES ASSUME Init PROVE AboutInv
    OBVIOUS
  <2>1. records = << >> /\ context = << >> /\ pc = "idle" /\ request.cache = {} /\ running = {}
    BY DEF Init
  <2>2. OfKind(records, "trigger") = {}
    BY <2>1 DEF OfKind
  <2> QED BY <2>1, <2>2, EmptyIsMade, FS_EmptySet DEF AboutInv, LastNumbered
<1>2. AboutInv /\ [Next]_vars => AboutInv'
  <2> SUFFICES ASSUME AboutInv, [Next]_vars PROVE AboutInv'
    OBVIOUS
  <2>1. CASE UNCHANGED vars
    BY <2>1 DEF vars, driver, AboutInv
  <2> QED BY <2>1, DeliverKeepsAbout, ResolveKeepsAbout, AskKeepsAbout, FinishesKeepAbout,
             PlanKeepsAbout, RunKeepsAbout, ContinueKeepsAbout, InterruptKeepsAbout DEF Next
<1> QED BY <1>1, <1>2, PTL DEF Spec

\* The trigger a request repeats at its end is the latest one, unless an earlier one was
\* left without an outcome: whatever is planned, held for an approval or interrupted, for
\* any window, batches and number of triggers.  (SessionSnapshot::active_trigger,
\* types.rs:1588, and build_provider_contents, engine.rs:2865)
THEOREM RequestsAskAboutLatest == Spec => []AsksAboutLatest
<1>1. AboutInv => AsksAboutLatest
  BY DEF AboutInv, AsksAboutLatest, OneOpen, Delivered
<1> QED BY <1>1, AboutHolds, PTL


-----------------------------------------------------------------------------
(* The elements of a finite set of numbers, in their order. *)

Below(D, c) == {d \in D : d < c}

\* How many are below an element of a finite set of numbers.
LEMMA BelowFacts ==
  ASSUME NEW D, D \in SUBSET Nat, IsFiniteSet(D), NEW N, N = Cardinality(D)
  PROVE  /\ N \in Nat
         /\ \A c \in D : Cardinality(Below(D, c)) \in 0..(N - 1)
         /\ \A c, e \in D : c < e => Cardinality(Below(D, c)) < Cardinality(Below(D, e))
<1>1. N \in Nat
  BY FS_CardinalityType
<1>2. \A c, e \in D : c < e => Cardinality(Below(D, c)) < Cardinality(Below(D, e))
  <2>1. SUFFICES ASSUME NEW c \in D, NEW e \in D, c < e
                 PROVE  Cardinality(Below(D, c)) < Cardinality(Below(D, e))
    OBVIOUS
  <2>2. Below(D, c) \subseteq Below(D, e) /\ c \in Below(D, e) /\ c \notin Below(D, c)
    <3>1. c \in Nat /\ e \in Nat /\ \A d \in D : d \in Nat
      OBVIOUS
    <3>2. \A d \in Below(D, c) : d \in Below(D, e)
      BY <2>1, <3>1 DEF Below
    <3>3. c \in Below(D, e) /\ c \notin Below(D, c)
      BY <2>1, <3>1 DEF Below
    <3> QED BY <3>2, <3>3
  <2>3. IsFiniteSet(Below(D, e)) /\ Below(D, c) # Below(D, e)
    BY <2>2, FS_Subset DEF Below
  <2>4. /\ Cardinality(Below(D, c)) <= Cardinality(Below(D, e))
        /\ Cardinality(Below(D, c)) # Cardinality(Below(D, e))
        /\ Cardinality(Below(D, c)) \in Nat /\ Cardinality(Below(D, e)) \in Nat
    BY <2>2, <2>3, FS_Subset, FS_CardinalityType
  <2> QED BY <2>4
<1>3. \A c \in D : Cardinality(Below(D, c)) \in 0..(N - 1)
  <2>1. TAKE c \in D
  <2>2. Below(D, c) \subseteq D /\ c \notin Below(D, c)
    BY DEF Below
  <2>3. Below(D, c) # D /\ IsFiniteSet(Below(D, c))
    BY <2>2, FS_Subset
  <2>4. /\ Cardinality(Below(D, c)) <= N /\ Cardinality(Below(D, c)) # N
        /\ Cardinality(Below(D, c)) \in Nat
    BY <2>2, <2>3, FS_Subset, FS_CardinalityType
  <2> QED BY <1>1, <2>4
<1> QED BY <1>1, <1>2, <1>3

\* Nth counts a finite set of numbers upwards, from 1 to its size.
LEMMA NthFacts ==
  ASSUME NEW D, D \in SUBSET Nat, IsFiniteSet(D), NEW N, N = Cardinality(D)
  PROVE  /\ N \in Nat
         /\ \A p \in 1..N : Nth(D, p) \in D
         /\ \A p, q \in 1..N : p < q => Nth(D, p) < Nth(D, q)
         /\ \A c \in D : \E p \in 1..N : Nth(D, p) = c
<1>1. PICK f : f = [c \in D |-> Cardinality(Below(D, c))]
  OBVIOUS
<1>2. /\ N \in Nat /\ \A c \in D : f[c] \in 0..(N - 1)
      /\ \A c, e \in D : c < e => f[c] < f[e]
  BY <1>1, BelowFacts
<1>3. f \in [D -> 0..(N - 1)]
  BY <1>1, <1>2
<1>4. \A c, e \in D : f[c] = f[e] => c = e
  <2>1. SUFFICES ASSUME NEW c \in D, NEW e \in D, f[c] = f[e] PROVE c = e
    OBVIOUS
  <2>2. c \in Nat /\ e \in Nat /\ f[c] \in 0..(N - 1) /\ f[e] \in 0..(N - 1)
    BY <1>2
  <2>3. ~(c < e) /\ ~(e < c)
    BY <1>2, <2>1, <2>2
  <2> QED BY <2>2, <2>3
<1>5. f \in Injection(D, 0..(N - 1))
  BY <1>3, <1>4 DEF Injection, IsInjective
<1>6. IsFiniteSet(0..(N - 1)) /\ Cardinality(0..(N - 1)) = N
  <2>1. PICK m : m = N - 1
    OBVIOUS
  <2>2. m \in Int /\ 0 \in Int /\ (0 > m => N = 0) /\ m - 0 + 1 = N
    BY <1>2, <2>1
  <2>3. IsFiniteSet(0..m) /\ Cardinality(0..m) = IF 0 > m THEN 0 ELSE m - 0 + 1
    BY <2>2, FS_Interval
  <2> QED BY <2>1, <2>2, <2>3
<1>7. f \in Surjection(D, 0..(N - 1))
  BY <1>5, <1>6, FS_Injection
<1>8. \A x \in 0..(N - 1) : \E c \in D : f[c] = x
  BY <1>7 DEF Surjection
<1>9. \A p : Nth(D, p) = CHOOSE c \in D : Cardinality(Below(D, c)) = p - 1
  BY DEF Nth, Below
<1>10. \A p \in 1..N : Nth(D, p) \in D /\ f[Nth(D, p)] = p - 1
  <2>1. TAKE p \in 1..N
  <2>2. PICK c \in D : f[c] = p - 1
    <3>1. p - 1 \in 0..(N - 1)
      BY <1>2
    <3> QED BY <1>8, <3>1
  <2>3. Cardinality(Below(D, c)) = p - 1
    BY <1>1, <2>2
  <2>4. Nth(D, p) \in D /\ Cardinality(Below(D, Nth(D, p))) = p - 1
    BY <1>9, <2>3
  <2> QED BY <1>1, <2>4
<1>11. \A p, q \in 1..N : p < q => Nth(D, p) < Nth(D, q)
  <2>1. SUFFICES ASSUME NEW p \in 1..N, NEW q \in 1..N, p < q
                 PROVE  Nth(D, p) < Nth(D, q)
    OBVIOUS
  <2>2. PICK c, e : c = Nth(D, p) /\ e = Nth(D, q)
    OBVIOUS
  <2>3. c \in D /\ e \in D /\ f[c] = p - 1 /\ f[e] = q - 1
    BY <1>10, <2>2
  <2>4. f[c] < f[e] /\ c \in Nat /\ e \in Nat
    BY <1>2, <2>1, <2>3
  <2>5. ~(e < c) /\ e # c
    <3>1. e < c => f[e] < f[c]
      BY <1>2, <2>3
    <3> QED BY <1>2, <2>3, <2>4, <3>1
  <2> QED BY <2>2, <2>4, <2>5
<1>12. \A c \in D : \E p \in 1..N : Nth(D, p) = c
  <2>1. TAKE c \in D
  <2>2. PICK p : p = f[c] + 1
    OBVIOUS
  <2>3. p \in 1..N /\ f[c] = p - 1
    BY <1>2, <2>2
  <2>4. Nth(D, p) \in D /\ f[Nth(D, p)] = f[c]
    BY <1>10, <2>3
  <2> QED BY <1>4, <2>3, <2>4
<1> QED BY <1>2, <1>10, <1>11, <1>12

-----------------------------------------------------------------------------
(* Calls and results in a session, and in what is shown of it. *)

Result(c) == [kind |-> "result", of |-> {c}]
\* The calls of record i are answered behind record g, and nothing is said in between.
Block(s, i, g) ==
  /\ i \in Nat \ {0} /\ g \in Nat /\ i <= g /\ s[i].kind = "call"
  /\ s[i].of \in SUBSET Nat /\ IsFiniteSet(s[i].of) /\ g + Cardinality(s[i].of) <= Len(s)
  /\ \A k \in (i + 1)..g : s[k].kind \notin Spoken
  /\ \A k \in 1..Cardinality(s[i].of) : s[g + k] = Result(Nth(s[i].of, k))
Answer(s, i, g, k) == Block(s, i, g) /\ k \in 1..Cardinality(s[i].of)
\* Every call is answered, but those of lost, and every result is an answer.
Exchanged(s, lost) ==
  /\ \A i \in DOMAIN s : s[i].kind = "call" /\ ~(s[i].of \subseteq lost) => \E g : Block(s, i, g)
  /\ \A i \in DOMAIN s : s[i].kind = "result" => \E j, g, k : Answer(s, j, g, k) /\ i = g + k

\* The record of a call's result.
LEMMA ResultIsMade == \A c : Rec("result", {c})[1] = Result(c)
<1> TAKE c
<1>1. PICK r, s : r = [kind |-> "result", of |-> {c}] /\ s = <<r>>
  OBVIOUS
<1>2. s[1] = r
  BY <1>1
<1>3. s = Rec("result", {c}) /\ r = Result(c)
  BY <1>1 DEF Rec, Result
<1> QED BY <1>2, <1>3

\* The messages m are those of s behind record o, each at its place of f.
Shows(m, s, o, f, N) ==
  /\ N \in Nat /\ Len(m) = N /\ DOMAIN m = 1..N /\ o \in 0..Len(s)
  /\ \A p \in 1..N : /\ f[p] \in (o + 1)..Len(s) /\ m[p] = s[f[p]]
                     /\ m[p].kind \in Spoken
  /\ \A p, q \in 1..N : p < q => f[p] < f[q]
  /\ \A i \in (o + 1)..Len(s) : s[i].kind \in Spoken => \E p \in 1..N : f[p] = i

LEMMA SameInterval ==
  ASSUME NEW a \in Nat, NEW b \in Nat, 1..a = 1..b
  PROVE  a = b
<1>1. ASSUME a < b PROVE FALSE
  <2>1. b \in 1..b /\ b \notin 1..a
    BY <1>1
  <2> QED BY <2>1
<1>2. ASSUME b < a PROVE FALSE
  <2>1. a \in 1..a /\ a \notin 1..b
    BY <1>2
  <2> QED BY <2>1
<1> QED BY <1>1, <1>2

\* The messages behind record o, each with the place it comes from.
LEMMA MessagesShow ==
  ASSUME NEW s, Listed(s), NEW o \in 0..Len(s), NEW m, m = Messages(Behind(s, o))
  PROVE  \E f, N : Shows(m, s, o, f, N)
<1>1. PICK n, w : n = Len(s) /\ w = Behind(s, o)
  OBVIOUS
<1>2. n \in Nat /\ DOMAIN s = 1..n /\ o \in 0..n
  BY <1>1, ListedFacts
<1>3. Listed(w) /\ DOMAIN w = 1..(n - o) /\ \A i \in 1..(n - o) : w[i] = s[o + i]
  <2>1. /\ Listed(Behind(s, o)) /\ DOMAIN Behind(s, o) = 1..(Len(s) - o)
        /\ \A i \in 1..(Len(s) - o) : Behind(s, o)[i] = s[o + i]
    BY BehindFacts
  <2> QED BY <1>1, <2>1
<1>4. PICK D : D = {i \in DOMAIN w : w[i].kind \in Spoken}
  OBVIOUS
<1>5. D \in SUBSET Nat /\ IsFiniteSet(D) /\ D \in SUBSET (1..(n - o))
  <2>1. n - o \in Nat
    BY <1>2
  <2>2. IsFiniteSet(1..(n - o))
    BY <2>1, FS_Interval
  <2>3. D \in SUBSET (1..(n - o))
    BY <1>3, <1>4
  <2>4. IsFiniteSet(D)
    BY <2>2, <2>3, FS_Subset
  <2>5. D \in SUBSET Nat
    BY <2>3
  <2> QED BY <2>3, <2>4, <2>5
<1>6. PICK N : N = Cardinality(D)
  OBVIOUS
<1>7. /\ N \in Nat
      /\ \A p \in 1..N : Nth(D, p) \in D
      /\ \A p, q \in 1..N : p < q => Nth(D, p) < Nth(D, q)
      /\ \A c \in D : \E p \in 1..N : Nth(D, p) = c
  BY <1>5, <1>6, NthFacts
<1>8. m = [p \in 1..N |-> w[Nth(D, p)]]
  BY <1>1, <1>4, <1>6 DEF Messages
<1>9. PICK f : f = [p \in 1..N |-> o + Nth(D, p)]
  OBVIOUS
<1>10. DOMAIN m = 1..N /\ Len(m) = N
  <2>1. Listed(m)
    BY <1>1, <1>3, MessagesAreListed
  <2>2. DOMAIN m = 1..Len(m) /\ Len(m) \in Nat
    BY <2>1, ListedFacts
  <2>3. DOMAIN m = 1..N
    BY <1>8
  <2> QED BY <1>7, <2>2, <2>3, SameInterval
<1>11. \A p \in 1..N : /\ f[p] \in (o + 1)..n /\ m[p] = s[f[p]] /\ m[p].kind \in Spoken
  <2>1. TAKE p \in 1..N
  <2>2. PICK c : c = Nth(D, p)
    OBVIOUS
  <2>3. c \in D /\ c \in 1..(n - o) /\ m[p] = w[c] /\ f[p] = o + c
    BY <1>5, <1>7, <1>8, <1>9, <2>2
  <2>4. w[c] = s[o + c] /\ w[c].kind \in Spoken
    BY <1>3, <1>4, <2>3
  <2>5. o + c \in (o + 1)..n
    BY <1>2, <2>3
  <2> QED BY <2>3, <2>4, <2>5
<1>12. \A p, q \in 1..N : p < q => f[p] < f[q]
  <2>1. SUFFICES ASSUME NEW p \in 1..N, NEW q \in 1..N, p < q PROVE f[p] < f[q]
    OBVIOUS
  <2>2. PICK c, e : c = Nth(D, p) /\ e = Nth(D, q)
    OBVIOUS
  <2>3. c < e /\ c \in Nat /\ e \in Nat /\ f[p] = o + c /\ f[q] = o + e
    BY <1>5, <1>7, <1>9, <2>1, <2>2
  <2> QED BY <1>2, <2>3
<1>13. \A i \in (o + 1)..n : s[i].kind \in Spoken => \E p \in 1..N : f[p] = i
  <2>1. SUFFICES ASSUME NEW i \in (o + 1)..n, s[i].kind \in Spoken
                 PROVE  \E p \in 1..N : f[p] = i
    OBVIOUS
  <2>2. PICK c : c = i - o
    OBVIOUS
  <2>3. c \in 1..(n - o) /\ o + c = i
    BY <1>2, <2>2
  <2>4. c \in D
    BY <1>3, <1>4, <2>1, <2>3
  <2>5. PICK p \in 1..N : Nth(D, p) = c
    BY <1>7, <2>4
  <2> QED BY <1>9, <2>3, <2>5
<1>14. N \in Nat /\ Len(m) = N /\ DOMAIN m = 1..N /\ o \in 0..Len(s)
  BY <1>7, <1>10
<1>15. Shows(m, s, o, f, N)
  BY <1>1, <1>11, <1>12, <1>13, <1>14 DEF Shows
<1> QED BY <1>15

\* In what is shown, the answers are right behind the calls.
LEMMA AnswersFollow ==
  ASSUME NEW m, NEW s, NEW o, NEW f, NEW N, Shows(m, s, o, f, N), NEW L, L = Len(s), L \in Nat,
         NEW p \in 1..N, NEW g, Block(s, f[p], g), NEW n, n = Cardinality(s[f[p]].of)
  PROVE  n \in Nat /\ \A k \in 1..n : p + k \in 1..N /\ f[p + k] = g + k
<1>1. /\ n \in Nat /\ N \in Nat /\ o \in 0..L /\ g \in Nat /\ g + n <= L
      /\ f[p] <= g /\ f[p] \in (o + 1)..L
      /\ \A k \in (f[p] + 1)..g : s[k].kind \notin Spoken
      /\ \A k \in 1..n : s[g + k].kind = "result"
  <2>1. n \in Nat
    BY FS_CardinalityType DEF Block
  <2>2. \A c : Result(c).kind = "result"
    BY DEF Result
  <2> QED BY <2>1, <2>2 DEF Shows, Block
<1> DEFINE Bad == {k \in 1..n : ~(p + k \in 1..N /\ f[p + k] = g + k)}
<1>2. SUFFICES ASSUME Bad # {} PROVE FALSE
  BY <1>1
<1>3. PICK k \in Bad : \A j \in Bad : k <= j
  <2>1. Bad \in SUBSET Nat
    BY <1>1
  <2> HIDE DEF Bad
  <2> QED BY <1>2, <2>1, LeastExists
<1>4. k \in 1..n /\ ~(p + k \in 1..N /\ f[p + k] = g + k)
  BY <1>3
<1>5. PICK e : e = p + k - 1
  OBVIOUS
<1>6. /\ e \in 1..N /\ f[e] < g + k /\ f[e] \in Nat /\ f[e] > o
      /\ \A i \in (f[e] + 1)..(g + k - 1) : s[i].kind \notin Spoken
  <2>1. CASE k = 1
    <3>1. e = p
      BY <1>5, <2>1
    <3>2. g + k - 1 = g
      BY <1>1, <2>1
    <3>3. f[p] \in Nat /\ f[p] > o /\ f[p] < g + k
      BY <1>1, <2>1
    <3> QED BY <1>1, <3>1, <3>2, <3>3
  <2>2. CASE k # 1
    <3>1. PICK j : j = k - 1
      OBVIOUS
    <3>2. j \in 1..n /\ j < k /\ k = j + 1 /\ j \in Nat
      BY <1>1, <1>4, <2>2, <3>1
    <3>3. j \notin Bad
      BY <1>3, <1>4, <3>2
    <3>4. p + j \in 1..N /\ f[p + j] = g + j
      BY <3>2, <3>3
    <3>5. e = p + j
      BY <1>1, <1>5, <3>2
    <3>5a. g \in Nat /\ f[e] = g + j
      BY <1>1, <3>4, <3>5
    <3>6. g + k - 1 = g + j /\ g + j < g + k /\ (f[e] + 1)..(g + k - 1) = {}
      BY <3>2, <3>5a
    <3>7. f[e] \in Nat /\ f[e] > o
      <4>1. e \in 1..N /\ o \in Nat
        BY <1>1, <3>4, <3>5
      <4>2. f[e] \in (o + 1)..L
        BY <4>1 DEF Shows
      <4> QED BY <4>1, <4>2
    <3>8. e \in 1..N /\ f[e] < g + k
      BY <3>4, <3>5, <3>6
    <3>9. (f[e] + 1)..(g + k - 1) = {}
      BY <3>6
    <3> QED BY <3>7, <3>8, <3>9
  <2> QED BY <2>1, <2>2
<1>7. g + k \in (o + 1)..L /\ s[g + k].kind \in Spoken
  <2>1. g + k \in (o + 1)..L
    BY <1>1, <1>4, <1>6
  <2>2. s[g + k].kind = "result"
    BY <1>1, <1>4
  <2> QED BY <2>1, <2>2 DEF Spoken
<1>8. PICK q \in 1..N : f[q] = g + k
  BY <1>7 DEF Shows
<1>9. q > e
  <2>1. q < e => f[q] < f[e]
    BY <1>6 DEF Shows
  <2>2. q # e
    BY <1>1, <1>4, <1>6, <1>8
  <2>3. ~(q < e)
    <3>1. g \in Nat /\ k \in Nat /\ f[e] \in Nat /\ f[q] = g + k /\ f[e] < g + k
      BY <1>1, <1>4, <1>6, <1>8
    <3> QED BY <2>1, <3>1
  <2>4. q \in Int /\ e \in Int
    BY <1>1, <1>6, <1>8
  <2> QED BY <2>2, <2>3, <2>4
<1>10. CASE q = e + 1
  <2>1. q = p + k
    BY <1>1, <1>4, <1>5, <1>10
  <2> QED BY <1>4, <1>8, <2>1
<1>11. CASE q > e + 1
  <2>1. PICK r : r = e + 1
    OBVIOUS
  <2>2. r \in 1..N /\ e < r /\ r < q
    BY <1>1, <1>6, <1>11, <2>1
  <2>3. f[e] < f[r] /\ f[r] < f[q] /\ s[f[r]].kind \in Spoken /\ f[r] \in (o + 1)..L
    BY <1>6, <2>2 DEF Shows
  <2>4. f[r] \in (f[e] + 1)..(g + k - 1)
    <3>1. f[e] \in Nat /\ f[r] \in Int /\ g \in Nat /\ k \in Nat
      BY <1>1, <1>4, <1>6, <2>3
    <3>2. f[e] < f[r] /\ f[r] < g + k
      BY <1>8, <2>3
    <3> QED BY <3>1, <3>2
  <2> QED BY <1>6, <2>3, <2>4
<1> QED BY <1>1, <1>6, <1>9, <1>10, <1>11

Leads(m, p, q) ==
  /\ p < q /\ m[p].kind = "call" /\ m[q].of \subseteq m[p].of
  /\ \A r \in (p + 1)..q : IsTool(m[r])
Follows(m, p) ==
  /\ m[p].of \in SUBSET Nat /\ IsFiniteSet(m[p].of)
  /\ p + Cardinality(m[p].of) <= Len(m)
  /\ \A k \in 1..Cardinality(m[p].of) : m[p + k] = Result(Nth(m[p].of, k))

\* Calls that are shown have all their results right behind them.
LEMMA ShownFollow ==
  ASSUME NEW m, NEW s, NEW o, NEW f, NEW N, Shows(m, s, o, f, N), NEW L, L = Len(s), L \in Nat,
         DOMAIN s = 1..L, NEW lost, Exchanged(s, lost), NEW p \in 1..N, m[p].kind = "call",
         ~(m[p].of \subseteq lost)
  PROVE  Follows(m, p)
<1>1. N \in Nat /\ Len(m) = N /\ o \in 0..L
  BY DEF Shows
<1>2. f[p] \in (o + 1)..L /\ m[p] = s[f[p]]
  BY DEF Shows
<1>3. f[p] \in DOMAIN s
  BY <1>1, <1>2
<1>4. PICK g : Block(s, f[p], g)
  BY <1>2, <1>3 DEF Exchanged
<1>5. PICK n, ids : ids = m[p].of /\ n = Cardinality(ids)
  OBVIOUS
<1>6. n = Cardinality(s[f[p]].of) /\ ids = s[f[p]].of
  BY <1>2, <1>5
<1>7. n \in Nat /\ \A k \in 1..n : p + k \in 1..N /\ f[p + k] = g + k
  BY <1>4, <1>6, AnswersFollow
<1>8. \A k \in 1..n : m[p + k] = Result(Nth(ids, k))
  <2>1. TAKE k \in 1..n
  <2>2. m[p + k] = s[f[p + k]]
    BY <1>7 DEF Shows
  <2>3. s[g + k] = Result(Nth(ids, k))
    BY <1>4, <1>6 DEF Block
  <2> QED BY <1>7, <2>2, <2>3
<1>9. p + n <= N
  <2>1. CASE n = 0
    BY <1>1, <2>1
  <2>2. CASE n # 0
    <3>1. n \in 1..n
      BY <1>7, <2>2
    <3>2. p + n \in 1..N
      BY <1>7, <3>1
    <3> QED BY <1>1, <3>2
  <2> QED BY <2>1, <2>2
<1>10. ids \in SUBSET Nat /\ IsFiniteSet(ids)
  BY <1>4, <1>6 DEF Block
<1> QED BY <1>1, <1>5, <1>8, <1>9, <1>10 DEF Follows

\* A result is behind its call, or behind nothing but results.
LEMMA ShownLed ==
  ASSUME NEW m, NEW s, NEW o, NEW f, NEW N, Shows(m, s, o, f, N), NEW L, L = Len(s), L \in Nat,
         DOMAIN s = 1..L, NEW lost, Exchanged(s, lost), NEW q \in 1..N, IsTool(m[q])
  PROVE  \/ \E p \in 1..N : Leads(m, p, q)
         \/ o # 0 /\ \A r \in 1..q : IsTool(m[r])
<1>1. N \in Nat /\ Len(m) = N /\ o \in 0..L
  BY DEF Shows
<1>2. f[q] \in (o + 1)..L /\ m[q] = s[f[q]]
  BY DEF Shows
<1>3. f[q] \in DOMAIN s
  BY <1>1, <1>2
<1>4. PICK j, g, k : Answer(s, j, g, k) /\ f[q] = g + k
  BY <1>2, <1>3 DEF Exchanged, IsTool
<1>5. PICK ids, n : ids = s[j].of /\ n = Cardinality(ids)
  OBVIOUS
<1>6. /\ Block(s, j, g) /\ k \in 1..n /\ n \in Nat /\ g \in Nat /\ j \in Nat \ {0} /\ j <= g
      /\ g + n <= L /\ s[j].kind = "call" /\ ids \in SUBSET Nat /\ IsFiniteSet(ids)
      /\ \A i \in (j + 1)..g : s[i].kind \notin Spoken
      /\ \A i \in 1..n : s[g + i] = Result(Nth(ids, i))
  <2>1. Block(s, j, g) /\ k \in 1..n /\ IsFiniteSet(ids)
    BY <1>4, <1>5 DEF Answer, Block
  <2>2. n \in Nat
    BY <1>5, <2>1, FS_CardinalityType
  <2> QED BY <1>5, <2>1, <2>2 DEF Block
<1>7. \A i \in 1..n : IsTool(s[g + i])
  <2>1. \A c : Result(c).kind = "result"
    BY DEF Result
  <2> QED BY <1>6, <2>1 DEF IsTool
<1>8. CASE j > o
  <2>1. j \in (o + 1)..L /\ s[j].kind \in Spoken
    BY <1>1, <1>6, <1>8 DEF Spoken
  <2>2. PICK p \in 1..N : f[p] = j
    BY <2>1 DEF Shows
  <2>3. \A i \in 1..n : p + i \in 1..N /\ f[p + i] = g + i
    <3>1. Block(s, f[p], g) /\ n = Cardinality(s[f[p]].of)
      BY <1>5, <1>6, <2>2
    <3> QED BY <3>1, AnswersFollow
  <2>4. p + k = q
    <3>1. p + k \in 1..N /\ f[p + k] = f[q]
      BY <1>4, <1>6, <2>3
    <3>2. PICK x : x = p + k
      OBVIOUS
    <3>3. ~(x < q) /\ ~(q < x)
      <4>1. /\ x \in 1..N /\ f[x] = f[q] /\ (x < q => f[x] < f[q]) /\ (q < x => f[q] < f[x])
        BY <3>1, <3>2 DEF Shows
      <4>2. f[q] \in Nat
        BY <1>1, <1>2
      <4> QED BY <4>1, <4>2
    <3> QED BY <1>1, <3>1, <3>2, <3>3
  <2>5. m[p] = s[j] /\ p < q
    BY <1>1, <1>6, <2>2, <2>4 DEF Shows
  <2>6. m[q].of \subseteq m[p].of
    <3>1. Nth(ids, k) \in ids
      BY <1>5, <1>6, NthFacts
    <3>2. m[q].of = {Nth(ids, k)}
      <4>1. m[q] = Result(Nth(ids, k))
        BY <1>2, <1>4, <1>6
      <4> QED BY <4>1 DEF Result
    <3> QED BY <1>5, <2>5, <3>1, <3>2
  <2>7. \A r \in (p + 1)..q : IsTool(m[r])
    <3>1. TAKE r \in (p + 1)..q
    <3>2. PICK i : i = r - p
      OBVIOUS
    <3>3. i \in 1..n /\ r = p + i /\ r \in 1..N
      BY <1>1, <1>6, <2>4, <3>2
    <3>4. m[r] = s[g + i]
      BY <2>3, <3>3 DEF Shows
    <3> QED BY <1>7, <3>3, <3>4
  <2>8. Leads(m, p, q)
    BY <1>6, <2>5, <2>6, <2>7 DEF Leads
  <2> QED BY <2>8
<1>9. CASE j <= o
  <2>1. o # 0
    BY <1>1, <1>6, <1>9
  <2>2. \A r \in 1..q : IsTool(m[r])
    <3>1. TAKE r \in 1..q
    <3>2. r \in 1..N /\ r <= q
      BY <1>1
    <3>3. m[r] = s[f[r]] /\ s[f[r]].kind \in Spoken /\ f[r] \in (o + 1)..L
      BY <3>2 DEF Shows
    <3>4. f[r] <= f[q]
      <4>1. r < q => f[r] < f[q]
        BY <3>2 DEF Shows
      <4>2. r = q => f[r] = f[q]
        OBVIOUS
      <4> QED BY <1>1, <1>2, <3>2, <3>3, <4>1, <4>2
    <3>5. f[r] > g
      <4>1. f[r] \notin (j + 1)..g
        BY <1>6, <3>3
      <4> QED BY <1>1, <1>6, <1>9, <3>3, <4>1
    <3>6. PICK i : i = f[r] - g
      OBVIOUS
    <3>7. i \in 1..n /\ f[r] = g + i
      <4>1. k \in 1..n /\ n \in Nat /\ g \in Nat /\ f[q] = g + k /\ f[r] \in Int
        BY <1>1, <1>4, <1>6, <3>3
      <4>2. 1 <= i /\ i <= k /\ i \in Int /\ f[r] = g + i
        BY <3>4, <3>5, <3>6, <4>1
      <4> QED BY <4>1, <4>2
    <3> QED BY <1>7, <3>3, <3>7
  <2> QED BY <2>1, <2>2
<1> QED BY <1>1, <1>6, <1>8, <1>9

\* What is shown behind the messages: the trigger, and what a plan is for.
Closing == {"trigger", "guide"}

\* The messages behind the first b, and such a tail, are well formed, if no result among
\* them has its call before.
LEMMA WholeFrom ==
  ASSUME NEW m, NEW N \in Nat, Len(m) = N, NEW b \in 0..N, NEW e \in Nat, NEW lost,
         NEW u, Len(u) = N - b + e, DOMAIN u = 1..(N - b + e),
         \A x \in 1..(N - b) : u[x] = m[b + x],
         \A x \in 1..e : u[N - b + x].kind \in Closing,
         \A p \in 1..N : m[p].kind = "call" /\ ~(m[p].of \subseteq lost) => Follows(m, p),
         \A q \in (b + 1)..N : IsTool(m[q]) => \E p \in (b + 1)..N : Leads(m, p, q)
  PROVE  WellFormed(u, lost)
<1>1. \A c : Rec("result", {c})[1] = Result(c)
  BY ResultIsMade
<1>2. ASSUME NEW x \in DOMAIN u, u[x].kind \notin Closing
      PROVE  x \in 1..(N - b) /\ b + x \in 1..N /\ u[x] = m[b + x]
  <2>1. PICK y : y = x - (N - b)
    OBVIOUS
  <2>1a. x \in 1..(N - b + e) /\ N - b \in Nat /\ x = N - b + y /\ y \in Int
    BY <2>1
  <2>1b. y \notin 1..e
    BY <1>2, <2>1a
  <2>2. x \in 1..(N - b)
    BY <2>1a, <2>1b
  <2>3. b + x \in 1..N
    BY <2>2
  <2> QED BY <2>2, <2>3
<1>3. ASSUME NEW x \in DOMAIN u, u[x].kind = "call", ~(u[x].of \subseteq lost),
             NEW n, n = Cardinality(u[x].of)
      PROVE  /\ x + n <= Len(u)
             /\ {u[j] : j \in (x + 1)..(x + n)} = {Rec("result", {c})[1] : c \in u[x].of}
  <2>1. PICK p, ids : p = b + x /\ ids = u[x].of
    OBVIOUS
  <2>2. x \in 1..(N - b) /\ p \in 1..N /\ u[x] = m[p] /\ ids = m[p].of /\ n = Cardinality(ids)
    BY <1>2, <1>3, <2>1 DEF Closing
  <2>3. Follows(m, p)
    BY <1>3, <2>2
  <2>4. /\ ids \in SUBSET Nat /\ IsFiniteSet(ids) /\ p + n <= N
        /\ \A k \in 1..n : m[p + k] = Result(Nth(ids, k))
    BY <2>2, <2>3 DEF Follows
  <2>5. /\ n \in Nat /\ \A k \in 1..n : Nth(ids, k) \in ids
        /\ \A c \in ids : \E k \in 1..n : Nth(ids, k) = c
    <3>1. ids \in SUBSET Nat /\ IsFiniteSet(ids) /\ n = Cardinality(ids)
      BY <2>2, <2>4
    <3> QED BY <3>1, NthFacts
  <2>6. x + n <= Len(u)
    <3>1. b + x + n <= N /\ x \in Int /\ n \in Int /\ b \in Int
      BY <2>1, <2>2, <2>4, <2>5
    <3> QED BY <3>1
  <2>7. \A k \in 1..n : u[x + k] = Result(Nth(ids, k))
    <3>1. TAKE k \in 1..n
    <3>2. x + k \in 1..(N - b) /\ b + (x + k) = p + k
      <4>1. x \in Nat /\ k \in Nat /\ x >= 1 /\ k <= n /\ n \in Nat
        BY <2>2, <2>5
      <4>2. p + k = b + (x + k)
        BY <2>1, <4>1
      <4>3. b + x + n <= N
        BY <2>1, <2>4
      <4>4. x + k <= N - b
        BY <4>1, <4>3
      <4> QED BY <4>1, <4>2, <4>4
    <3>3. u[x + k] = m[p + k]
      BY <3>2
    <3> QED BY <2>4, <3>3
  <2>8. \A j \in (x + 1)..(x + n) : \E c \in ids : u[j] = Result(c)
    <3>1. TAKE j \in (x + 1)..(x + n)
    <3>2. PICK k : k = j - x
      OBVIOUS
    <3>3. k \in 1..n /\ j = x + k
      BY <2>2, <2>5, <3>2
    <3> QED BY <2>5, <2>7, <3>3
  <2>9. \A c \in ids : \E j \in (x + 1)..(x + n) : u[j] = Result(c)
    <3>1. TAKE c \in ids
    <3>2. PICK k \in 1..n : Nth(ids, k) = c
      BY <2>5
    <3>3. x + k \in (x + 1)..(x + n)
      BY <2>2, <2>5
    <3> QED BY <2>7, <3>2, <3>3
  <2>10. {u[j] : j \in (x + 1)..(x + n)} = {Result(c) : c \in ids}
    BY <2>8, <2>9
  <2>11. {Rec("result", {c})[1] : c \in ids} = {Result(c) : c \in ids}
    BY <1>1
  <2> QED BY <2>1, <2>6, <2>10, <2>11
<1>4. ASSUME NEW x \in DOMAIN u, IsTool(u[x])
      PROVE  \E j \in 1..(x - 1) : /\ u[j].kind = "call" /\ u[x].of \subseteq u[j].of
                                   /\ \A k \in (j + 1)..x : IsTool(u[k])
  <2>1. PICK q : q = b + x
    OBVIOUS
  <2>2. x \in 1..(N - b) /\ q \in 1..N /\ u[x] = m[q]
    BY <1>2, <1>4, <2>1 DEF IsTool, Closing
  <2>3. q \in (b + 1)..N
    BY <2>1, <2>2
  <2>4. PICK p \in (b + 1)..N : Leads(m, p, q)
    BY <1>4, <2>2, <2>3
  <2>5. PICK j : j = p - b
    OBVIOUS
  <2>6. p < q /\ m[p].kind = "call" /\ m[q].of \subseteq m[p].of
        /\ \A r \in (p + 1)..q : IsTool(m[r])
    BY <2>4 DEF Leads
  <2>7. j \in 1..(x - 1) /\ j \in 1..(N - b) /\ b + j = p
    <3>1. b \in Nat /\ p \in Int /\ b + 1 <= p /\ p <= N /\ x \in Int
      BY <2>2
    <3>2. p < b + x
      BY <2>1, <2>6
    <3>3. j \in Int /\ b + j = p
      BY <2>5, <3>1
    <3>4. 1 <= j /\ j <= N - b
      BY <3>1, <3>3
    <3>5. j <= x - 1
      BY <3>1, <3>2, <3>3
    <3> QED BY <3>1, <3>3, <3>4, <3>5
  <2>8. u[j] = m[p]
    BY <2>7
  <2>9. \A k \in (j + 1)..x : IsTool(u[k])
    <3>1. TAKE k \in (j + 1)..x
    <3>2. k \in 1..(N - b) /\ b + k \in (p + 1)..q
      BY <2>1, <2>2, <2>7
    <3> QED BY <2>6, <3>2
  <2> QED BY <2>2, <2>6, <2>7, <2>8, <2>9
<1> QED BY <1>3, <1>4 DEF WellFormed

\* Of a session whose calls are answered, any window is whole but for its torn start.
LEMMA WindowIsWhole ==
  ASSUME NEW s, Listed(s), NEW lost, Exchanged(s, lost), NEW t, NEW c, c = Contents(s, t)
  PROVE  WellFormed(IF Head(c).kind = "notice" THEN Untorn(c) ELSE c, lost)
<1>1. PICK L : L = Len(s)
  OBVIOUS
<1>2. L \in Nat /\ DOMAIN s = 1..L
  BY <1>1, ListedFacts
<1>3. PICK o, notice :
        /\ o \in 0..Len(s)
        /\ notice = IF o = 0 THEN << >> ELSE Notice
        /\ Shown(s, t) = notice \o Messages(Behind(s, o)) \o Asking(t)
        /\ Listed(notice) /\ Listed(Messages(Behind(s, o)))
  BY ShownFacts
<1>4. PICK m : m = Messages(Behind(s, o))
  OBVIOUS
<1>5. PICK f, N : Shows(m, s, o, f, N)
  BY <1>3, <1>4, MessagesShow
<1>6. N \in Nat /\ Len(m) = N /\ DOMAIN m = 1..N /\ \A p \in 1..N : m[p].kind \in Spoken
  BY <1>5 DEF Shows
<1>7. \A p \in 1..N : m[p].kind = "call" /\ ~(m[p].of \subseteq lost) => Follows(m, p)
  BY <1>1, <1>2, <1>5, ShownFollow
<1>8. \A q \in 1..N : IsTool(m[q]) => \/ \E p \in 1..N : Leads(m, p, q)
                                      \/ o # 0 /\ \A r \in 1..q : IsTool(m[r])
  BY <1>1, <1>2, <1>5, ShownLed
<1>9. PICK a, x : a = notice \o m /\ x = Asking(t)
  OBVIOUS
<1>10. Listed(x) /\ Len(x) = 1 /\ x[1].kind = "trigger" /\ DOMAIN x = {1}
  BY <1>9, RecIsMade DEF Asking
<1>11. PICK h : h = Len(notice)
  OBVIOUS
<1>12. /\ h = IF o = 0 THEN 0 ELSE 1
       /\ o # 0 => notice[1].kind = "notice"
  <2>1. PICK r : r = [kind |-> "notice", of |-> {}]
    OBVIOUS
  <2>2. Len(<<r>>) = 1 /\ <<r>>[1] = r /\ r.kind = "notice" /\ Notice = <<r>>
    BY <2>1 DEF Notice
  <2> QED BY <1>3, <1>11, <2>2, EmptyIsMade
<1>13. /\ Listed(a) /\ Len(a) = h + N /\ \A p \in 1..N : a[h + p] = m[p]
       /\ o # 0 => a[1].kind = "notice"
  <2>1. /\ Listed(notice \o m) /\ Len(notice \o m) = Len(notice) + Len(m)
        /\ \A i \in 1..Len(notice) : (notice \o m)[i] = notice[i]
        /\ \A i \in 1..Len(m) : (notice \o m)[Len(notice) + i] = m[i]
    BY <1>3, <1>4, ConcatFacts
  <2>2. o # 0 => 1 \in 1..Len(notice)
    BY <1>11, <1>12
  <2>3. o # 0 => a[1] = notice[1]
    BY <1>9, <2>1, <2>2
  <2> QED BY <1>6, <1>9, <1>11, <1>12, <2>1, <2>3
<1>14. PICK d, g, e : d = a \o x /\ g = Guide(s) /\ e = Len(g) + 1
  OBVIOUS
<1>15. /\ d = Shown(s, t) /\ Listed(d) /\ Len(d) = h + N + 1
       /\ \A p \in 1..N : d[h + p] = m[p]
       /\ d[h + N + 1].kind = "trigger" /\ (o # 0 => d[1].kind = "notice")
  <2>1. d = Shown(s, t)
    BY <1>3, <1>4, <1>9, <1>14
  <2>0. Listed(a) /\ Listed(x)
    BY <1>10, <1>13
  <2>2. /\ Listed(a \o x) /\ Len(a \o x) = Len(a) + Len(x)
        /\ \A i \in 1..Len(a) : (a \o x)[i] = a[i]
        /\ \A i \in 1..Len(x) : (a \o x)[Len(a) + i] = x[i]
    BY <2>0, ConcatFacts
  <2>3. /\ Listed(d) /\ Len(d) = h + N + 1
        /\ \A i \in 1..(h + N) : d[i] = a[i]
        /\ \A i \in 1..1 : d[h + N + i] = x[i]
    BY <1>10, <1>13, <1>14, <2>2
  <2>4. 1 \in 1..1 /\ (o # 0 => 1 \in 1..(h + N)) /\ \A p \in 1..N : h + p \in 1..(h + N)
    BY <1>6, <1>12
  <2> QED BY <1>10, <1>13, <2>1, <2>3, <2>4
<1>16. e \in 1..2 /\ Listed(g) /\ Len(g) = e - 1 /\ \A i \in 1..(e - 1) : g[i].kind = "guide"
  <2>1. CASE g = << >>
    <3>1. e = 1
      BY <1>14, <2>1, EmptyIsMade
    <3> QED BY <2>1, <3>1, EmptyIsMade
  <2>2. CASE g = Rec("guide", {})
    <3>1. Listed(g) /\ Len(g) = 1 /\ g[1].kind = "guide"
      BY <2>2, RecIsMade
    <3>2. e = 2
      BY <1>14, <3>1
    <3> QED BY <3>1, <3>2
  <2> QED BY <1>14, <2>1, <2>2 DEF Guide
<1>17. /\ Listed(c) /\ Len(c) = h + N + e /\ DOMAIN c = 1..(h + N + e)
       /\ \A p \in 1..N : c[h + p] = m[p]
       /\ \A i \in 1..e : c[h + N + i].kind \in Closing
       /\ o # 0 => c[1].kind = "notice"
  <2>1. c = d \o g
    BY <1>14, <1>15 DEF Contents
  <2>2. /\ Listed(d \o g) /\ Len(d \o g) = Len(d) + Len(g)
        /\ DOMAIN (d \o g) = 1..(Len(d) + Len(g))
        /\ \A i \in 1..Len(d) : (d \o g)[i] = d[i]
        /\ \A i \in 1..Len(g) : (d \o g)[Len(d) + i] = g[i]
    BY <1>15, <1>16, ConcatFacts
  <2>3. h + N + 1 + (e - 1) = h + N + e /\ h + N + 1 \in Nat
    BY <1>6, <1>12, <1>16
  <2>4. /\ Listed(c) /\ Len(c) = h + N + e /\ DOMAIN c = 1..(h + N + e)
        /\ \A i \in 1..(h + N + 1) : c[i] = d[i]
        /\ \A i \in 1..(e - 1) : c[h + N + 1 + i] = g[i]
    BY <1>15, <1>16, <2>1, <2>2, <2>3
  <2>5. /\ \A p \in 1..N : h + p \in 1..(h + N + 1)
        /\ h + N + 1 \in 1..(h + N + 1) /\ 1 \in 1..(h + N + 1)
    BY <1>6, <1>12
  <2>6. \A i \in 1..e : c[h + N + i].kind \in Closing
    <3>1. TAKE i \in 1..e
    <3>2. CASE i = 1
      <4>1. c[h + N + 1] = d[h + N + 1]
        BY <2>4, <2>5
      <4> QED BY <1>15, <3>2, <4>1 DEF Closing
    <3>3. CASE i # 1
      <4>1. i - 1 \in 1..(e - 1) /\ h + N + 1 + (i - 1) = h + N + i
        BY <1>6, <1>12, <1>16, <3>3
      <4>2. c[h + N + i] = g[i - 1]
        BY <2>4, <4>1
      <4> QED BY <1>16, <4>1, <4>2 DEF Closing
    <3> QED BY <3>2, <3>3
  <2>7. \A p \in 1..N : c[h + p] = m[p]
    BY <1>15, <2>4, <2>5
  <2>8. o # 0 => c[1].kind = "notice"
    BY <1>15, <2>4, <2>5
  <2> QED BY <2>4, <2>6, <2>7, <2>8
<1>18. CASE o = 0
  <2>1. h = 0
    BY <1>12, <1>18
  <2>2. Head(c).kind # "notice"
    <3>1. PICK S : c \in Seq(S)
      BY <1>17 DEF Listed
    <3>2. c # << >>
      BY <1>6, <1>16, <1>17, <2>1
    <3>3. Head(c) = c[1]
      BY <3>1, <3>2
    <3>4. CASE N = 0
      <4>1. 1 \in 1..e /\ h + N + 1 = 1
        BY <1>16, <2>1, <3>4
      <4>2. c[1].kind \in Closing
        BY <1>17, <4>1
      <4> QED BY <3>3, <4>2 DEF Closing
    <3>5. CASE N # 0
      <4>1. 1 \in 1..N
        BY <1>6, <3>5
      <4>2. c[1] = m[1] /\ m[1].kind \in Spoken
        BY <1>6, <1>17, <2>1, <4>1
      <4> QED BY <3>3, <4>2 DEF Spoken
    <3> QED BY <3>4, <3>5
  <2>3. \A q \in (0 + 1)..N : IsTool(m[q]) => \E p \in (0 + 1)..N : Leads(m, p, q)
    BY <1>8, <1>18
  <2>4. /\ Len(c) = N - 0 + e /\ DOMAIN c = 1..(N - 0 + e)
        /\ \A p \in 1..(N - 0) : c[p] = m[0 + p]
        /\ \A i \in 1..e : c[N - 0 + i].kind \in Closing
    BY <1>6, <1>16, <1>17, <2>1
  <2>5. 0 \in 0..N /\ e \in Nat
    BY <1>6, <1>16
  <2>6. WellFormed(c, lost)
    BY <1>6, <1>7, <2>3, <2>4, <2>5, WholeFrom
  <2> QED BY <2>2, <2>6
<1>19. CASE o # 0
  <2>1. /\ h = 1 /\ c[1].kind = "notice" /\ Len(c) = N + 1 + e /\ DOMAIN c = 1..(N + 1 + e)
        /\ \A p \in 1..N : c[p + 1] = m[p]
        /\ \A i \in 1..e : c[N + 1 + i].kind \in Closing
    <3>1. h = 1
      BY <1>12, <1>19
    <3>2. 1 + N = N + 1 /\ \A p \in 1..N : 1 + p = p + 1
      BY <1>6
    <3> QED BY <1>17, <1>19, <3>1, <3>2
  <2>2. Head(c).kind = "notice"
    <3>1. PICK S : c \in Seq(S)
      BY <1>17 DEF Listed
    <3>2. c # << >>
      BY <1>6, <1>16, <2>1
    <3> QED BY <2>1, <3>1, <3>2
  <2>3. PICK at : at = {i \in DOMAIN c : ~IsTool(c[i]) /\ c[i].kind # "notice"}
    OBVIOUS
  <2>4. at \in SUBSET (2..(N + 1 + e)) /\ at \in SUBSET Nat /\ N + 2 \in at
    <3>1. N + 2 \in at
      <4>1. PICK y : y = N + 2
        OBVIOUS
      <4>2. 1 \in 1..e /\ y = N + 1 + 1 /\ y \in 1..(N + 1 + e)
        BY <1>6, <1>16, <4>1
      <4>3. y \in DOMAIN c /\ c[y].kind \in Closing
        BY <2>1, <4>2
      <4>4. y \in at
        BY <2>3, <4>3 DEF IsTool, Closing
      <4> QED BY <4>1, <4>4
    <3>2. 1 \notin at
      BY <2>1, <2>3
    <3>3. \A i \in at : i \in 1..(N + 1 + e) /\ i # 1
      BY <2>1, <2>3, <3>2
    <3>4. \A i \in at : i \in 2..(N + 1 + e) /\ i \in Nat
      BY <1>6, <1>16, <3>3
    <3> QED BY <3>1, <3>4
  <2>5. PICK l : l = Min(at)
    OBVIOUS
  <2>6. l \in at /\ \A i \in at : l <= i
    BY <2>4, <2>5, MinIn
  <2>7. PICK b : b = l - 2
    OBVIOUS
  <2>8. /\ l \in 2..(N + 2) /\ b \in 0..N /\ b + 1 = l - 1 /\ l - 1 \in 0..(N + 1 + e)
        /\ l - 1 # 0
    <3>1. l \in 2..(N + 1 + e) /\ l <= N + 2
      BY <2>4, <2>6
    <3> QED BY <1>6, <1>16, <2>7, <3>1
  <2>9. PICK u : u = Behind(c, l - 1)
    OBVIOUS
  <2>10. u = Untorn(c)
    <3>1. u = SubSeq(c, l, Len(c))
      <4>1. l - 1 + 1 = l
        BY <2>8
      <4> QED BY <2>8, <2>9, <4>1 DEF Behind
    <3>2. Untorn(c) = SubSeq(c, Min(at), Len(c))
      BY <2>3 DEF Untorn
    <3> QED BY <2>5, <3>1, <3>2
  <2>11. /\ Listed(u) /\ DOMAIN u = 1..(N - b + e)
         /\ \A i \in 1..(N - b + e) : u[i] = c[b + 1 + i]
    <3>1. l - 1 \in 0..Len(c)
      BY <2>1, <2>8
    <3>2. /\ Listed(u) /\ DOMAIN u = 1..(Len(c) - (l - 1))
          /\ \A i \in 1..(Len(c) - (l - 1)) : u[i] = c[l - 1 + i]
      <4>1. Listed(c)
        BY <1>17
      <4>2. /\ Listed(Behind(c, l - 1)) /\ DOMAIN Behind(c, l - 1) = 1..(Len(c) - (l - 1))
            /\ \A i \in 1..(Len(c) - (l - 1)) : Behind(c, l - 1)[i] = c[l - 1 + i]
        BY <3>1, <4>1, BehindFacts
      <4> QED BY <2>9, <4>2
    <3>3. Len(c) - (l - 1) = N - b + e
      BY <1>6, <1>16, <2>1, <2>7, <2>8
    <3> QED BY <2>8, <3>2, <3>3
  <2>12. Len(u) = N - b + e
    <3>1. DOMAIN u = 1..Len(u) /\ Len(u) \in Nat
      BY <2>11, ListedFacts
    <3>2. N - b + e \in Nat
      BY <1>6, <1>16, <2>8
    <3> QED BY <2>11, <3>1, <3>2, SameInterval
  <2>13. \A i \in 1..(N - b) : u[i] = m[b + i]
    <3>1. TAKE i \in 1..(N - b)
    <3>2. i \in 1..(N - b + e) /\ b + i \in 1..N /\ (b + i) + 1 = b + 1 + i
      BY <1>6, <1>16, <2>8
    <3> QED BY <2>1, <2>11, <3>2
  <2>14. \A i \in 1..e : u[N - b + i].kind \in Closing
    <3>1. TAKE i \in 1..e
    <3>2. PICK y : y = N - b + i
      OBVIOUS
    <3>3. y \in 1..(N - b + e) /\ b + 1 + y = N + 1 + i
      BY <1>6, <1>16, <2>8, <3>2
    <3>4. u[y] = c[N + 1 + i]
      BY <2>11, <3>3
    <3> QED BY <2>1, <3>2, <3>4
  <2>15. \A r \in 1..b : IsTool(m[r])
    <3>1. TAKE r \in 1..b
    <3>2. r \in 1..N /\ r + 1 \in 1..(N + 1 + e) /\ r + 1 < l
      BY <1>6, <1>16, <2>8
    <3>3. r + 1 \notin at
      BY <2>6, <2>8, <3>2
    <3>4. IsTool(c[r + 1]) \/ c[r + 1].kind = "notice"
      BY <2>1, <2>3, <3>2, <3>3
    <3>5. c[r + 1] = m[r] /\ m[r].kind \in Spoken
      BY <1>6, <2>1, <3>2
    <3> QED BY <3>4, <3>5 DEF Spoken
  <2>16. b + 1 \in 1..N => ~IsTool(m[b + 1])
    <3>1. ~IsTool(c[l])
      BY <2>3, <2>6
    <3>2. l = (b + 1) + 1
      BY <2>7, <2>8
    <3> QED BY <2>1, <3>1, <3>2
  <2>17. \A q \in (b + 1)..N : IsTool(m[q]) => \E p \in (b + 1)..N : Leads(m, p, q)
    <3>1. SUFFICES ASSUME NEW q \in (b + 1)..N, IsTool(m[q])
                   PROVE  \E p \in (b + 1)..N : Leads(m, p, q)
      OBVIOUS
    <3>2. q \in 1..N /\ b + 1 \in 1..N /\ b + 1 \in 1..q
      BY <1>6, <2>8
    <3>3. PICK p \in 1..N : Leads(m, p, q)
      BY <1>8, <2>16, <3>1, <3>2
    <3>4. ~IsTool(m[p])
      BY <3>3 DEF Leads, IsTool
    <3>5. p \notin 1..b
      BY <2>15, <3>4
    <3>6. p \in (b + 1)..N
      BY <1>6, <2>8, <3>5
    <3> QED BY <3>3, <3>6
  <2>18. WellFormed(u, lost)
    <3>1. e \in Nat
      BY <1>16
    <3> QED BY <1>6, <1>7, <2>8, <2>12, <2>11, <2>13, <2>14, <2>17, <3>1, WholeFrom
  <2> QED BY <2>2, <2>10, <2>18
<1> QED BY <1>18, <1>19

-----------------------------------------------------------------------------
(* Calls that were answered stay so, whatever is recorded behind them. *)

\* A graph has a checkpoint behind it where all its calls have ended.
Ended(s, i) == \E j \in DOMAIN s : i < j /\ s[j].kind = "done" /\ s[j].of = s[i].of
\* Record i leaves nothing to be done, or are the calls that nobody executes, of lost.
Fine(s, i, lost) ==
  /\ s[i].kind = "call" /\ ~(s[i].of \subseteq lost) => \E g : Block(s, i, g)
  /\ s[i].kind = "result" => \E j, g, k : Answer(s, j, g, k) /\ i = g + k
  /\ s[i].kind = "graph" => Ended(s, i)
Settled(s, left, lost) == \A i \in DOMAIN s \ left : Fine(s, i, lost)

\* Where nothing is left to be done, every call is answered.
LEMMA SettledExchanged ==
  ASSUME NEW s, NEW lost, Settled(s, {}, lost)
  PROVE  Exchanged(s, lost)
BY DEF Settled, Fine, Exchanged

\* So it is where more calls are left out of account.
LEMMA MoreAreLost ==
  ASSUME NEW lost, NEW more, lost \subseteq more
  PROVE  /\ \A s : Settled(s, {}, lost) => Settled(s, {}, more)
         /\ \A s, i : Settled(s, {i}, lost) => Settled(s, {i}, more)
         /\ \A m : WellFormed(m, lost) => WellFormed(m, more)
<1>1. \A s, i : Fine(s, i, lost) => Fine(s, i, more)
  BY DEF Fine
<1>2. \A m : WellFormed(m, lost) => WellFormed(m, more)
  BY DEF WellFormed
<1> QED BY <1>1, <1>2 DEF Settled

\* What is recorded behind a block leaves it as it is.
LEMMA BlockKept ==
  ASSUME NEW a, NEW b, Listed(a), Listed(b), NEW i, NEW g, Block(a, i, g)
  PROVE  Block(a \o b, i, g)
<1>1. PICK s, L, ids, n : s = a \o b /\ L = Len(a) /\ ids = a[i].of /\ n = Cardinality(ids)
  OBVIOUS
<1>2. L \in Nat /\ Len(b) \in Nat
  BY <1>1, ListedFacts
<1>3. Len(s) = L + Len(b) /\ \A k \in 1..L : s[k] = a[k]
  BY <1>1, ConcatFacts
<1>4. /\ i \in Nat \ {0} /\ g \in Nat /\ i <= g /\ a[i].kind = "call"
      /\ ids \in SUBSET Nat /\ IsFiniteSet(ids) /\ g + n <= L
      /\ \A k \in (i + 1)..g : a[k].kind \notin Spoken
      /\ \A k \in 1..n : a[g + k] = Result(Nth(ids, k))
  BY <1>1 DEF Block
<1>5. n \in Nat
  BY <1>1, <1>4, FS_CardinalityType
<1>6. i \in 1..L /\ s[i] = a[i] /\ g + n <= Len(s)
  BY <1>2, <1>3, <1>4, <1>5
<1>7. \A k \in (i + 1)..g : s[k].kind \notin Spoken
  <2>1. TAKE k \in (i + 1)..g
  <2>2. k \in 1..L
    BY <1>2, <1>4, <1>5
  <2> QED BY <1>3, <1>4, <2>2
<1>8. \A k \in 1..n : s[g + k] = Result(Nth(ids, k))
  <2>1. TAKE k \in 1..n
  <2>2. g + k \in 1..L
    BY <1>2, <1>4, <1>5
  <2> QED BY <1>3, <1>4, <2>2
<1>9. Block(s, i, g)
  BY <1>1, <1>4, <1>6, <1>7, <1>8 DEF Block
<1> QED BY <1>1, <1>9

LEMMA FineKept ==
  ASSUME NEW a, NEW b, Listed(a), Listed(b), NEW i \in DOMAIN a, NEW lost,
         Fine(a, i, lost)
  PROVE  Fine(a \o b, i, lost)
<1>1. PICK s, L : s = a \o b /\ L = Len(a)
  OBVIOUS
<1>2. L \in Nat /\ Len(b) \in Nat /\ DOMAIN a = 1..L
  BY <1>1, ListedFacts
<1>3. DOMAIN s = 1..(L + Len(b)) /\ \A k \in 1..L : s[k] = a[k]
  BY <1>1, ConcatFacts
<1>4. \A k \in 1..L : k \in DOMAIN s
  BY <1>2, <1>3
<1>5. \A j, g : Block(a, j, g) => Block(s, j, g)
  BY <1>1, BlockKept
<1>6. \A j, g, k : Answer(a, j, g, k) => Answer(s, j, g, k)
  <2>1. SUFFICES ASSUME NEW j, NEW g, NEW k, Answer(a, j, g, k) PROVE Answer(s, j, g, k)
    OBVIOUS
  <2>2. Block(a, j, g) /\ k \in 1..Cardinality(a[j].of)
    BY <2>1 DEF Answer
  <2>3. PICK n : n = Cardinality(a[j].of)
    OBVIOUS
  <2>4. n \in Nat /\ j \in Nat \ {0} /\ g \in Nat /\ j <= g /\ g + n <= L
    BY <1>1, <2>2, <2>3, FS_CardinalityType DEF Block
  <2>5. j \in 1..L
    BY <1>2, <2>4
  <2>6. s[j] = a[j]
    BY <1>3, <2>5
  <2> QED BY <1>5, <2>2, <2>6 DEF Answer
<1>7. Ended(a, i) => Ended(s, i)
  BY <1>2, <1>3, <1>4 DEF Ended
<1>8. s[i] = a[i]
  BY <1>2, <1>3
<1>9. Fine(s, i, lost)
  BY <1>5, <1>6, <1>7, <1>8 DEF Fine
<1> QED BY <1>1, <1>9

\* The kinds that begin nothing and end nothing.
Quiet == {"trigger", "summary", "respond", "other", "cache", "outcome", "plan"}

LEMMA QuietIsFine ==
  ASSUME NEW s, NEW i, s[i].kind \notin {"call", "result", "graph"}, NEW lost
  PROVE  Fine(s, i, lost)
BY DEF Fine

\* Records that begin nothing leave nothing more to be done.
LEMMA SettledMore ==
  ASSUME NEW a, NEW b, Listed(a), Made(b, Quiet), NEW lost, Settled(a, {}, lost)
  PROVE  Settled(a \o b, {}, lost)
<1>1. Listed(b) /\ \A i \in DOMAIN b : b[i].kind \notin {"call", "result", "graph"}
  BY DEF Made, Quiet
<1>2. ASSUME NEW i \in DOMAIN (a \o b) PROVE Fine(a \o b, i, lost)
  <2>1. CASE i \in DOMAIN a
    <3>1. Fine(a, i, lost)
      BY <2>1 DEF Settled
    <3> QED BY <1>1, <2>1, <3>1, FineKept
  <2>2. CASE i \notin DOMAIN a
    <3>1. PICK k \in DOMAIN b : (a \o b)[i] = b[k]
      BY <1>1, <1>2, <2>2, ConcatParts
    <3> QED BY <1>1, <3>1, QuietIsFine
  <2> QED BY <2>1, <2>2
<1> QED BY <1>2 DEF Settled

\* What is mentioned in two sequences, one behind the other.
LEMMA MentionedConcat ==
  ASSUME NEW a, NEW b, Listed(a), Listed(b), NEW kind
  PROVE  Mentioned(a \o b, kind) = Mentioned(a, kind) \cup Mentioned(b, kind)
<1>1. PICK s, L, n : s = a \o b /\ L = Len(a) /\ n = Len(b)
  OBVIOUS
<1>2. L \in Nat /\ n \in Nat /\ DOMAIN a = 1..L /\ DOMAIN b = 1..n
  BY <1>1, ListedFacts
<1>3. /\ DOMAIN s = 1..(L + n) /\ \A k \in 1..L : s[k] = a[k]
      /\ \A k \in 1..n : s[L + k] = b[k]
  BY <1>1, ConcatFacts
<1>4. /\ \A k \in 1..L : k \in DOMAIN s
      /\ \A k \in 1..n : L + k \in DOMAIN s
  BY <1>2, <1>3
<1>5. ASSUME NEW x \in Mentioned(s, kind) PROVE x \in Mentioned(a, kind) \cup Mentioned(b, kind)
  <2>1. PICK i \in DOMAIN s : s[i].kind = kind /\ x \in s[i].of
    BY <1>5 DEF Mentioned, OfKind
  <2>2. \/ i \in DOMAIN a /\ s[i] = a[i]
        \/ \E k \in DOMAIN b : s[i] = b[k]
    BY <1>1, <2>1, ConcatParts
  <2> QED BY <2>1, <2>2 DEF Mentioned, OfKind
<1>6. ASSUME NEW x \in Mentioned(a, kind) PROVE x \in Mentioned(s, kind)
  <2>1. PICK i \in DOMAIN a : a[i].kind = kind /\ x \in a[i].of
    BY <1>6 DEF Mentioned, OfKind
  <2>2. i \in DOMAIN s /\ s[i] = a[i]
    BY <1>2, <1>3, <1>4, <2>1
  <2> QED BY <2>1, <2>2 DEF Mentioned, OfKind
<1>7. ASSUME NEW x \in Mentioned(b, kind) PROVE x \in Mentioned(s, kind)
  <2>1. PICK i \in DOMAIN b : b[i].kind = kind /\ x \in b[i].of
    BY <1>7 DEF Mentioned, OfKind
  <2>2. L + i \in DOMAIN s /\ s[L + i] = b[i]
    BY <1>2, <1>3, <1>4, <2>1
  <2> QED BY <2>1, <2>2 DEF Mentioned, OfKind
<1>8. Mentioned(s, kind) = Mentioned(a, kind) \cup Mentioned(b, kind)
  BY <1>5, <1>6, <1>7
<1> QED BY <1>1, <1>8

LEMMA MentionedOne ==
  ASSUME NEW k, NEW of, NEW kind
  PROVE  Mentioned(Rec(k, of), kind) = IF k = kind THEN of ELSE {}
<1>1. PICK s : s = Rec(k, of)
  OBVIOUS
<1>2. DOMAIN s = {1} /\ s[1].kind = k /\ s[1].of = of
  BY <1>1, RecIsMade
<1>3. \A x : x \in Mentioned(s, kind) <=> k = kind /\ x \in of
  BY <1>2 DEF Mentioned, OfKind
<1>4. Mentioned(s, kind) = IF k = kind THEN of ELSE {}
  BY <1>3
<1> QED BY <1>1, <1>4

LEMMA MentionedNone ==
  ASSUME NEW s, NEW K, Made(s, K), NEW kind, kind \notin K
  PROVE  Mentioned(s, kind) = {} /\ OfKind(s, kind) = {}
<1>1. OfKind(s, kind) = {}
  BY DEF Made, OfKind
<1> QED BY <1>1 DEF Mentioned

-----------------------------------------------------------------------------
(* A session whose calls are numbered, and its graph that is open. *)

Counted(s) ==
  \E c \in Nat : Mentioned(s, "call") = 1..c /\ Mentioned(s, "done") \subseteq 1..c
Calm(s) == OfKind(s, "pending") = {} /\ Counted(s)

\* Records of other kinds leave the numbers of the calls as they are.
LEMMA CountedMore ==
  ASSUME NEW a, NEW b, Listed(a), NEW K, Made(b, K), {"call", "done"} \cap K = {}, Counted(a)
  PROVE  Counted(a \o b)
<1>1. PICK c \in Nat : Mentioned(a, "call") = 1..c /\ Mentioned(a, "done") \subseteq 1..c
  BY DEF Counted
<1>2. Mentioned(b, "call") = {} /\ Mentioned(b, "done") = {}
  BY MentionedNone
<1>3. Listed(b)
  BY DEF Made
<1>4. /\ Mentioned(a \o b, "call") = Mentioned(a, "call") \cup Mentioned(b, "call")
      /\ Mentioned(a \o b, "done") = Mentioned(a, "done") \cup Mentioned(b, "done")
  BY <1>3, MentionedConcat
<1> QED BY <1>1, <1>2, <1>4 DEF Counted

LEMMA CalmMore ==
  ASSUME NEW a, NEW b, Listed(a), Made(b, Quiet), Calm(a), NEW lost,
         Settled(a, {}, lost)
  PROVE  Listed(a \o b) /\ Calm(a \o b) /\ Settled(a \o b, {}, lost)
<1>1. "pending" \notin Quiet /\ {"call", "done"} \cap Quiet = {} /\ Listed(b)
  BY DEF Quiet, Made
<1>2. Counted(a \o b)
  BY <1>1, CountedMore DEF Calm
<1>3. OfKind(a \o b, "pending") = {}
  BY <1>1, OfKindConcat DEF Calm
<1> QED BY <1>1, <1>2, <1>3, SettledMore, ConcatFacts DEF Calm

\* Where nothing is left to be done, no call is open.
LEMMA NoneOpen ==
  ASSUME NEW s, Listed(s), NEW lost, Settled(s, {}, lost)
  PROVE  OpenCalls(s) = {}
<1>1. PICK u, D, o : u = SinceOutcome(s) /\ D = OfKind(u, "graph") /\ o = LastOutcome(s)
  OBVIOUS
<1>2. CASE D = {}
  BY <1>1, <1>2 DEF OpenCalls
<1>3. CASE D # {}
  <2>1. PICK n : n = Len(u)
    OBVIOUS
  <2>2. Listed(u) /\ o \in 0..Len(s) /\ Len(s) \in Nat
    BY <1>1, SinceFacts, ListedFacts
  <2>3. D \in SUBSET (1..n) /\ n \in Nat
    BY <1>1, <2>1, <2>2, OfKindIn, ListedFacts
  <2>4. PICK g : g = Max(D)
    OBVIOUS
  <2>5. g \in D
    BY <1>3, <2>3, <2>4, MaxIn
  <2>6. o + g \in OfKind(s, "graph") /\ o + g > o /\ u[g] = s[o + g]
    BY <1>1, <2>5, OpenFacts
  <2>7. PICK j \in DOMAIN s : o + g < j /\ s[j].kind = "done" /\ s[j].of = s[o + g].of
    BY <2>6 DEF Settled, Fine, Ended, OfKind
  <2>8. j \in OfKind(s, "done") /\ j > o /\ j \in Nat
    <3>1. j \in 1..Len(s) /\ o \in Nat /\ g \in Nat
      BY <2>2, <2>3, <2>5, ListedFacts
    <3> QED BY <2>6, <2>7, <3>1 DEF OfKind
  <2>9. PICK e : e = j - o
    OBVIOUS
  <2>10. e \in OfKind(u, "done")
    BY <1>1, <2>8, <2>9, OpenFacts
  <2>11. u[e] = s[j]
    <3>1. u[e] = s[o + e]
      BY <1>1, <2>10, OpenFacts
    <3>2. o + e = j
      BY <2>2, <2>8, <2>9
    <3> QED BY <3>1, <3>2
  <2>12. u[g].of \subseteq Mentioned(u, "done")
    BY <2>6, <2>7, <2>10, <2>11 DEF Mentioned
  <2> QED BY <1>1, <1>3, <2>4, <2>12 DEF OpenCalls
<1> QED BY <1>2, <1>3

\* A graph that is found for planned calls has ended, and nothing of it is executed.
LEMMA NothingAgain ==
  ASSUME NEW s, Listed(s), NEW lost, Settled(s, {}, lost), NEW p, Alike(s, p) # {}
  PROVE  Unended(s, p) = {}
<1>1. PICK D, n, g : D = Alike(s, p) /\ n = Len(s) /\ g = Max(D)
  OBVIOUS
<1>2. D \in SUBSET (1..n) /\ n \in Nat /\ D \subseteq OfKind(s, "graph")
  BY <1>1, OfKindIn, ListedFacts DEF Alike
<1>3. g \in OfKind(s, "graph")
  BY <1>1, <1>2, MaxIn
<1>4. PICK j \in DOMAIN s : s[j].kind = "done" /\ s[j].of = s[g].of
  BY <1>3 DEF Settled, Fine, Ended, OfKind
<1>5. s[g].of \subseteq Mentioned(s, "done")
  BY <1>4 DEF Mentioned, OfKind
<1>6. GraphCalls(s, p) = s[g].of
  BY <1>1 DEF GraphCalls
<1> QED BY <1>5, <1>6 DEF Unended

-----------------------------------------------------------------------------
(* The calls that are planned, and their execution. *)

\* All is answered but the last two records, the calls ids and their graph.
Running(s, ids, lost) ==
  \E n \in Nat :
    /\ Len(s) = n + 2 /\ s[n + 1].kind = "call" /\ s[n + 2].kind = "graph"
    /\ s[n + 1].of = ids /\ s[n + 2].of = ids /\ Settled(s, {n + 1, n + 2}, lost)
    /\ ids \in SUBSET Nat /\ IsFiniteSet(ids) /\ ids # {}
\* ... but the last one, the calls ids.
Planned(s, ids, lost) ==
  \E n \in Nat :
    /\ Len(s) = n + 1 /\ s[n + 1].kind = "call" /\ s[n + 1].of = ids
    /\ Settled(s, {n + 1}, lost)

LEMMA RecFacts ==
  \A kind, of : /\ Listed(Rec(kind, of)) /\ Len(Rec(kind, of)) = 1
                /\ Rec(kind, of)[1].kind = kind /\ Rec(kind, of)[1].of = of
BY RecIsMade

\* Calls that are planned are new, and all that is left to be done.
LEMMA CallsArePlanned ==
  ASSUME NEW a, Listed(a), Calm(a), NEW lost, Settled(a, {}, lost),
         NEW m, Made(m, {"other", "cache"}),
         NEW nn \in Nat \ {0}, NEW ids, ids = Ids(nn, Cardinality(Mentioned(a, "call"))),
         NEW b, b = m \o Rec("call", ids)
  PROVE  /\ Listed(a \o b) /\ Calm(a \o b) /\ Planned(a \o b, ids, lost)
         /\ ids \in SUBSET Nat /\ IsFiniteSet(ids) /\ ids # {}
         /\ ids \cap Mentioned(a, "done") = {}
<1>1. PICK c \in Nat : Mentioned(a, "call") = 1..c /\ Mentioned(a, "done") \subseteq 1..c
  BY DEF Calm, Counted
<1>2. Cardinality(1..c) = c
  <2>1. 1 \in Int /\ c \in Int /\ (1 > c => c = 0) /\ c - 1 + 1 = c
    OBVIOUS
  <2> QED BY <2>1, FS_Interval
<1>3. ids = (c + 1)..(c + nn)
  BY <1>1, <1>2 DEF Ids
<1>4. /\ ids \in SUBSET Nat /\ ids # {} /\ (1..c) \cup ids = 1..(c + nn) /\ ids \cap (1..c) = {}
      /\ c + nn \in Nat
  <2>1. c + 1 \in ids /\ ids \in SUBSET Nat
    BY <1>3
  <2>2. \A i : i \in (1..c) \cup ids <=> i \in 1..(c + nn)
    BY <1>3
  <2>3. ids \cap (1..c) = {}
    BY <1>3
  <2> QED BY <2>1, <2>2, <2>3
<1>5. IsFiniteSet(ids)
  <2>1. c + 1 \in Int /\ c + nn \in Int
    OBVIOUS
  <2> QED BY <1>3, <2>1, FS_Interval
<1>6. PICK C : C = Rec("call", ids)
  OBVIOUS
<1>7. /\ Listed(m) /\ Listed(C) /\ Len(C) = 1 /\ C[1].kind = "call" /\ C[1].of = ids
  <2>1. Listed(m)
    BY DEF Made
  <2>2. /\ Listed(Rec("call", ids)) /\ Len(Rec("call", ids)) = 1
        /\ Rec("call", ids)[1].kind = "call" /\ Rec("call", ids)[1].of = ids
    BY RecFacts, Zenon
  <2> QED BY <1>6, <2>1, <2>2
<1>7a. Listed(m) /\ Listed(C)
  BY <1>7
<1>8. PICK M, A : M = Len(m) /\ A = Len(a)
  OBVIOUS
<1>9. M \in Nat /\ A \in Nat /\ DOMAIN m = 1..M /\ DOMAIN a = 1..A
  BY <1>7, <1>8, ListedFacts
<1>10. b = m \o C
  BY <1>6
<1>11. /\ Listed(b) /\ Len(b) = M + 1 /\ \A i \in 1..M : b[i] = m[i]
       /\ b[M + 1] = C[1]
  <2>1. /\ Listed(m \o C) /\ Len(m \o C) = Len(m) + Len(C)
        /\ \A i \in 1..Len(m) : (m \o C)[i] = m[i]
        /\ \A i \in 1..Len(C) : (m \o C)[Len(m) + i] = C[i]
    BY <1>7a, ConcatFacts
  <2>2. 1 \in 1..1
    OBVIOUS
  <2> QED BY <1>7, <1>8, <1>10, <2>1, <2>2
<1>12. PICK s, n : s = a \o b /\ n = A + M
  OBVIOUS
<1>13. /\ Listed(s) /\ Len(s) = n + 1 /\ DOMAIN s = 1..(n + 1) /\ n \in Nat
       /\ \A i \in 1..A : s[i] = a[i]
       /\ \A i \in 1..M : s[A + i] = m[i]
       /\ s[n + 1] = C[1]
  <2>1. /\ Listed(a \o b) /\ Len(a \o b) = Len(a) + Len(b)
        /\ DOMAIN (a \o b) = 1..(Len(a) + Len(b))
        /\ \A i \in 1..Len(a) : (a \o b)[i] = a[i]
        /\ \A i \in 1..Len(b) : (a \o b)[Len(a) + i] = b[i]
    BY <1>11, ConcatFacts
  <2>2. /\ A + (M + 1) = n + 1 /\ n \in Nat
        /\ M + 1 \in 1..(M + 1) /\ \A i \in 1..M : i \in 1..(M + 1)
    BY <1>9, <1>12
  <2>3. /\ Listed(s) /\ Len(s) = A + (M + 1) /\ DOMAIN s = 1..(A + (M + 1))
        /\ \A i \in 1..A : s[i] = a[i]
        /\ \A i \in 1..(M + 1) : s[A + i] = b[i]
    BY <1>8, <1>11, <1>12, <2>1
  <2>4. \A i \in 1..M : s[A + i] = m[i]
    BY <1>11, <2>2, <2>3
  <2>5. s[n + 1] = C[1]
    <3>1. s[A + (M + 1)] = b[M + 1]
      BY <2>2, <2>3
    <3> QED BY <1>11, <2>2, <3>1
  <2> QED BY <2>2, <2>3, <2>4, <2>5
<1>14. Settled(s, {n + 1}, lost)
  <2>1. SUFFICES ASSUME NEW i \in DOMAIN s, i # n + 1 PROVE Fine(s, i, lost)
    BY DEF Settled
  <2>2. i \in 1..(A + M)
    BY <1>9, <1>12, <1>13, <2>1
  <2>3. CASE i \in 1..A
    <3>1. i \in DOMAIN a /\ Fine(a, i, lost)
      BY <1>9, <2>3 DEF Settled
    <3> QED BY <1>11, <1>12, <3>1, FineKept
  <2>4. CASE i \notin 1..A
    <3>1. PICK k : k = i - A
      OBVIOUS
    <3>2. k \in 1..M /\ A + k = i
      BY <1>9, <2>2, <2>4, <3>1
    <3>3. s[i].kind \in {"other", "cache"}
      BY <1>9, <1>13, <3>2 DEF Made
    <3> QED BY <3>3, QuietIsFine
  <2> QED BY <2>3, <2>4
<1>15. Mentioned(m, "call") = {} /\ Mentioned(m, "done") = {}
  BY MentionedNone
<1>16. \A kind : Mentioned(s, kind) = Mentioned(a, kind)
                                      \cup (Mentioned(m, kind) \cup Mentioned(C, kind))
  <2>1. TAKE kind
  <2>2. Mentioned(s, kind) = Mentioned(a, kind) \cup Mentioned(b, kind)
    BY <1>11, <1>12, MentionedConcat
  <2>3. Mentioned(m \o C, kind) = Mentioned(m, kind) \cup Mentioned(C, kind)
    BY <1>7, MentionedConcat
  <2> QED BY <1>10, <2>2, <2>3
<1>17. Mentioned(C, "call") = ids /\ Mentioned(C, "done") = {}
  BY <1>6, MentionedOne
<1>18. Mentioned(s, "call") = 1..(c + nn) /\ Mentioned(s, "done") = Mentioned(a, "done")
  <2>1. Mentioned(s, "call") = 1..c \cup ids
    BY <1>1, <1>15, <1>16, <1>17
  <2>2. Mentioned(s, "done") = Mentioned(a, "done")
    BY <1>15, <1>16, <1>17
  <2> QED BY <1>4, <2>1, <2>2
<1>19. Counted(s)
  <2>1. 1..c \subseteq 1..(c + nn)
    OBVIOUS
  <2> QED BY <1>1, <1>4, <1>18, <2>1 DEF Counted
<1>20. OfKind(s, "pending") = {}
  <2>1. PICK K : K = {"other", "cache", "call"}
    OBVIOUS
  <2>2. {"other", "cache"} \subseteq K /\ "call" \in K /\ "pending" \notin K
    BY <2>1
  <2>3. Made(m, K) /\ Made(C, K)
    BY <1>5, <1>6, <2>2, MadeMore, OneIsMade
  <2>4. Made(b, K)
    BY <1>10, <2>3, MadeConcat
  <2> QED BY <1>12, <2>2, <2>4, OfKindConcat DEF Calm
<1>21. Planned(s, ids, lost)
  BY <1>7, <1>13, <1>14 DEF Planned
<1>22. ids \cap Mentioned(a, "done") = {}
  BY <1>1, <1>4
<1> QED BY <1>4, <1>5, <1>12, <1>13, <1>19, <1>20, <1>21, <1>22 DEF Calm

\* With a new graph they are executed.
LEMMA PlannedRun ==
  ASSUME NEW s, Listed(s), Calm(s), NEW ids, NEW lost, Planned(s, ids, lost),
         ids \in SUBSET Nat, IsFiniteSet(ids), ids # {}
  PROVE  Calm(s \o Rec("graph", ids)) /\ Running(s \o Rec("graph", ids), ids, lost)
<1>1. PICK n \in Nat : /\ Len(s) = n + 1 /\ s[n + 1].kind = "call" /\ s[n + 1].of = ids
                       /\ Settled(s, {n + 1}, lost)
  BY DEF Planned
<1>2. PICK G, t : G = Rec("graph", ids) /\ t = s \o G
  OBVIOUS
<1>3. Listed(G) /\ Len(G) = 1 /\ G[1].kind = "graph" /\ G[1].of = ids
  <2>1. /\ Listed(Rec("graph", ids)) /\ Len(Rec("graph", ids)) = 1
        /\ Rec("graph", ids)[1].kind = "graph" /\ Rec("graph", ids)[1].of = ids
    BY RecFacts, Zenon
  <2> QED BY <1>2, <2>1
<1>3a. Listed(G) /\ Listed(s)
  BY <1>3
<1>4. /\ Listed(t) /\ Len(t) = n + 2 /\ DOMAIN t = 1..(n + 2) /\ DOMAIN s = 1..(n + 1)
      /\ \A i \in 1..(n + 1) : t[i] = s[i]
      /\ t[n + 2] = G[1]
  <2>1. /\ Listed(s \o G) /\ Len(s \o G) = Len(s) + Len(G)
        /\ DOMAIN (s \o G) = 1..(Len(s) + Len(G))
        /\ \A i \in 1..Len(s) : (s \o G)[i] = s[i]
        /\ \A i \in 1..Len(G) : (s \o G)[Len(s) + i] = G[i]
    BY <1>3a, ConcatFacts
  <2>2. n + 1 + 1 = n + 2 /\ 1 \in 1..1
    OBVIOUS
  <2>3. /\ Listed(t) /\ Len(t) = n + 1 + 1 /\ DOMAIN t = 1..(n + 1 + 1)
        /\ \A i \in 1..(n + 1) : t[i] = s[i]
        /\ \A i \in 1..1 : t[n + 1 + i] = G[i]
    BY <1>1, <1>2, <1>3, <2>1
  <2>4. DOMAIN s = 1..(n + 1)
    BY <1>1, ListedFacts
  <2> QED BY <2>2, <2>3, <2>4
<1>5. Settled(t, {n + 1, n + 2}, lost)
  <2>1. SUFFICES ASSUME NEW i \in DOMAIN t, i # n + 1, i # n + 2 PROVE Fine(t, i, lost)
    BY DEF Settled
  <2>2. i \in DOMAIN s /\ i \notin {n + 1}
    BY <1>4, <2>1
  <2>3. Fine(s, i, lost)
    BY <1>1, <2>2 DEF Settled
  <2> QED BY <1>2, <1>3, <2>2, <2>3, FineKept
<1>6. Calm(t)
  <2>1. Made(G, {"graph"}) /\ {"call", "done"} \cap {"graph"} = {} /\ "pending" \notin {"graph"}
    BY <1>2, OneIsMade
  <2>2. Counted(t)
    BY <1>2, <2>1, CountedMore DEF Calm
  <2>3. OfKind(t, "pending") = {}
    BY <1>2, <2>1, OfKindConcat DEF Calm
  <2> QED BY <2>2, <2>3 DEF Calm
<1>7. t[n + 1].kind = "call" /\ t[n + 1].of = ids
  <2>1. n + 1 \in 1..(n + 1)
    OBVIOUS
  <2> QED BY <1>1, <1>4, <2>1
<1>8. Running(t, ids, lost)
  BY <1>3, <1>4, <1>5, <1>7 DEF Running
<1> QED BY <1>2, <1>6, <1>8

\* Without one they are lost, and nothing is left to be done.
LEMMA PlannedLost ==
  ASSUME NEW s, Listed(s), NEW ids, NEW lost, Planned(s, ids, lost)
  PROVE  Settled(s, {}, lost \cup ids)
<1>1. PICK n \in Nat : /\ Len(s) = n + 1 /\ s[n + 1].kind = "call" /\ s[n + 1].of = ids
                       /\ Settled(s, {n + 1}, lost)
  BY DEF Planned
<1>2. PICK more : more = lost \cup ids
  OBVIOUS
<1>3. Settled(s, {n + 1}, more)
  BY <1>1, <1>2, MoreAreLost
<1>4. Fine(s, n + 1, more)
  BY <1>1, <1>2 DEF Fine
<1>5. Settled(s, {}, more)
  BY <1>3, <1>4 DEF Settled
<1> QED BY <1>2, <1>5

LEMMA BehindTwo ==
  ASSUME NEW n \in Nat, NEW l \in Nat, NEW i \in (n + 3)..(n + 2 + l)
  PROVE  \E k \in 1..l : n + 2 + k = i
<1>1. i - (n + 2) \in 1..l /\ n + 2 + (i - (n + 2)) = i
  OBVIOUS
<1> QED BY <1>1

\* Calls that are executed have their results behind them, and nothing is left to be done.
LEMMA ExecutedRun ==
  ASSUME NEW s, Listed(s), Calm(s), NEW ids, NEW lost, Running(s, ids, lost),
         NEW b, b = Checkpoints(ids, ids) \o Results(ids)
  PROVE  Listed(s \o b) /\ Calm(s \o b) /\ Settled(s \o b, {}, lost)
<1>1. PICK n \in Nat :
        /\ Len(s) = n + 2 /\ s[n + 1].kind = "call" /\ s[n + 2].kind = "graph"
        /\ s[n + 1].of = ids /\ s[n + 2].of = ids /\ Settled(s, {n + 1, n + 2}, lost)
        /\ ids \in SUBSET Nat /\ IsFiniteSet(ids) /\ ids # {}
  BY DEF Running
<1>4. /\ DOMAIN s = 1..(n + 2) /\ s[n + 1].of = ids /\ ids \in SUBSET Nat /\ IsFiniteSet(ids)
      /\ ids # {}
  BY <1>1, ListedFacts
<1>5. PICK N : N = Cardinality(ids)
  OBVIOUS
<1>6. N \in Nat
  BY <1>4, <1>5, FS_CardinalityType
<1>7. PICK P, R, D, E : /\ P = Checkpoints(ids, ids) /\ R = Results(ids)
                        /\ E = Others(5 * Cardinality(ids)) /\ D = Rec("done", ids)
  OBVIOUS
<1>8. b = P \o R /\ P = E \o D
  BY <1>4, <1>7 DEF Checkpoints
<1>9. /\ Made(E, {"other"}) /\ Made(R, {"result"}) /\ Len(R) = N
      /\ Made(P, {"other", "done"}) /\ Made(D, {"done"})
  <2>1. 5 * N \in Nat
    BY <1>6
  <2>2. "done" \in {"done"}
    OBVIOUS
  <2> QED BY <1>4, <1>5, <1>7, <2>1, <2>2, OthersAreMade, ResultsAreMade,
             CheckpointsAreMade, OneIsMade
<1>10. Listed(E) /\ Listed(R) /\ Listed(P) /\ Listed(D)
  BY <1>9 DEF Made
<1>11. PICK l : l = Len(P)
  OBVIOUS
<1>12. l \in Nat /\ DOMAIN P = 1..l /\ DOMAIN R = 1..N
  BY <1>9, <1>10, <1>11, ListedFacts
<1>13. \E e \in 1..l : P[e] = D[1]
  <2>1. /\ Len(E \o D) = Len(E) + Len(D)
        /\ \A i \in 1..Len(D) : (E \o D)[Len(E) + i] = D[i]
    BY <1>10, ConcatFacts
  <2>2. Len(D) = 1 /\ 1 \in 1..1
    BY <1>7, RecFacts
  <2>3. Len(E) \in Nat
    BY <1>10, ListedFacts
  <2>4. PICK e : e = Len(E) + 1
    OBVIOUS
  <2>5. P[e] = D[1] /\ l = e
    BY <1>8, <1>11, <2>1, <2>2, <2>4
  <2>6. e \in 1..l
    BY <2>3, <2>4, <2>5
  <2> QED BY <2>5, <2>6
<1>14. D[1].kind = "done" /\ D[1].of = ids
  BY <1>7, RecIsMade
<1>15. \A k \in 1..N : R[k] = Result(Nth(ids, k))
  BY <1>5, <1>7 DEF Results, Result
<1>16. /\ Listed(b) /\ Len(b) = l + N
       /\ \A i \in 1..l : b[i] = P[i]
       /\ \A i \in 1..N : b[l + i] = R[i]
  <2>1. /\ Listed(P \o R) /\ Len(P \o R) = Len(P) + Len(R)
        /\ \A i \in 1..Len(P) : (P \o R)[i] = P[i]
        /\ \A i \in 1..Len(R) : (P \o R)[Len(P) + i] = R[i]
    BY <1>10, ConcatFacts
  <2> QED BY <1>8, <1>9, <1>11, <2>1
<1>17. PICK t : t = s \o b
  OBVIOUS
<1>18. PICK g : g = n + 2 + l
  OBVIOUS
<1>19. /\ Listed(t) /\ Len(t) = g + N /\ DOMAIN t = 1..(g + N) /\ g \in Nat
       /\ \A i \in 1..(n + 2) : t[i] = s[i]
       /\ \A i \in 1..l : t[n + 2 + i] = P[i]
       /\ \A i \in 1..N : t[g + i] = R[i]
  <2>1. /\ Listed(s \o b) /\ Len(s \o b) = Len(s) + Len(b)
        /\ DOMAIN (s \o b) = 1..(Len(s) + Len(b))
        /\ \A i \in 1..Len(s) : (s \o b)[i] = s[i]
        /\ \A i \in 1..Len(b) : (s \o b)[Len(s) + i] = b[i]
    BY <1>16, ConcatFacts
  <2>2. /\ Listed(t) /\ Len(t) = n + 2 + (l + N) /\ DOMAIN t = 1..(n + 2 + (l + N))
        /\ \A i \in 1..(n + 2) : t[i] = s[i]
        /\ \A i \in 1..(l + N) : t[n + 2 + i] = b[i]
    BY <1>1, <1>16, <1>17, <2>1
  <2>3. n + 2 + (l + N) = g + N /\ g \in Nat
    BY <1>6, <1>12, <1>18
  <2>4. \A i \in 1..l : t[n + 2 + i] = P[i]
    <3>1. \A i \in 1..l : i \in 1..(l + N)
      BY <1>6, <1>12
    <3> QED BY <1>16, <2>2, <3>1
  <2>5. \A i \in 1..N : t[g + i] = R[i]
    <3>1. TAKE i \in 1..N
    <3>2. l + i \in 1..(l + N) /\ n + 2 + (l + i) = g + i
      BY <1>6, <1>12, <1>18
    <3> QED BY <1>16, <2>2, <3>2
  <2> QED BY <2>2, <2>3, <2>4, <2>5
<1>20. Block(t, n + 1, g)
  <2>1. /\ n + 1 \in Nat \ {0} /\ g \in Nat /\ n + 1 <= g /\ n + 1 \in 1..(n + 2)
    BY <1>12, <1>18, <1>19
  <2>2. t[n + 1].kind = "call" /\ t[n + 1].of = ids
    BY <1>1, <1>4, <1>19, <2>1
  <2>3. \A k \in (n + 1 + 1)..g : t[k].kind \notin Spoken
    <3>1. TAKE k \in (n + 1 + 1)..g
    <3>2. CASE k = n + 2
      <4>1. n + 2 \in 1..(n + 2)
        OBVIOUS
      <4>2. t[k].kind = "graph"
        BY <1>1, <1>19, <3>2, <4>1
      <4> QED BY <4>2 DEF Spoken
    <3>3. CASE k # n + 2
      <4>1. PICK i : i = k - (n + 2)
        OBVIOUS
      <4>2. i \in 1..l /\ n + 2 + i = k
        BY <1>12, <1>18, <3>3, <4>1
      <4>3. t[k] = P[i]
        BY <1>19, <4>2
      <4>4. P[i].kind \in {"other", "done"}
        BY <1>9, <1>12, <4>2 DEF Made
      <4> QED BY <4>3, <4>4 DEF Spoken
    <3> QED BY <3>2, <3>3
  <2>4. \A k \in 1..N : t[g + k] = Result(Nth(ids, k))
    BY <1>15, <1>19
  <2> QED BY <1>4, <1>5, <1>19, <2>1, <2>2, <2>3, <2>4 DEF Block
<1>21. Ended(t, n + 2)
  <2>1. PICK e \in 1..l : P[e] = D[1]
    BY <1>13
  <2>2. PICK j : j = n + 2 + e
    OBVIOUS
  <2>3. t[j] = D[1]
    BY <1>19, <2>1, <2>2
  <2>4. j \in 1..(g + N) /\ n + 2 < j
    BY <1>6, <1>12, <1>18, <2>2
  <2>5. t[n + 2].of = ids
    <3>1. n + 2 \in 1..(n + 2)
      OBVIOUS
    <3> QED BY <1>1, <1>19, <3>1
  <2> QED BY <1>14, <1>19, <2>3, <2>4, <2>5, SMTT(30) DEF Ended
<1>22. ASSUME NEW i \in DOMAIN t PROVE Fine(t, i, lost)
  <2>1. i \in 1..(g + N)
    BY <1>19
  <2>2. CASE i = n + 1
    <3>1. t[i].kind = "call"
      BY <1>20, <2>2 DEF Block
    <3> QED BY <1>20, <2>2, <3>1 DEF Fine
  <2>3. CASE i = n + 2
    <3>1. n + 2 \in 1..(n + 2)
      OBVIOUS
    <3>2. t[i].kind = "graph"
      BY <1>1, <1>19, <2>3, <3>1
    <3> QED BY <1>21, <2>3, <3>2 DEF Fine
  <2>4. CASE i \in 1..n
    <3>1. i \in DOMAIN s /\ i \notin {n + 1, n + 2}
      BY <1>4, <2>4
    <3>2. Fine(s, i, lost)
      BY <1>1, <3>1 DEF Settled
    <3> QED BY <1>16, <1>17, <3>1, <3>2, FineKept
  <2>5. CASE i \in (n + 3)..g
    <3>1. l \in Nat /\ i \in (n + 3)..(n + 2 + l)
      BY <1>12, <1>18, <2>5
    <3>2. PICK k \in 1..l : n + 2 + k = i
      BY <3>1, BehindTwo
    <3>3. P[k].kind \in {"other", "done"}
      BY <1>9, <1>12, <3>2 DEF Made
    <3>4. t[i].kind \in {"other", "done"}
      BY <1>19, <3>2, <3>3
    <3> QED BY <3>4, QuietIsFine
  <2>6. CASE i \in (g + 1)..(g + N)
    <3>1. PICK k : k = i - g
      OBVIOUS
    <3>2. k \in 1..N /\ i = g + k
      BY <1>6, <1>19, <2>6, <3>1
    <3>3. t[n + 1].of = ids
      <4>1. n + 1 \in 1..(n + 2)
        OBVIOUS
      <4> QED BY <1>4, <1>19, <4>1
    <3>4. Answer(t, n + 1, g, k)
      BY <1>5, <1>20, <3>2, <3>3 DEF Answer
    <3>5. t[i].kind = "result"
      <4>1. t[i] = R[k]
        BY <1>19, <3>2
      <4> QED BY <1>9, <1>12, <3>2, <4>1 DEF Made
    <3> QED BY <3>2, <3>4, <3>5 DEF Fine
  <2>7. i \in 1..n \/ i = n + 1 \/ i = n + 2 \/ i \in (n + 3)..g \/ i \in (g + 1)..(g + N)
    <3>1. i \in Int /\ 1 <= i /\ i <= g + N
      BY <1>6, <1>19, <2>1
    <3>2. n \in Nat /\ l \in Nat /\ g = n + 2 + l /\ N \in Nat
      BY <1>6, <1>12, <1>18
    <3>3. i <= n \/ i = n + 1 \/ i = n + 2 \/ (n + 3 <= i /\ i <= g) \/ g + 1 <= i
      BY <3>1, <3>2
    <3> QED BY <3>1, <3>2, <3>3
  <2> QED BY <2>2, <2>3, <2>4, <2>5, <2>6, <2>7
<1>23. Settled(t, {}, lost)
  BY <1>22 DEF Settled
<1>24. Counted(t)
  <2>1. PICK c \in Nat : Mentioned(s, "call") = 1..c /\ Mentioned(s, "done") \subseteq 1..c
    BY DEF Calm, Counted
  <2>2. \A kind : Mentioned(t, kind) = Mentioned(s, kind)
                                        \cup (Mentioned(P, kind) \cup Mentioned(R, kind))
    <3>1. TAKE kind
    <3>2. Mentioned(t, kind) = Mentioned(s, kind) \cup Mentioned(b, kind)
      BY <1>16, <1>17, MentionedConcat
    <3>3. Mentioned(P \o R, kind) = Mentioned(P, kind) \cup Mentioned(R, kind)
      BY <1>10, MentionedConcat
    <3> QED BY <1>8, <3>2, <3>3
  <2>3. Mentioned(P, "call") = {} /\ Mentioned(R, "call") = {} /\ Mentioned(R, "done") = {}
    <3>1. "call" \notin {"other", "done"} /\ "call" \notin {"result"} /\ "done" \notin {"result"}
      OBVIOUS
    <3> QED BY <1>9, <3>1, MentionedNone
  <2>4. Mentioned(P, "done") = ids
    <3>1. Mentioned(E \o D, "done") = Mentioned(E, "done") \cup Mentioned(D, "done")
      BY <1>10, MentionedConcat
    <3>2. Mentioned(E, "done") = {}
      <4>1. "done" \notin {"other"}
        OBVIOUS
      <4> QED BY <1>9, <4>1, MentionedNone
    <3>3. Mentioned(D, "done") = ids
      BY <1>7, MentionedOne
    <3> QED BY <1>8, <3>1, <3>2, <3>3
  <2>5. ids \subseteq Mentioned(s, "call")
    <3>1. n + 1 \in OfKind(s, "call")
      <4>1. n + 1 \in 1..(n + 2)
        OBVIOUS
      <4> QED BY <1>1, <1>4, <4>1 DEF OfKind
    <3> QED BY <1>4, <3>1 DEF Mentioned
  <2>6. Mentioned(t, "call") = 1..c /\ Mentioned(t, "done") \subseteq 1..c
    BY <2>1, <2>2, <2>3, <2>4, <2>5
  <2> QED BY <2>6 DEF Counted
<1>25. OfKind(t, "pending") = {}
  <2>1. PICK K : K = {"other", "done", "result"}
    OBVIOUS
  <2>2. {"other", "done"} \subseteq K /\ {"result"} \subseteq K /\ "pending" \notin K
    BY <2>1
  <2>3. Made(P, K) /\ Made(R, K)
    BY <1>9, <2>2, MadeMore
  <2>4. Made(b, K)
    BY <1>8, <2>3, MadeConcat
  <2> QED BY <1>17, <2>2, <2>4, OfKindConcat DEF Calm
<1> QED BY <1>17, <1>19, <1>23, <1>24, <1>25 DEF Calm

-----------------------------------------------------------------------------
(* Calls and results belong together, in every request. *)

\* As long as nothing disturbs the session, the driver holds what is stored when it asks,
\* and every call is answered unless its graph is about to be executed.
Orderly ==
  /\ Calm(records) /\ pc # "resolve"
  /\ pc \in {"ask", "asked"} => context = records
  /\ IF pc = "run" /\ running # {} THEN Running(records, running, shadowed)
                                  ELSE Settled(records, {}, shadowed)
WholeInv == ExchangesWhole /\ (~disturbed => Orderly)

LEMMA QuietKinds ==
  /\ {"other"} \subseteq Quiet /\ {"other", "cache"} \subseteq Quiet /\ "trigger" \in Quiet
  /\ "summary" \in Quiet /\ "respond" \in Quiet /\ "outcome" \in Quiet /\ "plan" \in Quiet
  /\ IsFiniteSet({})
BY FS_EmptySet DEF Quiet

LEMMA QuietOthers ==
  ASSUME NEW n \in Nat
  PROVE  Made(Others(n), Quiet)
BY OthersAreMade, QuietKinds, MadeMore

LEMMA SameRequest ==
  ASSUME WholeInv, UNCHANGED <<request, asks, disturbed, shadowed>>
  PROVE  ExchangesWhole'
BY DEF WholeInv, ExchangesWhole

\* Each action keeps the invariant.
LEMMA FinishKeepsWhole ==
  ASSUME AboutInv, WholeInv, UNCHANGED <<request, asks, disturbed, shadowed>>,
         pc \in {"ask", "asked"}, NEW m, Made(m, Quiet), Finish(m)
  PROVE  WholeInv'
<1>1. ExchangesWhole'
  BY SameRequest
<1>2. SUFFICES ASSUME ~disturbed PROVE Orderly'
  BY <1>1 DEF WholeInv
<1>3. Listed(records) /\ Calm(records) /\ Settled(records, {}, shadowed)
  BY <1>2 DEF WholeInv, Orderly, AboutInv, Made
<1>4. Made(Outcome, Quiet)
  BY QuietKinds, QuietOthers, OneIsMade, MadeConcat DEF Outcome
<1>5. PICK b : b = m \o Outcome
  OBVIOUS
<1>6. Made(b, Quiet) /\ records' = records \o b /\ pc' = "idle"
  BY <1>4, <1>5, MadeConcat DEF Finish, Leave, AppendAll
<1>7. Calm(records') /\ Settled(records', {}, shadowed)
  BY <1>3, <1>6, CalmMore
<1> QED BY <1>6, <1>7 DEF Orderly

LEMMA DeliverKeepsWhole ==
  ASSUME AboutInv, WholeInv, Deliver
  PROVE  WholeInv'
<1>1. ExchangesWhole'
  BY SameRequest DEF Deliver
<1>2. SUFFICES ASSUME ~disturbed PROVE Orderly'
  BY <1>1 DEF WholeInv, Deliver
<1>3. Listed(records) /\ Calm(records) /\ Settled(records, {}, shadowed)
  BY <1>2 DEF WholeInv, Orderly, AboutInv, Made, Deliver
<1>4. PICK t, plan, summary, a, told, begun, s :
        /\ t = {Cardinality(OfKind(records, "trigger")) + 1}
        /\ plan \in {<< >>, Rec("plan", {})} /\ summary \in {<< >>, Rec("summary", {})}
        /\ a = records \o Asking(t) /\ told = a \o Others(1)
        /\ begun = told \o plan /\ s = begun \o summary
        /\ records' = s \o Others(1) /\ context' = records'
        /\ pc' \in IF Held(records) = {} THEN {"ask"} ELSE {"ask", "resolve"}
  BY Zenon DEF Deliver, Summary, Proposals
<1>5. /\ Made(Asking(t), Quiet) /\ Made(plan, Quiet) /\ Made(summary, Quiet)
      /\ Made(Others(1), Quiet)
  <2>1. IsFiniteSet(t)
    BY <1>4, FS_Singleton
  <2>2. Made(Asking(t), Quiet)
    BY <2>1, QuietKinds, OneIsMade DEF Asking
  <2>3. Made(Rec("summary", {}), Quiet) /\ Made(Rec("plan", {}), Quiet) /\ Made(<< >>, Quiet)
    BY QuietKinds, OneIsMade, EmptyIsMade
  <2> QED BY <1>4, <2>2, <2>3, QuietOthers
<1>6. Listed(a) /\ Calm(a) /\ Settled(a, {}, shadowed)
  BY <1>3, <1>4, <1>5, CalmMore
<1>7. Listed(told) /\ Calm(told) /\ Settled(told, {}, shadowed)
  BY <1>4, <1>5, <1>6, CalmMore
<1>7a. Listed(begun) /\ Calm(begun) /\ Settled(begun, {}, shadowed)
  BY <1>4, <1>5, <1>7, CalmMore
<1>8. Listed(s) /\ Calm(s) /\ Settled(s, {}, shadowed)
  BY <1>4, <1>5, <1>7a, CalmMore
<1>9. Calm(records') /\ Settled(records', {}, shadowed)
  BY <1>4, <1>5, <1>8, CalmMore
<1>10. Held(records) = {}
  BY <1>3 DEF Calm, Held
<1>11. pc' = "ask" /\ UNCHANGED shadowed
  BY <1>4, <1>10 DEF Deliver
<1> QED BY <1>4, <1>9, <1>11 DEF Orderly

LEMMA AskKeepsWhole ==
  ASSUME AboutInv, WholeInv, Ask
  PROVE  WholeInv'
<1>1. PICK all : all = Contents(context, trigger)
  OBVIOUS
<1>2. request'.meant = all /\ UNCHANGED <<records, context, disturbed, shadowed>>
      /\ pc = "ask" /\ pc' = "asked"
  BY <1>1 DEF Ask
<1>3. CASE disturbed
  BY <1>2, <1>3 DEF WholeInv, ExchangesWhole
<1>4. CASE ~disturbed
  <2>1. Listed(records) /\ Calm(records) /\ Settled(records, {}, shadowed) /\ context = records
    BY <1>2, <1>4 DEF WholeInv, Orderly, AboutInv, Made
  <2>2. WellFormed(IF Head(all).kind = "notice" THEN Untorn(all) ELSE all, shadowed)
    BY <1>1, <2>1, SettledExchanged, WindowIsWhole
  <2>3. ExchangesWhole'
    BY <1>2, <2>2 DEF ExchangesWhole
  <2>4. Orderly'
    BY <1>2, <2>1 DEF Orderly
  <2> QED BY <2>3, <2>4 DEF WholeInv
<1> QED BY <1>3, <1>4

LEMMA FinishesKeepWhole ==
  ASSUME AboutInv, WholeInv, Stop \/ Respond \/ ProviderFails
  PROVE  WholeInv'
<1>1. UNCHANGED <<request, asks, disturbed, shadowed>> /\ pc \in {"ask", "asked"}
  BY DEF Stop, Respond, ProviderFails
<1>2. CASE Stop \/ ProviderFails
  <2>1. Finish(<< >>)
    BY <1>2 DEF Stop, ProviderFails
  <2> QED BY <1>1, <2>1, EmptyIsMade, FinishKeepsWhole
<1>3. CASE Respond
  <2>1. PICK said : /\ said = Rec("respond", {}) \/ said = Others(1)
                    /\ Finish(Metadata \o said)
    BY <1>3 DEF Respond
  <2>2. Made(said, Quiet)
    BY <2>1, QuietKinds, OneIsMade, QuietOthers
  <2>3. Made(Metadata, Quiet)
    BY QuietKinds, MetadataIsMade, MadeMore
  <2>4. PICK m : m = Metadata \o said
    OBVIOUS
  <2>5. Made(m, Quiet) /\ Finish(m)
    BY <2>1, <2>2, <2>3, <2>4, MadeConcat
  <2> QED BY <1>1, <2>5, FinishKeepsWhole
<1> QED BY <1>2, <1>3

LEMMA PlanKeepsWhole ==
  ASSUME AboutInv, WholeInv, PlanCalls
  PROVE  WholeInv'
<1>1. CASE disturbed'
  BY <1>1 DEF WholeInv, ExchangesWhole
<1>2. CASE ~disturbed'
  <2>1. PICK n, p, calls, b :
          /\ n \in Batches /\ p.calls = calls
          /\ calls = Ids(n, Cardinality(Mentioned(records, "call")))
          /\ b = Metadata \o Rec("call", calls)
          /\ AppendAll(b \o NewGraph(context, p)) /\ running' = Unended(context, p)
          /\ shadowed' = IF Alike(context, p) = {} THEN shadowed ELSE shadowed \cup calls
          /\ pc' = "run" /\ UNCHANGED <<context, disturbed>>
    <3>1. PICK n \in Batches, named \in BOOLEAN :
            LET calls == Ids(n, Cardinality(Mentioned(records, "call")))
                p == [calls |-> calls, step |-> step, named |-> named]
                planned == Metadata \o Rec("call", calls)
            IN  /\ AppendAll(planned \o NewGraph(context, p)) /\ running' = Unended(context, p)
                /\ shadowed' = IF Alike(context, p) = {} THEN shadowed
                                                       ELSE shadowed \cup calls
                /\ pc' = "run" /\ UNCHANGED <<context, disturbed>>
      BY <1>2, Zenon DEF PlanCalls
    <3>2. PICK calls, p : /\ calls = Ids(n, Cardinality(Mentioned(records, "call")))
                          /\ p = [calls |-> calls, step |-> step, named |-> named]
      OBVIOUS
    <3>3. p.calls = calls
      BY <3>2
    <3> QED BY <3>1, <3>2, <3>3, Zenon
  <2>2. UNCHANGED <<request, asks>> /\ pc = "asked"
    BY DEF PlanCalls
  <2>3. ExchangesWhole'
    <3>1. shadowed \subseteq shadowed'
      BY <2>1
    <3>2. \A m : WellFormed(m, shadowed) => WellFormed(m, shadowed')
      BY <3>1, MoreAreLost
    <3> QED BY <2>1, <2>2, <3>2 DEF WholeInv, ExchangesWhole
  <2>4. Listed(records) /\ Calm(records) /\ Settled(records, {}, shadowed) /\ context = records
    BY <1>2, <2>1, <2>2 DEF WholeInv, Orderly, AboutInv, Made
  <2>5. PICK s : s = records \o b
    OBVIOUS
  <2>6. /\ Listed(s) /\ Calm(s) /\ Planned(s, calls, shadowed)
        /\ calls \in SUBSET Nat /\ IsFiniteSet(calls) /\ calls # {}
        /\ calls \cap Mentioned(records, "done") = {}
    <3>1. n \in Nat \ {0}
      BY <2>1, BatchesAssumption
    <3> QED BY <2>1, <2>4, <2>5, <3>1, MetadataIsMade, CallsArePlanned
  <2>7. records' = s \o NewGraph(context, p)
    <3>1. Listed(b) /\ Listed(NewGraph(context, p))
      <4>1. Listed(Metadata)
        BY MetadataIsMade DEF Made
      <4>2. Listed(Rec("call", calls))
        BY RecIsMade
      <4>3. Listed(b)
        BY <2>1, <4>1, <4>2, ConcatFacts
      <4> QED BY <4>3, RecIsMade, EmptyIsMade DEF NewGraph
    <3>2. PICK g : g = NewGraph(context, p)
      OBVIOUS
    <3>3. records' = records \o (b \o g)
      BY <2>1, <3>2 DEF AppendAll
    <3>4. (records \o b) \o g = records \o (b \o g)
      <4>1. Listed(records) /\ Listed(b) /\ Listed(g)
        BY <2>4, <3>1, <3>2
      <4> QED BY <4>1, ConcatAssociates
    <3> QED BY <2>5, <3>2, <3>3, <3>4
  <2>8. CASE Alike(context, p) = {}
    <3>1. NewGraph(context, p) = Rec("graph", calls) /\ shadowed' = shadowed
      BY <2>1, <2>8 DEF NewGraph
    <3>2. running' = calls
      BY <2>1, <2>4, <2>6, <2>8 DEF Unended, GraphCalls
    <3>3. Calm(records') /\ Running(records', calls, shadowed)
      BY <2>6, <2>7, <3>1, PlannedRun
    <3> QED BY <2>1, <2>3, <2>6, <3>1, <3>2, <3>3 DEF WholeInv, Orderly
  <2>9. CASE Alike(context, p) # {}
    <3>1. s \o << >> = s
      <4>1. PICK S : s \in Seq(S)
        BY <2>6 DEF Listed
      <4> QED BY <4>1
    <3>2. records' = s /\ shadowed' = shadowed \cup calls
      BY <2>1, <2>7, <2>9, <3>1 DEF NewGraph
    <3>3. running' = {}
      BY <2>1, <2>4, <2>9, NothingAgain
    <3>4. Settled(records', {}, shadowed')
      BY <2>6, <3>2, PlannedLost
    <3> QED BY <2>1, <2>3, <2>6, <3>2, <3>3, <3>4 DEF WholeInv, Orderly
  <2> QED BY <2>8, <2>9
<1> QED BY <1>1, <1>2

LEMMA NoResults == Results({}) = << >>
<1>1. Cardinality({}) = 0
  BY FS_EmptySet
<1>2. 1..0 = {}
  OBVIOUS
<1> QED BY <1>1, <1>2 DEF Results

LEMMA RunKeepsWhole ==
  ASSUME AboutInv, WholeInv, Run
  PROVE  WholeInv'
<1>1. ExchangesWhole'
  BY SameRequest DEF Run
<1>2. SUFFICES ASSUME ~disturbed PROVE Orderly'
  BY <1>1 DEF WholeInv, Run
<1>3. PICK ids, b : /\ ids = running /\ b = Checkpoints(ids, ids) \o Results(ids)
                    /\ records' = records \o b
  BY DEF Run, Answers, AppendAll
<1>4. pc = "run" /\ pc' = "continue" /\ UNCHANGED shadowed
  BY DEF Run
<1>5. Listed(records) /\ Calm(records)
  BY <1>2, <1>4 DEF WholeInv, Orderly, AboutInv, Made
<1>6. Calm(records \o b) /\ Settled(records \o b, {}, shadowed)
  <2>1. CASE ids # {}
    <3>1. Running(records, ids, shadowed)
      BY <1>2, <1>3, <1>4, <2>1 DEF WholeInv, Orderly
    <3> QED BY <1>3, <1>5, <3>1, ExecutedRun
  <2>2. CASE ids = {}
    <3>1. Settled(records, {}, shadowed)
      BY <1>2, <1>3, <1>4, <2>2 DEF WholeInv, Orderly
    <3>2. PICK l : l = 5 * Cardinality(ids)
      OBVIOUS
    <3>3. l \in Nat
      BY <2>2, <3>2, FS_EmptySet
    <3>4. Checkpoints(ids, ids) = Others(l) \o << >> /\ Results(ids) = << >>
      BY <2>2, <3>2, NoResults DEF Checkpoints
    <3>5. Made(Others(l), Quiet) /\ Made(<< >>, Quiet)
      BY <3>3, QuietOthers, EmptyIsMade
    <3>6. Made(b, Quiet)
      BY <1>3, <3>4, <3>5, MadeConcat
    <3> QED BY <1>5, <3>1, <3>6, CalmMore
  <2> QED BY <2>1, <2>2
<1> QED BY <1>3, <1>4, <1>6 DEF Orderly

LEMMA ContinueKeepsWhole ==
  ASSUME AboutInv, WholeInv, Continue
  PROVE  WholeInv'
<1>1. ExchangesWhole'
  BY SameRequest DEF Continue
<1>2. SUFFICES ASSUME ~disturbed PROVE Orderly'
  BY <1>1 DEF WholeInv, Continue
<1>3. pc = "continue" /\ pc' = "ask"
  BY DEF Continue
<1>4. Listed(records) /\ Calm(records) /\ Settled(records, {}, shadowed)
  BY <1>2, <1>3 DEF WholeInv, Orderly, AboutInv, Made
<1>5. OpenCalls(records) = {}
  BY <1>4, NoneOpen
<1>6. Results({}) = << >>
  BY NoResults
<1>7. records \o << >> = records
  <2>1. PICK S : records \in Seq(S)
    BY <1>4 DEF Listed
  <2> QED BY <2>1
<1>8. records' = records /\ context' = records
  BY <1>5, <1>6, <1>7 DEF Continue, AppendAll
<1> QED BY <1>3, <1>4, <1>8 DEF Orderly, Continue

\* In a session where no driver was dropped and no call waited for an approval, the calls a
\* request shows are followed by one result each and no result is without its call, but for
\* the results the window has torn from their calls at its start, and but for calls without
\* ids that an earlier turn's graph of the same step was taken for: for any window, batches,
\* number of triggers and of requests.  (build_provider_contents, engine.rs:2865,
\* existing_or_new_graph, engine.rs:2366, and execute_planned_calls, engine.rs:1347)
THEOREM ExchangesAreWhole == Spec => []ExchangesWhole
<1>1. Init => WholeInv
  <2> SUFFICES ASSUME Init PROVE WholeInv
    OBVIOUS
  <2>1. records = << >> /\ pc = "idle" /\ asks = 0
    BY DEF Init
  <2>2. \A kind : OfKind(records, kind) = {} /\ Mentioned(records, kind) = {}
    BY <2>1 DEF OfKind, Mentioned
  <2>3. Counted(records)
    <3>1. 0 \in Nat /\ 1..0 = {}
      OBVIOUS
    <3> QED BY <2>2, <3>1 DEF Counted
  <2>4. Settled(records, {}, shadowed)
    BY <2>1 DEF Settled
  <2>5. ExchangesWhole
    BY <2>1 DEF ExchangesWhole
  <2> QED BY <2>1, <2>2, <2>3, <2>4, <2>5 DEF WholeInv, Orderly, Calm
<1>2. AboutInv /\ WholeInv /\ [Next]_vars => WholeInv'
  <2> SUFFICES ASSUME AboutInv, WholeInv, [Next]_vars PROVE WholeInv'
    OBVIOUS
  <2>1. CASE UNCHANGED vars
    BY <2>1 DEF vars, driver, WholeInv, ExchangesWhole, Orderly
  <2>2. CASE Resolve
    <3>1. disturbed /\ UNCHANGED disturbed
      BY <2>2 DEF Resolve, WholeInv, Orderly
    <3> QED BY <3>1 DEF WholeInv, ExchangesWhole
  <2>3. CASE Interrupt
    <3>1. disturbed'
      BY <2>3 DEF Interrupt
    <3> QED BY <3>1 DEF WholeInv, ExchangesWhole
  <2> QED BY <2>1, <2>2, <2>3, DeliverKeepsWhole, AskKeepsWhole, FinishesKeepWhole,
             PlanKeepsWhole, RunKeepsWhole, ContinueKeepsWhole DEF Next
<1>3. WholeInv => ExchangesWhole
  BY DEF WholeInv
<1> QED BY <1>1, <1>2, <1>3, AboutHolds, PTL DEF Spec
==============================================================================
