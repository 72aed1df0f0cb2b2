------------------------ MODULE NativeSessions_proofs ------------------------
(***************************************************************************)
(* NativeProcess and Terminal, for any processes, clients, sessions,       *)
(* callers and limits: WaitIsComplete, WritesAreSerialized, BudgetExact    *)
(* and ReaderIsExact of the child processes, BufferExact of a terminal,    *)
(* and that a terminal implements CloseBarrier.                            *)
(*                                                                         *)
(* A wait succeeds when the reap and both drains are over.  That nothing   *)
(* is lost then is a fact about the pipe: nobody can write to it any more, *)
(* and the drains found it empty (DrainedInv), except when a close has cut *)
(* them short, after which no wait succeeds.  A write goes on over many    *)
(* steps while others wait for write_busy; what reaches stdin in between   *)
(* is the writer's alone (BusyInv, FedInv).  The budgets are sums over     *)
(* chunks and processes: a sum is the number of elements of a set that has *)
(* w[x] of them for each x (Units), so that what one step adds or takes    *)
(* away is the cardinality of a union.  What a client has read of a        *)
(* process is what lies before its cursor (Placed), and collect walks      *)
(* from there.  The buffer of a terminal is a sequence of pieces in the    *)
(* order of their offsets, each byte its own (Ordered), which eviction and *)
(* appending keep; a read walks over it.                                   *)
(***************************************************************************)
EXTENDS NativeProcess, Terminal, FiniteSetTheorems, SequenceTheorems, WellFoundedInduction, TLAPS

-----------------------------------------------------------------------------
(* Sums.  FoldSeq and FoldSet iterate over the subsets of a set.           *)

(* What the folds choose. *)
Chosen(s) == CHOOSE x \in s : TRUE

(* f is the iteration of a fold that adds up w over a set. *)
SumsUp(f, w, S) ==
  f = [s \in SUBSET S |-> IF s = {} THEN 0 ELSE w[Chosen(s)] + f[s \ {Chosen(s)}]]

(* A set with w[x] members for each member x of s. *)
Units(w, s) == UNION {{x} \X (1 .. w[x]) : x \in s}

(* Finite sets are well-founded: some set of T has no smaller one in T. *)
LEMMA SmallestSubset ==
  ASSUME NEW S, IsFiniteSet(S), NEW T, T \subseteq SUBSET S, T # {}
  PROVE  \E s \in T : \A u \in T : ~ (u \subseteq s /\ u # s)
<1> DEFINE R == StrictSubsetOrdering(S)
           F == FiniteSubsetsOf(S)
<1>1. IsWellFoundedOn(R, F)
  BY FS_StrictSubsetOrderingWellFounded
<1>2. T \subseteq F
  <2>1. F = SUBSET S
    BY FS_FiniteSubsetsOfFinite
  <2>2. QED
    BY <2>1
<1>3. PICK s \in T : \A u \in T : ~ (<<u, s>> \in R)
  <2> HIDE DEF R, F
  <2>1. QED
    BY <1>1, <1>2, WFMin
<1>4. \A u \in T : ~ (u \subseteq s /\ u # s)
  BY <1>3 DEF StrictSubsetOrdering
<1>5. QED
  BY <1>3, <1>4

(* The units of one member are apart from the units of the others. *)
LEMMA UnitsSplit ==
  ASSUME NEW w, NEW s, NEW x \in s
  PROVE  /\ Units(w, s) = Units(w, s \ {x}) \cup ({x} \X (1 .. w[x]))
         /\ Units(w, s \ {x}) \cap ({x} \X (1 .. w[x])) = {}
<1>1. \A z : z \in Units(w, s) <=> \E y \in s : z \in {y} \X (1 .. w[y])
  BY DEF Units
<1>2. \A z : z \in Units(w, s \ {x}) <=> \E y \in s \ {x} : z \in {y} \X (1 .. w[y])
  BY DEF Units
<1>3. Units(w, s) = Units(w, s \ {x}) \cup ({x} \X (1 .. w[x]))
  BY <1>1, <1>2
<1>4. \A y : \A z \in {y} \X (1 .. w[y]) : z[1] = y
  OBVIOUS
<1>5. QED
  BY <1>2, <1>3, <1>4

(* One member counts for its weight. *)
LEMMA UnitsCount ==
  ASSUME NEW w, NEW s, NEW x \in s, w[x] \in Nat, IsFiniteSet(Units(w, s \ {x}))
  PROVE  /\ IsFiniteSet(Units(w, s))
         /\ Cardinality(Units(w, s)) = w[x] + Cardinality(Units(w, s \ {x}))
<1> DEFINE A == Units(w, s \ {x})
           B == {x} \X (1 .. w[x])
<1>1. IsFiniteSet(B) /\ Cardinality(B) = w[x]
  <2>1. IsFiniteSet({x}) /\ Cardinality({x}) = 1
    BY FS_Singleton
  <2>2. IsFiniteSet(1 .. w[x]) /\ Cardinality(1 .. w[x]) = w[x]
    BY FS_Interval
  <2>3. IsFiniteSet(B) /\ Cardinality(B) = Cardinality({x}) * Cardinality(1 .. w[x])
    BY <2>1, <2>2, FS_Product
  <2>4. QED
    BY <2>1, <2>2, <2>3
<1>2. Units(w, s) = A \cup B /\ A \cap B = {}
  BY UnitsSplit
<1>3. Cardinality({}) = 0 /\ Cardinality(A) \in Nat
  BY FS_EmptySet, FS_CardinalityType
<1> HIDE DEF A, B
<1>4. IsFiniteSet(A \cup B) /\ Cardinality(A \cup B) = Cardinality(A) + Cardinality(B) - Cardinality(A \cap B)
  <2>1. IsFiniteSet(A)
    BY DEF A
  <2>2. QED
    BY <1>1, <2>1, FS_Union
<1>5. /\ IsFiniteSet(Units(w, s))
      /\ Cardinality(Units(w, s)) = w[x] + Cardinality(A)
  <2>1. Cardinality(A \cap B) = 0
    BY <1>2, <1>3
  <2>2. Cardinality(A \cup B) = Cardinality(A) + w[x] - 0
    BY <1>1, <1>4, <2>1
  <2>3. IsFiniteSet(Units(w, s)) /\ Cardinality(Units(w, s)) = Cardinality(A \cup B)
    BY <1>2, <1>4
  <2>4. QED
    BY <1>3, <2>2, <2>3
<1>6. QED
  BY <1>5 DEF A

(* There are finitely many units. *)
LEMMA UnitsFinite ==
  ASSUME NEW S, IsFiniteSet(S), NEW w, \A x \in S : w[x] \in Nat
  PROVE  \A s \in SUBSET S : IsFiniteSet(Units(w, s)) /\ Cardinality(Units(w, s)) \in Nat
<1> DEFINE T == {s \in SUBSET S : ~ IsFiniteSet(Units(w, s))}
<1>1. T = {}
  <2>1. SUFFICES ASSUME T # {} PROVE FALSE
    OBVIOUS
  <2>2. PICK s \in T : \A u \in T : ~ (u \subseteq s /\ u # s)
    <3>1. T \subseteq SUBSET S
      OBVIOUS
    <3> HIDE DEF T
    <3>2. QED
      BY <2>1, <3>1, SmallestSubset
  <2>3. Units(w, {}) = {}
    BY DEF Units
  <2>4. s # {}
    BY <2>3, FS_EmptySet
  <2>5. PICK x : x \in s
    BY <2>4
  <2>6. IsFiniteSet(Units(w, s \ {x}))
    BY <2>2, <2>5
  <2>7. IsFiniteSet(Units(w, s))
    BY <2>5, <2>6, UnitsCount
  <2>8. QED
    BY <2>7
<1>2. QED
  BY <1>1, FS_CardinalityType

(* The iteration of a fold that adds up w counts the units. *)
LEMMA FoldCounts ==
  ASSUME NEW S, IsFiniteSet(S), NEW w, \A x \in S : w[x] \in Nat,
         NEW f, SumsUp(f, w, S)
  PROVE  f[S] = Cardinality(Units(w, S))
<1> DEFINE T == {s \in SUBSET S : f[s] # Cardinality(Units(w, s))}
<1>1. T = {}
  <2>1. SUFFICES ASSUME T # {} PROVE FALSE
    OBVIOUS
  <2>2. PICK s \in T : \A u \in T : ~ (u \subseteq s /\ u # s)
    <3>1. T \subseteq SUBSET S
      OBVIOUS
    <3> HIDE DEF T
    <3>2. QED
      BY <2>1, <3>1, SmallestSubset
  <2>3. Units(w, {}) = {} /\ Cardinality({}) = 0
    BY FS_EmptySet DEF Units
  <2>4. s # {}
    <3>1. f[{}] = 0
      BY DEF SumsUp
    <3>2. QED
      BY <2>3, <3>1
  <2> DEFINE x == Chosen(s)
  <2>5. x \in s
    BY <2>4 DEF Chosen
  <2>6. f[s] = w[x] + f[s \ {x}]
    BY <2>4 DEF SumsUp
  <2> HIDE DEF x
  <2>7. f[s \ {x}] = Cardinality(Units(w, s \ {x}))
    BY <2>2, <2>5
  <2>8. IsFiniteSet(Units(w, s \ {x}))
    BY UnitsFinite
  <2>9. Cardinality(Units(w, s)) = w[x] + Cardinality(Units(w, s \ {x}))
    <3>1. w[x] \in Nat
      BY <2>5
    <3>2. QED
      BY <2>5, <2>8, <3>1, UnitsCount
  <2>10. QED
    BY <2>6, <2>7, <2>9
<1>2. QED
  BY <1>1

(* Every partial sum is a number. *)
LEMMA FoldNat ==
  ASSUME NEW S, IsFiniteSet(S), NEW w, \A x \in S : w[x] \in Nat,
         NEW f, SumsUp(f, w, S)
  PROVE  \A s \in SUBSET S : f[s] \in Nat
<1> SUFFICES ASSUME NEW s \in SUBSET S PROVE f[s] \in Nat
  OBVIOUS
<1> DEFINE g == [u \in SUBSET s |-> f[u]]
<1>1. IsFiniteSet(s) /\ \A x \in s : w[x] \in Nat
  BY FS_Subset
<1>2. g = [u \in SUBSET s |-> IF u = {} THEN 0 ELSE w[Chosen(u)] + g[u \ {Chosen(u)}]]
  BY DEF SumsUp
<1>3. SumsUp(g, w, s)
  BY <1>2 DEF SumsUp
<1>4. g[s] = f[s]
  OBVIOUS
<1> HIDE DEF g
<1>5. g[s] = Cardinality(Units(w, s))
  BY <1>1, <1>3, FoldCounts
<1>6. QED
  BY <1>1, <1>4, <1>5, UnitsFinite

(* The iteration that the fold chooses exists. *)
LEMMA FoldExists ==
  ASSUME NEW S, IsFiniteSet(S), NEW w, \A x \in S : w[x] \in Nat
  PROVE  \E f : SumsUp(f, w, S)
<1> DEFINE g == [s \in SUBSET S |-> Cardinality(Units(w, s))]
<1>1. ASSUME NEW s \in SUBSET S
      PROVE  g[s] = IF s = {} THEN 0 ELSE w[Chosen(s)] + g[s \ {Chosen(s)}]
  <2>1. CASE s = {}
    <3>1. Units(w, {}) = {} /\ Cardinality({}) = 0
      BY FS_EmptySet DEF Units
    <3>2. QED
      BY <2>1, <3>1
  <2>2. CASE s # {}
    <3> DEFINE x == Chosen(s)
    <3>1. x \in s
      BY <2>2 DEF Chosen
    <3>2. IsFiniteSet(Units(w, s \ {x}))
      BY UnitsFinite
    <3> HIDE DEF x
    <3>3. Cardinality(Units(w, s)) = w[x] + Cardinality(Units(w, s \ {x}))
      BY <3>1, <3>2, UnitsCount
    <3>4. QED
      BY <2>2, <3>3 DEF x
  <2>3. QED
    BY <2>1, <2>2
<1>2. g = [s \in SUBSET S |-> IF s = {} THEN 0 ELSE w[Chosen(s)] + g[s \ {Chosen(s)}]]
  BY <1>1
<1>3. QED
  BY <1>2 DEF SumsUp

(* The total of a sequence of numbers. *)
Total(w) == Cardinality(Units(w, DOMAIN w))

LEMMA TotalEmpty == Total(<<>>) = 0
<1>1. Units(<<>>, DOMAIN <<>>) = {}
  BY DEF Units
<1>2. QED
  BY <1>1, FS_EmptySet DEF Total

(* A total is a number. *)
LEMMA TotalNat ==
  ASSUME NEW w \in Seq(Nat)
  PROVE  Total(w) \in Nat /\ IsFiniteSet(Units(w, DOMAIN w))
<1> DEFINE S == DOMAIN w
<1>1. S = 1 .. Len(w) /\ Len(w) \in Nat /\ \A i \in S : w[i] \in Nat
  OBVIOUS
<1>2. IsFiniteSet(S)
  BY <1>1, FS_Interval
<1> HIDE DEF S
<1>3. IsFiniteSet(Units(w, S)) /\ Cardinality(Units(w, S)) \in Nat
  BY <1>1, <1>2, UnitsFinite
<1>4. QED
  BY <1>3 DEF S, Total

(* One more number. *)
LEMMA TotalAppend ==
  ASSUME NEW w \in Seq(Nat), NEW n \in Nat
  PROVE  Total(Append(w, n)) = Total(w) + n
<1> DEFINE v == Append(w, n)
           x == Len(w) + 1
<1>1. /\ v \in Seq(Nat) /\ Len(v) = x /\ v[x] = n /\ \A i \in 1 .. Len(w) : v[i] = w[i]
      /\ DOMAIN w = 1 .. Len(w) /\ DOMAIN v = 1 .. x /\ Len(w) \in Nat
  BY AppendProperties
<1> HIDE DEF v
<1>2. (DOMAIN v) \ {x} = DOMAIN w /\ x \in DOMAIN v
  BY <1>1
<1>3. Units(v, DOMAIN w) = Units(w, DOMAIN w)
  BY <1>1 DEF Units
<1>4. IsFiniteSet(Units(w, DOMAIN w)) /\ Total(w) \in Nat
  BY TotalNat
<1>5. Cardinality(Units(v, DOMAIN v)) = v[x] + Cardinality(Units(v, (DOMAIN v) \ {x}))
  <2>1. v[x] \in Nat /\ IsFiniteSet(Units(v, (DOMAIN v) \ {x}))
    BY <1>1, <1>2, <1>3, <1>4
  <2>2. QED
    BY <1>2, <2>1, UnitsCount
<1>6. Total(v) = n + Total(w)
  BY <1>1, <1>2, <1>3, <1>5 DEF Total
<1>7. QED
  BY <1>4, <1>6 DEF v

(* The least number of a set of numbers. *)
LEMMA LeastNumber ==
  ASSUME NEW T, T \subseteq Nat, T # {}
  PROVE  \E n \in T : \A m \in T : n <= m
<1> DEFINE R == OpToRel(<, Nat)
<1>1. IsWellFoundedOn(R, Nat)
  BY NatLessThanWellFounded
<1>2. PICK n \in T : \A m \in T : ~ (<<m, n>> \in R)
  <2> HIDE DEF R
  <2>1. QED
    BY <1>1, WFMin
<1>3. \A m \in T : ~ (m < n)
  BY <1>2 DEF OpToRel
<1>4. QED
  BY <1>3

(* The total of two sequences, one after the other. *)
LEMMA TotalConcat ==
  ASSUME NEW w \in Seq(Nat), NEW v \in Seq(Nat)
  PROVE  Total(w \o v) = Total(w) + Total(v)
<1> DEFINE Wrong(k) == \E u \in Seq(Nat) : Len(u) = k /\ Total(w \o u) # Total(w) + Total(u)
           T == {k \in Nat : Wrong(k)}
<1>1. T = {}
  <2>1. SUFFICES ASSUME T # {} PROVE FALSE
    OBVIOUS
  <2>2. PICK k \in T : \A m \in T : k <= m
    <3>1. T \subseteq Nat
      OBVIOUS
    <3> HIDE DEF T
    <3>2. QED
      BY <2>1, <3>1, LeastNumber
  <2>3. PICK u \in Seq(Nat) : Len(u) = k /\ Total(w \o u) # Total(w) + Total(u)
    OBVIOUS
  <2>4. u # <<>>
    <3>1. w \o <<>> = w
      BY ConcatEmptySeq
    <3>2. Total(w) \in Nat
      BY TotalNat
    <3>3. Total(w \o <<>>) = Total(w) + Total(<<>>)
      BY <3>1, <3>2, TotalEmpty
    <3>4. QED
      BY <2>3, <3>3
  <2>5. PICK s \in Seq(Nat), n \in Nat : u = Append(s, n)
    BY <2>4, SequenceEmptyOrAppend
  <2>6. Len(s) \in Nat /\ Len(s) < k
    BY <2>3, <2>5
  <2>7. Total(w \o s) = Total(w) + Total(s)
    BY <2>2, <2>6
  <2>8. w \o u = Append(w \o s, n) /\ w \o s \in Seq(Nat)
    BY <2>5
  <2>9. Total(w \o u) = Total(w \o s) + n /\ Total(u) = Total(s) + n
    BY <2>5, <2>8, TotalAppend
  <2>10. Total(w) \in Nat /\ Total(s) \in Nat
    BY TotalNat
  <2>11. QED
    BY <2>3, <2>7, <2>9, <2>10
<1>2. ~ Wrong(Len(v))
  <2>1. Len(v) \in Nat
    OBVIOUS
  <2> HIDE DEF Wrong
  <2>2. QED
    BY <1>1, <2>1
<1>3. QED
  BY <1>2

-----------------------------------------------------------------------------
(* The recursive function that walks the chunks is defined.                *)

(* n steps from a, the k-th of them by F[k]. *)
IsWalk(e, a, F, n) == e = [k \in 0 .. n |-> IF k = 0 THEN a ELSE F[k][e[k - 1]]]

(* There is a walk of every length. *)
LEMMA WalkExists ==
  ASSUME NEW N \in Nat, NEW a, NEW F
  PROVE  \A n \in 0 .. N : \E e : IsWalk(e, a, F, n)
<1> DEFINE T == {n \in 0 .. N : ~ \E e : IsWalk(e, a, F, n)}
<1>1. SUFFICES ASSUME T # {} PROVE FALSE
  OBVIOUS
<1>2. PICK n \in T : \A m \in T : n <= m
  <2>1. T \subseteq Nat
    OBVIOUS
  <2> HIDE DEF T
  <2>2. QED
    BY <1>1, <2>1, LeastNumber
<1>3. CASE n = 0
  <2> DEFINE e == [k \in 0 .. 0 |-> a]
  <2>1. e = [k \in 0 .. 0 |-> IF k = 0 THEN a ELSE F[k][e[k - 1]]]
    OBVIOUS
  <2>2. IsWalk(e, a, F, 0)
    BY <2>1 DEF IsWalk
  <2>3. QED
    BY <1>3, <2>2
<1>4. CASE n # 0
  <2>1. n - 1 \in 0 .. N /\ n - 1 \notin T /\ n \in Nat
    BY <1>2, <1>4
  <2>2. PICK d : IsWalk(d, a, F, n - 1)
    BY <2>1
  <2>3. d = [k \in 0 .. n - 1 |-> IF k = 0 THEN a ELSE F[k][d[k - 1]]]
    BY <2>2 DEF IsWalk
  <2> DEFINE e == [k \in 0 .. n |-> IF k = n THEN F[n][d[n - 1]] ELSE d[k]]
  <2>4. \A k \in 0 .. n - 1 : e[k] = d[k]
    BY <2>1
  <2>5. ASSUME NEW k \in 0 .. n
        PROVE  e[k] = IF k = 0 THEN a ELSE F[k][e[k - 1]]
    <3>1. CASE k = n
      <4>1. n - 1 \in 0 .. n - 1
        BY <1>4, <2>1
      <4>2. e[n] = F[n][d[n - 1]] /\ e[n - 1] = d[n - 1]
        BY <2>1, <2>4, <4>1
      <4>3. QED
        BY <1>4, <3>1, <4>2
    <3>2. CASE k # n
      <4>1. k \in 0 .. n - 1 /\ (k # 0 => k - 1 \in 0 .. n - 1)
        BY <2>1, <3>2
      <4>2. d[k] = IF k = 0 THEN a ELSE F[k][d[k - 1]]
        BY <2>3, <4>1
      <4>3. QED
        BY <2>4, <4>1, <4>2
    <3>3. QED
      BY <3>1, <3>2
  <2>6. e = [k \in 0 .. n |-> IF k = 0 THEN a ELSE F[k][e[k - 1]]]
    BY <2>5
  <2>7. IsWalk(e, a, F, n)
    BY <2>6 DEF IsWalk
  <2>8. QED
    BY <2>7
<1>5. QED
  BY <1>3, <1>4

(* A walk stays where its steps stay. *)
LEMMA WalkStays ==
  ASSUME NEW X, NEW n \in Nat, NEW F \in [1 .. n -> [X -> X]], NEW a \in X,
         NEW e, IsWalk(e, a, F, n)
  PROVE  \A k \in 0 .. n : e[k] \in X
<1> DEFINE T == {k \in 0 .. n : e[k] \notin X}
<1>1. SUFFICES ASSUME T # {} PROVE FALSE
  OBVIOUS
<1>2. PICK k \in T : \A j \in T : k <= j
  <2>1. T \subseteq Nat
    OBVIOUS
  <2> HIDE DEF T
  <2>2. QED
    BY <1>1, <2>1, LeastNumber
<1>3. k \in 0 .. n /\ e[k] = IF k = 0 THEN a ELSE F[k][e[k - 1]]
  BY DEF IsWalk
<1>4. CASE k = 0
  BY <1>3, <1>4
<1>5. CASE k # 0
  <2>1. k - 1 \in 0 .. n /\ k \in 1 .. n /\ ~ (k <= k - 1)
    BY <1>3, <1>5
  <2>2. e[k - 1] \in X
    BY <1>2, <2>1
  <2>3. QED
    BY <1>3, <1>5, <2>1, <2>2
<1>6. QED
  BY <1>4, <1>5

-----------------------------------------------------------------------------
(* The types.                                                              *)

Statuses == {"Created", "Running", "Closing", "Closed", "Exited", "TimedOut", "Cancelled"}
TimerStates == {"off", "armed", "due", "fired"}
HandleRec == [status : Statuses, started : BOOLEAN, closing : BOOLEAN, finished : BOOLEAN,
              exited : BOOLEAN, timedOut : BOOLEAN, cancelled : BOOLEAN, stdin : BOOLEAN,
              eof : SUBSET Streams, slot : BOOLEAN, timeout : TimerStates, grace : TimerStates]
DrainPlaces == {"none", "start", "read", "got", "abort", "done"}
ClientPlaces == {"free", "gate", "ready", "pipe", "abort", "ok", "failed"}
ClientRec == [op : Ops \cup {"none"}, p : Procs \cup {Nobody}, at : ClientPlaces, left : Int]
Counts == [Procs -> [Streams -> Nat]]

ChildStates == {"none", "alive", "zombie", "reaped"}
Descendants == {"group", "escaped"}

HandleTypes ==
  /\ h \in [Procs -> HandleRec]
  /\ made \in Counts /\ pipe \in Counts /\ wrote \in Counts
  /\ drain \in [Procs -> [Streams -> DrainPlaces]]
  /\ child \in [Procs -> ChildStates]
  /\ left \in [Procs -> SUBSET Descendants]
ClientTypes ==
  /\ busy \in [Procs -> Clients \cup {Nobody}]
  /\ pCall \in [Clients -> ClientRec]
  /\ fed \in [Procs -> Seq(Clients)]

-----------------------------------------------------------------------------
(* The inductive invariant.                                                *)

(* What a handle may be: it finishes after the reap and both drains, and a *)
(* started one is Closed only after that.                                  *)
HandleOK(s) ==
  /\ ~s.started => s.status \in {"Created", "Closed"} /\ s.eof = {} /\ ~s.finished
  /\ s.started => s.status # "Created"
  /\ s.closing <=> s.status = "Closing"
  /\ s.status = "Closing" => ~s.finished
  /\ s.status = "Closed" => ~s.started \/ s.finished
  /\ s.finished => s.started /\ s.eof = Streams

(* close or dispose has cut the drains short. *)
Cut(s) == s.closing \/ s.status = "Closed"

(* Nobody holds the pipe, and it is empty. *)
Dry(p, s) == ~Holders(p) /\ pipe[p][s] = 0

(* What was written is in the pipe or was produced, and a drain that has   *)
(* ended found the pipe dry, unless it was cut short.                      *)
DrainedInv(p) ==
  /\ HandleOK(h[p]) /\ (h[p].started <=> child[p] # "none")
  /\ ~h[p].started => left[p] = {} /\ \A s \in Streams : drain[p][s] = "none"
  /\ \A s \in Streams :
       /\ made[p][s] + pipe[p][s] = wrote[p][s]
       /\ s \in h[p].eof <=> drain[p][s] = "done"
       /\ drain[p][s] = "none" => ~h[p].started
       /\ drain[p][s] \in {"abort", "done"} => Cut(h[p]) \/ Dry(p, s)

AtPipe(c) == pCall[c].at \in {"pipe", "abort"}

(* A client that calls has a process, and one that is at the pipe writes. *)
ClientInv ==
  \A c \in Clients :
    /\ pCall[c].at # "free" => pCall[c].p \in Procs
    /\ AtPipe(c) => pCall[c].op # "wait"

(* The process of a wait that succeeded has nothing more to say. *)
WaitedInv ==
  \A c \in Clients : pCall[c].op = "wait" /\ pCall[c].at = "ok" =>
    \A s \in Streams : drain[pCall[c].p][s] = "done" /\ Dry(pCall[c].p, s)

(* write_busy has the writer, and what it fed is the end of what was fed.  *)
BusyInv ==
  /\ \A c \in Clients : AtPipe(c) => busy[pCall[c].p] = c
  /\ \A p \in Procs : busy[p] # Nobody => AtPipe(busy[p]) /\ pCall[busy[p]].p = p
FedInv ==
  \A p \in Procs : \A i \in DOMAIN fed[p] :
    LET c == fed[p][i] IN
    /\ pCall[c].p = p /\ pCall[c].at \in {"pipe", "abort", "ok", "failed"}
    /\ AtPipe(c) => fed[p][Len(fed[p])] = c

CallsInv ==
  ClientTypes /\ ClientInv /\ WaitedInv /\ BusyInv /\ FedInv /\ WritesAreSerialized
ProcessInv ==
  HandleTypes /\ (\A p \in Procs : DrainedInv(p)) /\ CallsInv

-----------------------------------------------------------------------------
(* The handle.                                                             *)

LEMMA TryFinishKeeps ==
  ASSUME NEW s \in HandleRec, HandleOK(s), s.started
  PROVE  LET t == TryFinish(s) IN
         /\ t \in HandleRec /\ HandleOK(t) /\ t.started /\ t.eof = s.eof /\ (Cut(s) => Cut(t))
<1> DEFINE f == [s EXCEPT !.finished = TRUE, !.stdin = FALSE, !.slot = FALSE,
                          !.timeout = Off(@), !.grace = Off(@)]
           status == IF s.timedOut THEN "TimedOut" ELSE IF s.cancelled THEN "Cancelled" ELSE "Exited"
           t == TryFinish(s)
<1>1. CASE s.finished \/ ~s.exited \/ s.eof # Streams
  <2>1. t = s
    BY <1>1 DEF TryFinish
  <2> QED BY <2>1
<1>2. CASE ~(s.finished \/ ~s.exited \/ s.eof # Streams)
  <2>1. Off(s.timeout) \in TimerStates /\ Off(s.grace) \in TimerStates
    BY DEF Off, TimerStates
  <2>2. /\ f \in HandleRec /\ f.finished /\ f.started /\ f.eof = s.eof /\ f.closing = s.closing /\ f.status = s.status
    BY <2>1 DEF HandleRec
  <2>3. t = IF s.closing THEN FinalizedProcess(f) ELSE [f EXCEPT !.status = status]
    BY <1>2 DEF TryFinish
  <2> HIDE DEF f
  <2>4. CASE s.closing
    <3>1. t = [f EXCEPT !.status = "Closed", !.closing = FALSE, !.slot = FALSE]
      BY <2>3, <2>4 DEF FinalizedProcess
    <3> HIDE DEF t
    <3>2. t \in HandleRec /\ t.status = "Closed" /\ ~t.closing /\ t.finished /\ t.started /\ t.eof = s.eof
      BY <2>2, <3>1 DEF HandleRec, Statuses
    <3> QED BY <1>2, <3>2 DEF HandleOK, Cut, t
  <2>5. CASE ~s.closing
    <3>1. t = [f EXCEPT !.status = status] /\ status \in {"TimedOut", "Cancelled", "Exited"}
      BY <2>3, <2>5
    <3> HIDE DEF t, status
    <3>2. t \in HandleRec /\ t.status = status /\ ~t.closing /\ t.finished /\ t.started /\ t.eof = s.eof
      BY <2>2, <2>5, <3>1 DEF HandleRec, Statuses
    <3>3. ~Cut(s)
      BY <1>2, <2>5 DEF HandleOK, Cut
    <3> QED BY <1>2, <3>1, <3>2, <3>3 DEF HandleOK, Cut, t
  <2> QED BY <2>4, <2>5
<1> QED BY <1>1, <1>2

LEMMA ExitedKeeps ==
  ASSUME NEW s \in HandleRec, HandleOK(s), s.started
  PROVE  LET t == Exited(s) IN
         /\ t \in HandleRec /\ HandleOK(t) /\ t.started /\ t.eof = s.eof /\ (Cut(s) => Cut(t))
<1> DEFINE e == [s EXCEPT !.exited = TRUE, !.stdin = FALSE, !.timeout = Off(@)]
<1>1. CASE s.exited
  BY <1>1 DEF Exited
<1>2. CASE ~s.exited
  <2>1. Off(s.timeout) \in TimerStates
    BY DEF Off, TimerStates
  <2>2. /\ e \in HandleRec /\ e.started = s.started /\ e.eof = s.eof /\ e.closing = s.closing
        /\ e.status = s.status /\ e.finished = s.finished
    BY <2>1 DEF HandleRec
  <2>3. Exited(s) = TryFinish(e)
    BY <1>2 DEF Exited
  <2> HIDE DEF e
  <2>4. HandleOK(e) /\ (Cut(s) => Cut(e))
    BY <2>2 DEF HandleOK, Cut
  <2> QED BY <2>2, <2>3, <2>4, TryFinishKeeps
<1> QED BY <1>1, <1>2

LEMMA FinalizedKeeps ==
  ASSUME NEW s \in HandleRec, HandleOK(s), s.finished
  PROVE  LET t == FinalizedProcess(s) IN
         /\ t \in HandleRec /\ HandleOK(t) /\ t.started /\ s.started /\ t.eof = s.eof /\ Cut(t)
<1> DEFINE t == FinalizedProcess(s)
<1>1. t = [s EXCEPT !.status = "Closed", !.closing = FALSE, !.slot = FALSE]
  BY DEF FinalizedProcess
<1>2. s.started /\ s.eof = Streams
  BY DEF HandleOK
<1> HIDE DEF t
<1>3. t \in HandleRec /\ t.status = "Closed" /\ ~t.closing /\ t.finished /\ t.started /\ t.eof = s.eof
  BY <1>1, <1>2 DEF HandleRec, Statuses
<1> QED BY <1>2, <1>3 DEF HandleOK, Cut, t

LEMMA ClosingKeeps ==
  ASSUME NEW s \in HandleRec, HandleOK(s)
  PROVE  LET t == Closing(s) IN
         /\ t \in HandleRec /\ HandleOK(t) /\ t.started = s.started /\ t.eof = s.eof /\ Cut(t)
<1> DEFINE t == Closing(s)
<1>1. CASE s.status = "Closed"
  <2>1. t = s
    BY <1>1 DEF Closing
  <2> HIDE DEF t
  <2> QED BY <1>1, <2>1 DEF Cut, t
<1>2. CASE s.status # "Closed" /\ ~s.started
  <2>1. t = [s EXCEPT !.status = "Closed", !.closing = FALSE]
    BY <1>2 DEF Closing
  <2> HIDE DEF t
  <2>2. t \in HandleRec /\ t.status = "Closed" /\ ~t.closing /\ t.finished = s.finished /\ t.started = s.started /\ t.eof = s.eof
    BY <2>1 DEF HandleRec, Statuses
  <2> QED BY <1>2, <2>2 DEF HandleOK, Cut, t
<1>3. CASE s.status # "Closed" /\ s.started
  <2> DEFINE k == [s EXCEPT !.closing = TRUE, !.status = "Closing", !.cancelled = TRUE, !.stdin = FALSE,
                            !.timeout = Off(@), !.grace = Off(@)]
  <2>1. Off(s.timeout) \in TimerStates /\ Off(s.grace) \in TimerStates
    BY DEF Off, TimerStates
  <2>2. /\ k \in HandleRec /\ k.closing /\ k.status = "Closing" /\ k.finished = s.finished
        /\ k.started /\ k.eof = s.eof
    BY <1>3, <2>1 DEF HandleRec, Statuses
  <2>3. t = IF s.finished THEN FinalizedProcess(k) ELSE k
    BY <1>3 DEF Closing
  <2> HIDE DEF k
  <2>4. CASE ~s.finished
    BY <1>3, <2>2, <2>3, <2>4 DEF HandleOK, Cut
  <2>5. CASE s.finished
    <3>1. t = [k EXCEPT !.status = "Closed", !.closing = FALSE, !.slot = FALSE] /\ s.eof = Streams
      BY <2>3, <2>5 DEF FinalizedProcess, HandleOK
    <3> HIDE DEF t
    <3>2. t \in HandleRec /\ t.status = "Closed" /\ ~t.closing /\ t.finished /\ t.started /\ t.eof = s.eof
      BY <2>2, <2>5, <3>1 DEF HandleRec, Statuses
    <3> QED BY <1>3, <3>1, <3>2 DEF HandleOK, Cut, t
  <2> QED BY <2>4, <2>5
<1> QED BY <1>1, <1>2, <1>3

-----------------------------------------------------------------------------
(* One process changes at a time.                                          *)

SameProcess(q) ==
  /\ h'[q] = h[q] /\ child'[q] = child[q] /\ left'[q] = left[q] /\ drain'[q] = drain[q]
  /\ made'[q] = made[q] /\ pipe'[q] = pipe[q] /\ wrote'[q] = wrote[q]

(* What a wait has returned stays true. *)
StaysDry(p) ==
  \A s \in Streams : drain[p][s] = "done" /\ Dry(p, s) => drain'[p][s] = "done" /\ Dry(p, s)'

ProcessesKept == \A p \in Procs : DrainedInv(p)' /\ StaysDry(p)

LEMMA SameKept ==
  ASSUME NEW q, SameProcess(q), DrainedInv(q)
  PROVE  DrainedInv(q)' /\ StaysDry(q)
<1>1. /\ h'[q] = h[q] /\ child'[q] = child[q] /\ left'[q] = left[q] /\ drain'[q] = drain[q]
      /\ made'[q] = made[q] /\ pipe'[q] = pipe[q] /\ wrote'[q] = wrote[q]
  BY DEF SameProcess
<1>2. \A s : Dry(q, s)' <=> Dry(q, s)
  BY <1>1 DEF Dry, Holders
<1>3. StaysDry(q)
  BY <1>1, <1>2 DEF StaysDry
<1>4. HandleOK(h[q])' /\ (Cut(h[q])' <=> Cut(h[q]))
  BY <1>1 DEF DrainedInv, HandleOK, Cut
<1>5. DrainedInv(q)'
  BY <1>1, <1>2, <1>4 DEF DrainedInv
<1> QED BY <1>3, <1>5

LEMMA OneProcess ==
  ASSUME \A p \in Procs : DrainedInv(p), NEW p \in Procs, \A q \in Procs \ {p} : SameProcess(q),
         DrainedInv(p)', StaysDry(p)
  PROVE  ProcessesKept
<1>1. ASSUME NEW q \in Procs PROVE DrainedInv(q)' /\ StaysDry(q)
  BY SameKept
<1> QED BY <1>1 DEF ProcessesKept

-----------------------------------------------------------------------------
(* The steps of a process and of its child.                                *)

LEMMA HandlesUntouched ==
  ASSUME HandleTypes, \A p \in Procs : DrainedInv(p),
         UNCHANGED <<h, child, left, drain, made, pipe, wrote>>
  PROVE  HandleTypes' /\ ProcessesKept
<1>1. HandleTypes'
  BY DEF HandleTypes
<1>2. ASSUME NEW q \in Procs PROVE DrainedInv(q)' /\ StaysDry(q)
  <2>1. SameProcess(q)
    BY DEF SameProcess
  <2> QED BY <2>1, SameKept
<1> QED BY <1>1, <1>2 DEF ProcessesKept

(* A step that moves no bytes: the handle goes on from s to t, the child   *)
(* and its descendants may die, and reads are aborted only by a close.     *)
LEMMA QuietStep ==
  ASSUME HandleTypes, \A q \in Procs : DrainedInv(q), NEW p \in Procs,
         NEW t \in HandleRec, HandleOK(t), t.started = h[p].started, t.eof = h[p].eof,
         Cut(h[p]) => Cut(t), h' = [h EXCEPT ![p] = t],
         NEW k \in ChildStates, child' = [child EXCEPT ![p] = k],
         k = "none" <=> child[p] = "none", k = "alive" => child[p] = "alive",
         NEW l, l \subseteq left[p], left' = [left EXCEPT ![p] = l],
         NEW d \in [Streams -> DrainPlaces], drain' = [drain EXCEPT ![p] = d],
         \A s \in Streams : d[s] = drain[p][s] \/ (drain[p][s] = "read" /\ d[s] = "abort" /\ Cut(t)),
         UNCHANGED <<made, pipe, wrote>>
  PROVE  HandleTypes' /\ ProcessesKept
<1>1. HandleTypes'
  BY DEF HandleTypes
<1>2. /\ h'[p] = t /\ child'[p] = k /\ left'[p] = l /\ drain'[p] = d
      /\ made'[p] = made[p] /\ pipe'[p] = pipe[p] /\ wrote'[p] = wrote[p]
  BY DEF HandleTypes
<1>3. \A q \in Procs \ {p} : SameProcess(q)
  BY DEF HandleTypes, SameProcess
<1>4. \A s \in Streams : Dry(p, s) => Dry(p, s)'
  BY <1>2 DEF Dry, Holders
<1>5. StaysDry(p)
  BY <1>2, <1>4 DEF StaysDry
<1>6. DrainedInv(p)
  OBVIOUS
<1>7. DrainedInv(p)'
  <2>1. HandleOK(h[p])' /\ (h'[p].started <=> child'[p] # "none")
    BY <1>2, <1>6 DEF DrainedInv, HandleOK
  <2>2. ~h'[p].started => left'[p] = {} /\ \A s \in Streams : drain'[p][s] = "none"
    BY <1>2, <1>6 DEF DrainedInv
  <2>3. ASSUME NEW s \in Streams
        PROVE  /\ made'[p][s] + pipe'[p][s] = wrote'[p][s]
               /\ s \in h'[p].eof <=> drain'[p][s] = "done"
               /\ drain'[p][s] = "none" => ~h'[p].started
               /\ drain'[p][s] \in {"abort", "done"} => Cut(h[p])' \/ Dry(p, s)'
    <3>1. Cut(h[p])' <=> Cut(t)
      BY <1>2 DEF Cut
    <3>2. /\ made[p][s] + pipe[p][s] = wrote[p][s]
          /\ s \in h[p].eof <=> drain[p][s] = "done"
          /\ drain[p][s] = "none" => ~h[p].started
          /\ drain[p][s] \in {"abort", "done"} => Cut(h[p]) \/ Dry(p, s)
      BY <1>6 DEF DrainedInv
    <3>3. d[s] = drain[p][s] \/ (drain[p][s] = "read" /\ d[s] = "abort" /\ Cut(t))
      OBVIOUS
    <3>4. d[s] \in {"abort", "done"} => Cut(t) \/ Dry(p, s)'
      BY <1>4, <3>2, <3>3
    <3> QED BY <1>2, <3>1, <3>2, <3>3, <3>4
  <2> QED BY <2>1, <2>2, <2>3 DEF DrainedInv
<1> QED BY <1>1, <1>3, <1>5, <1>7, OneProcess

(* The same when the drains are left alone. *)
LEMMA QuietHandle ==
  ASSUME HandleTypes, \A q \in Procs : DrainedInv(q), NEW p \in Procs,
         NEW t \in HandleRec, HandleOK(t), t.started = h[p].started, t.eof = h[p].eof,
         Cut(h[p]) => Cut(t), h' = [h EXCEPT ![p] = t],
         NEW k \in ChildStates, child' = [child EXCEPT ![p] = k],
         k = "none" <=> child[p] = "none", k = "alive" => child[p] = "alive",
         NEW l, l \subseteq left[p], left' = [left EXCEPT ![p] = l],
         UNCHANGED <<drain, made, pipe, wrote>>
  PROVE  HandleTypes' /\ ProcessesKept
<1>1. drain' = [drain EXCEPT ![p] = drain[p]] /\ drain[p] \in [Streams -> DrainPlaces]
  BY DEF HandleTypes
<1> QED BY <1>1, QuietStep

LEMMA KillOrSpare ==
  ASSUME HandleTypes, NEW p \in Procs, KillGroup(p) \/ UNCHANGED <<child, left>>
  PROVE  \E k \in ChildStates, l \in SUBSET left[p] :
           /\ child' = [child EXCEPT ![p] = k] /\ left' = [left EXCEPT ![p] = l]
           /\ k = "none" <=> child[p] = "none"
           /\ k = "alive" => child[p] = "alive"
<1>1. CASE KillGroup(p)
  <2> DEFINE k == IF child[p] = "alive" THEN "zombie" ELSE child[p]
             l == left[p] \ {"group"}
  <2>1. child' = [child EXCEPT ![p] = k] /\ left' = [left EXCEPT ![p] = l]
    BY <1>1 DEF KillGroup
  <2>2. k \in ChildStates /\ l \in SUBSET left[p] /\ (k = "none" <=> child[p] = "none") /\ k # "alive"
    BY DEF HandleTypes, ChildStates
  <2> QED BY <2>1, <2>2
<1>2. CASE UNCHANGED <<child, left>>
  <2>1. child' = [child EXCEPT ![p] = child[p]] /\ left' = [left EXCEPT ![p] = left[p]]
    BY <1>2 DEF HandleTypes
  <2>2. child[p] \in ChildStates /\ left[p] \in SUBSET left[p]
    BY DEF HandleTypes
  <2> QED BY <2>1, <2>2
<1> QED BY <1>1, <1>2

(* A timer: of the handle only what HandleOK does not look at changes. *)
SameRun(s, t) ==
  /\ t.status = s.status /\ t.started = s.started /\ t.closing = s.closing
  /\ t.finished = s.finished /\ t.eof = s.eof

LEMMA SameRunKeeps ==
  ASSUME NEW s, HandleOK(s), NEW t, SameRun(s, t)
  PROVE  HandleOK(t) /\ (Cut(s) => Cut(t))
BY DEF SameRun, HandleOK, Cut

LEMMA TimerStep ==
  ASSUME HandleTypes, \A q \in Procs : DrainedInv(q), NEW p \in Procs,
         NEW t \in HandleRec, SameRun(h[p], t), h' = [h EXCEPT ![p] = t],
         KillGroup(p) \/ UNCHANGED <<child, left>>, UNCHANGED <<drain, made, pipe, wrote>>
  PROVE  HandleTypes' /\ ProcessesKept
<1>1. HandleOK(t) /\ (Cut(h[p]) => Cut(t))
  BY SameRunKeeps DEF DrainedInv
<1>2. t.started = h[p].started /\ t.eof = h[p].eof
  BY DEF SameRun
<1>3. PICK k \in ChildStates, l \in SUBSET left[p] :
           /\ child' = [child EXCEPT ![p] = k] /\ left' = [left EXCEPT ![p] = l]
           /\ k = "none" <=> child[p] = "none"
           /\ k = "alive" => child[p] = "alive"
  BY KillOrSpare
<1> QED BY <1>1, <1>2, <1>3, QuietHandle

(* Each of them in turn. *)
LEMMA TimersKeep ==
  ASSUME HandleTypes, \A q \in Procs : DrainedInv(q), NEW p \in Procs,
         Timers(p) \/ \E sig \in {"SIGTERM", "SIGKILL"} : Terminate(p, sig)
  PROVE  HandleTypes' /\ ProcessesKept
<1>0. h[p] \in HandleRec
  BY DEF HandleTypes
<1>1. CASE TimerExpires(p)
  <2>1. UNCHANGED <<child, left, drain, made, pipe, wrote>>
    BY <1>1 DEF TimerExpires, processKernel
  <2>2. CASE h' = [h EXCEPT ![p].timeout = "due"]
    <3> DEFINE t == [h[p] EXCEPT !.timeout = "due"]
    <3>1. t \in HandleRec /\ SameRun(h[p], t)
      BY <1>0 DEF HandleRec, TimerStates, SameRun
    <3>2. h' = [h EXCEPT ![p] = t]
      BY <2>2
    <3> HIDE DEF t
    <3> QED BY <2>1, <3>1, <3>2, TimerStep
  <2>3. CASE h' = [h EXCEPT ![p].grace = "due"]
    <3> DEFINE t == [h[p] EXCEPT !.grace = "due"]
    <3>1. t \in HandleRec /\ SameRun(h[p], t)
      BY <1>0 DEF HandleRec, TimerStates, SameRun
    <3>2. h' = [h EXCEPT ![p] = t]
      BY <2>3
    <3> HIDE DEF t
    <3> QED BY <2>1, <3>1, <3>2, TimerStep
  <2> QED BY <1>1, <2>2, <2>3 DEF TimerExpires
<1>2. CASE TimeoutFires(p)
  <2> DEFINE late == h[p].finished \/ h[p].exited \/ h[p].status = "Closed"
             b == h[p].timedOut \/ ~late
             t == [h[p] EXCEPT !.timeout = "off", !.timedOut = b]
  <2>1. b \in BOOLEAN
    BY <1>0 DEF HandleRec
  <2>2. h' = [h EXCEPT ![p] = t] /\ (KillGroup(p) \/ UNCHANGED <<child, left>>)
        /\ UNCHANGED <<drain, made, pipe, wrote>>
    BY <1>2 DEF TimeoutFires
  <2> HIDE DEF b
  <2>3. t \in HandleRec /\ SameRun(h[p], t)
    BY <1>0, <2>1 DEF HandleRec, TimerStates, SameRun
  <2> HIDE DEF t
  <2> QED BY <2>2, <2>3, TimerStep
<1>3. CASE GraceFires(p)
  <2> DEFINE t == [h[p] EXCEPT !.grace = "fired"]
  <2>1. h' = [h EXCEPT ![p] = t] /\ (KillGroup(p) \/ UNCHANGED <<child, left>>)
        /\ UNCHANGED <<drain, made, pipe, wrote>>
    BY <1>3 DEF GraceFires
  <2>2. t \in HandleRec /\ SameRun(h[p], t)
    BY <1>0 DEF HandleRec, TimerStates, SameRun
  <2> HIDE DEF t
  <2> QED BY <2>1, <2>2, TimerStep
<1>4. ASSUME NEW sig \in {"SIGTERM", "SIGKILL"}, Terminate(p, sig)
      PROVE  HandleTypes' /\ ProcessesKept
  <2> DEFINE g == IF sig = "SIGTERM" /\ h[p].grace \in {"off", "fired"} THEN "armed" ELSE h[p].grace
             t == [h[p] EXCEPT !.grace = g]
  <2>1. g \in TimerStates
    BY <1>0 DEF HandleRec, TimerStates
  <2>2. h' = [h EXCEPT ![p] = t] /\ (KillGroup(p) \/ UNCHANGED <<child, left>>)
        /\ UNCHANGED <<drain, made, pipe, wrote>>
    BY <1>4 DEF Terminate
  <2> HIDE DEF g
  <2>3. t \in HandleRec /\ SameRun(h[p], t)
    BY <1>0, <2>1 DEF HandleRec, SameRun
  <2> HIDE DEF t
  <2> QED BY <2>2, <2>3, TimerStep
<1> QED BY <1>1, <1>2, <1>3, <1>4 DEF Timers

LEMMA ReapKeeps ==
  ASSUME HandleTypes, \A q \in Procs : DrainedInv(q), NEW p \in Procs, Reap(p)
  PROVE  HandleTypes' /\ ProcessesKept
<1> DEFINE t == Exited(h[p])
           l == IF h[p].timedOut THEN left[p] \ {"group"} ELSE left[p]
<1>1. h[p] \in HandleRec /\ HandleOK(h[p]) /\ h[p].started
  BY DEF HandleTypes, DrainedInv, Reap
<1>2. t \in HandleRec /\ HandleOK(t) /\ t.started /\ t.eof = h[p].eof /\ (Cut(h[p]) => Cut(t))
  BY <1>1, ExitedKeeps
<1>3. h' = [h EXCEPT ![p] = t] /\ UNCHANGED <<drain, made, pipe, wrote>>
  BY DEF Reap, Become
<1>4. /\ child[p] = "zombie" /\ "reaped" \in ChildStates
      /\ child' = [child EXCEPT ![p] = "reaped"]
  BY DEF Reap, ChildStates
<1>5. left' = [left EXCEPT ![p] = l] /\ l \subseteq left[p]
  BY DEF Reap, HandleTypes
<1> HIDE DEF t, l
<1> QED BY <1>1, <1>2, <1>3, <1>4, <1>5, QuietHandle

LEMMA ChildExitsKeeps ==
  ASSUME HandleTypes, \A q \in Procs : DrainedInv(q), NEW p \in Procs, ChildExits(p)
  PROVE  HandleTypes' /\ ProcessesKept
<1> DEFINE t == h[p]
<1>1. t \in HandleRec /\ HandleOK(t) /\ h' = [h EXCEPT ![p] = t]
      /\ UNCHANGED <<drain, made, pipe, wrote>>
  BY DEF ChildExits, HandleTypes, DrainedInv, processState
<1>2. \E k \in ChildStates, l \in SUBSET left[p] :
           /\ child' = [child EXCEPT ![p] = k] /\ left' = [left EXCEPT ![p] = l]
           /\ k = "none" <=> child[p] = "none"
           /\ k = "alive" => child[p] = "alive"
  <2>1. CASE child[p] = "alive" /\ child' = [child EXCEPT ![p] = "zombie"] /\ left' = left
    <3>1. left' = [left EXCEPT ![p] = left[p]] /\ left[p] \in SUBSET left[p] /\ "zombie" \in ChildStates
      BY <2>1 DEF HandleTypes, ChildStates
    <3> QED BY <2>1, <3>1
  <2>2. CASE left' = [left EXCEPT ![p] = {}] /\ child' = child
    <3>1. child' = [child EXCEPT ![p] = child[p]] /\ child[p] \in ChildStates /\ {} \in SUBSET left[p]
      BY <2>2 DEF HandleTypes
    <3> QED BY <2>2, <3>1
  <2> QED BY <2>1, <2>2 DEF ChildExits
<1>3. PICK k \in ChildStates, l \in SUBSET left[p] :
           /\ child' = [child EXCEPT ![p] = k] /\ left' = [left EXCEPT ![p] = l]
           /\ k = "none" <=> child[p] = "none"
           /\ k = "alive" => child[p] = "alive"
  BY <1>2
<1> HIDE DEF t
<1> QED BY <1>1, <1>3, QuietHandle DEF t

(* begin_close: the reads it aborts are cut short. *)
LEMMA BeginCloseKeeps ==
  ASSUME HandleTypes, \A q \in Procs : DrainedInv(q), NEW p \in Procs, BeginsProcessClose(p),
         UNCHANGED <<made, pipe, wrote>>
  PROVE  HandleTypes' /\ ProcessesKept
<1> DEFINE t == Closing(h[p])
           d == IF LiveProcess(p) THEN [s \in Streams |-> IF drain[p][s] = "read" THEN "abort" ELSE drain[p][s]]
                ELSE drain[p]
<1>1. h[p] \in HandleRec /\ HandleOK(h[p])
  BY DEF HandleTypes, DrainedInv
<1>2. t \in HandleRec /\ HandleOK(t) /\ t.started = h[p].started /\ t.eof = h[p].eof /\ Cut(t)
  BY <1>1, ClosingKeeps
<1>3. h' = [h EXCEPT ![p] = t]
  BY DEF BeginsProcessClose, Become
<1>4. KillGroup(p) \/ UNCHANGED <<child, left>>
  BY DEF BeginsProcessClose
<1>5. PICK k \in ChildStates, l \in SUBSET left[p] :
           /\ child' = [child EXCEPT ![p] = k] /\ left' = [left EXCEPT ![p] = l]
           /\ k = "none" <=> child[p] = "none"
           /\ k = "alive" => child[p] = "alive"
  BY <1>4, KillOrSpare
<1>6. drain' = [drain EXCEPT ![p] = d]
  BY DEF BeginsProcessClose, HandleTypes
<1>7. d \in [Streams -> DrainPlaces]
  BY DEF HandleTypes, DrainPlaces
<1>8. \A s \in Streams : d[s] = drain[p][s] \/ (drain[p][s] = "read" /\ d[s] = "abort" /\ Cut(t))
  BY <1>2 DEF HandleTypes
<1> HIDE DEF t, d
<1> QED BY <1>2, <1>3, <1>5, <1>6, <1>7, <1>8, QuietStep

LEMMA CloseJoinsKeeps ==
  ASSUME HandleTypes, \A q \in Procs : DrainedInv(q), NEW c \in Clients, pCall[c].p \in Procs, CloseJoins(c)
  PROVE  HandleTypes' /\ ProcessesKept
<1> DEFINE p == pCall[c].p
           t == IF h[p].finished /\ h[p].status # "Closed" THEN FinalizedProcess(h[p]) ELSE h[p]
<1>1. h[p] \in HandleRec /\ HandleOK(h[p])
  BY DEF HandleTypes, DrainedInv
<1>2. t \in HandleRec /\ HandleOK(t) /\ t.started = h[p].started /\ t.eof = h[p].eof /\ (Cut(h[p]) => Cut(t))
  BY <1>1, FinalizedKeeps DEF HandleRec
<1>3. h' = [h EXCEPT ![p] = t]
  BY DEF CloseJoins, Become
<1>4. UNCHANGED <<child, left, drain, made, pipe, wrote>>
  BY DEF CloseJoins, processKernel
<1>5. p \in Procs
  OBVIOUS
<1> HIDE DEF p, t
<1>6. /\ child' = [child EXCEPT ![p] = child[p]] /\ left' = [left EXCEPT ![p] = left[p]]
      /\ child[p] \in ChildStates /\ left[p] \subseteq left[p]
  BY <1>4, <1>5 DEF HandleTypes
<1> QED BY <1>2, <1>3, <1>4, <1>5, <1>6, QuietHandle

LEMMA WriteProceedsKeeps ==
  ASSUME HandleTypes, \A q \in Procs : DrainedInv(q), NEW c \in Clients, pCall[c].p \in Procs, WriteProceeds(c)
  PROVE  HandleTypes' /\ ProcessesKept
<1> DEFINE p == pCall[c].p
<1>1. UNCHANGED <<child, left, drain, made, pipe, wrote>>
  BY DEF WriteProceeds
<1>2. CASE h' = h
  BY <1>1, <1>2, HandlesUntouched
<1>3. CASE h' = [h EXCEPT ![p].stdin = @ /\ pCall[c].op = "write"]
  <2> DEFINE b == h[p].stdin /\ pCall[c].op = "write"
             t == [h[p] EXCEPT !.stdin = b]
  <2>1. h[p] \in HandleRec
    BY DEF HandleTypes
  <2>2. b \in BOOLEAN
    BY <2>1 DEF HandleRec
  <2>3. h' = [h EXCEPT ![p] = t]
    BY <1>3
  <2> HIDE DEF b
  <2>4. t \in HandleRec /\ SameRun(h[p], t)
    BY <2>1, <2>2 DEF HandleRec, SameRun
  <2> HIDE DEF t
  <2> QED BY <1>1, <2>3, <2>4, TimerStep
<1> QED BY <1>2, <1>3 DEF WriteProceeds

LEMMA StartKeeps ==
  ASSUME HandleTypes, \A q \in Procs : DrainedInv(q), NEW p \in Procs, Start(p)
  PROVE  HandleTypes' /\ ProcessesKept
<1> DEFINE o == IF "timeout" \in pUse.traits[p] THEN "armed" ELSE "off"
           t == [Fresh EXCEPT !.status = "Running", !.started = TRUE, !.stdin = TRUE, !.slot = TRUE, !.timeout = o]
<1>1. o \in TimerStates
  BY DEF TimerStates
<1>2. h' = [h EXCEPT ![p] = t] /\ h[p].status = "Created"
  BY DEF Start
<1>3. /\ drain' = [drain EXCEPT ![p] = [s \in Streams |-> "start"]] /\ child' = [child EXCEPT ![p] = "alive"]
      /\ UNCHANGED <<left, made, pipe, wrote>>
  BY DEF Start
<1> HIDE DEF o
<1>4. /\ t \in HandleRec /\ t.status = "Running" /\ t.started /\ ~t.closing /\ ~t.finished
      /\ t.eof = {}
  BY <1>1 DEF HandleRec, Fresh, Statuses, TimerStates
<1> HIDE DEF t
<1>5. HandleOK(t)
  BY <1>4 DEF HandleOK
<1>6. [s \in Streams |-> "start"] \in [Streams -> DrainPlaces] /\ "alive" \in ChildStates
  BY DEF DrainPlaces, ChildStates
<1>7. HandleTypes'
  BY <1>2, <1>3, <1>4, <1>6 DEF HandleTypes
<1>8. \A q \in Procs \ {p} : SameProcess(q)
  BY <1>2, <1>3 DEF HandleTypes, SameProcess
<1>9. h'[p] = t /\ child'[p] = "alive" /\ \A s \in Streams : drain'[p][s] = "start"
  BY <1>2, <1>3 DEF HandleTypes
<1>10. \A s \in Streams : made[p][s] + pipe[p][s] = wrote[p][s]
  BY DEF DrainedInv
<1>11. ~h[p].started
  BY <1>2 DEF DrainedInv, HandleOK
<1>12. StaysDry(p)
  BY <1>11 DEF StaysDry, DrainedInv
<1>13. HandleOK(h[p])'
  BY <1>5, <1>9 DEF HandleOK
<1>14. DrainedInv(p)'
  BY <1>3, <1>4, <1>9, <1>10, <1>13 DEF DrainedInv
<1> QED BY <1>7, <1>8, <1>12, <1>14, OneProcess

LEMMA ChildWritesKeeps ==
  ASSUME HandleTypes, \A q \in Procs : DrainedInv(q), NEW p \in Procs, NEW s \in Streams, ChildWrites(p, s)
  PROVE  HandleTypes' /\ ProcessesKept
<1>1. /\ Holders(p) /\ UNCHANGED <<h, child, left, drain, made>>
      /\ pipe' = [pipe EXCEPT ![p][s] = pipe[p][s] + 1]
      /\ wrote' = [wrote EXCEPT ![p][s] = wrote[p][s] + 1]
  BY DEF ChildWrites, processState
<1>2. HandleTypes'
  BY <1>1 DEF HandleTypes, Counts
<1>3. \A q \in Procs \ {p} : SameProcess(q)
  BY <1>1 DEF HandleTypes, Counts, SameProcess
<1>4. \A r \in Streams : /\ pipe'[p][r] = IF r = s THEN pipe[p][r] + 1 ELSE pipe[p][r]
                         /\ wrote'[p][r] = IF r = s THEN wrote[p][r] + 1 ELSE wrote[p][r]
                         /\ pipe[p][r] \in Nat /\ wrote[p][r] \in Nat /\ made[p][r] \in Nat
  BY <1>1 DEF HandleTypes, Counts
<1>5. \A r : ~Dry(p, r) /\ ~Dry(p, r)'
  BY <1>1 DEF Dry, Holders
<1>6. StaysDry(p)
  BY <1>5 DEF StaysDry
<1>7. DrainedInv(p)
  OBVIOUS
<1>8. HandleOK(h[p])' /\ (Cut(h[p])' <=> Cut(h[p]))
  BY <1>1, <1>7 DEF DrainedInv, HandleOK, Cut
<1>9. \A r \in Streams : made'[p][r] + pipe'[p][r] = wrote'[p][r]
  <2>1. ASSUME NEW r \in Streams PROVE made[p][r] + pipe[p][r] = wrote[p][r]
    BY <1>7 DEF DrainedInv
  <2>2. \A r : made'[p][r] = made[p][r]
    BY <1>1
  <2> QED BY <1>4, <2>1, <2>2
<1>10. DrainedInv(p)'
  BY <1>1, <1>5, <1>7, <1>8, <1>9 DEF DrainedInv
<1> QED BY <1>2, <1>3, <1>6, <1>10, OneProcess

LEMMA ChildForksKeeps ==
  ASSUME HandleTypes, \A q \in Procs : DrainedInv(q), NEW p \in Procs, ChildForks(p)
  PROVE  HandleTypes' /\ ProcessesKept
<1>1. PICK l \in SUBSET Descendants : left' = [left EXCEPT ![p] = l]
  BY DEF ChildForks, Descendants
<1>2. child[p] = "alive" /\ UNCHANGED <<h, child, drain, made, pipe, wrote>>
  BY DEF ChildForks, processState
<1>3. HandleTypes'
  BY <1>1, <1>2 DEF HandleTypes
<1>4. \A q \in Procs \ {p} : SameProcess(q)
  BY <1>1, <1>2 DEF HandleTypes, SameProcess
<1>5. \A r : ~Dry(p, r) /\ ~Dry(p, r)'
  BY <1>2 DEF Dry, Holders
<1>6. StaysDry(p)
  BY <1>5 DEF StaysDry
<1>7. DrainedInv(p)
  OBVIOUS
<1>8. HandleOK(h[p])' /\ (Cut(h[p])' <=> Cut(h[p]))
  BY <1>2, <1>7 DEF DrainedInv, HandleOK, Cut
<1>9. DrainedInv(p)'
  BY <1>2, <1>5, <1>7, <1>8 DEF DrainedInv
<1> QED BY <1>3, <1>4, <1>6, <1>9, OneProcess

-----------------------------------------------------------------------------
(* The drains.                                                             *)

(* A drain of p moves its stream s from its place to another. *)
LEMMA DrainMoves ==
  ASSUME HandleTypes, \A q \in Procs : DrainedInv(q), NEW p \in Procs, NEW s \in Streams,
         NEW place \in DrainPlaces, drain' = [drain EXCEPT ![p][s] = place],
         drain[p][s] \notin {"none", "done"}, place \notin {"none", "done"},
         UNCHANGED <<h, child, left, wrote>>,
         NEW m \in Nat, made' = [made EXCEPT ![p][s] = m],
         NEW n \in Nat, pipe' = [pipe EXCEPT ![p][s] = n], m + n = wrote[p][s],
         n \in {0, pipe[p][s]}, place = "abort" => Dry(p, s)
  PROVE  HandleTypes' /\ ProcessesKept
<1>1. HandleTypes'
  BY DEF HandleTypes, Counts
<1>2. \A q \in Procs \ {p} : SameProcess(q)
  BY DEF HandleTypes, Counts, SameProcess
<1>3. /\ drain'[p][s] = place /\ made'[p][s] = m /\ pipe'[p][s] = n
      /\ \A r \in Streams \ {s} : /\ drain'[p][r] = drain[p][r] /\ made'[p][r] = made[p][r]
                                  /\ pipe'[p][r] = pipe[p][r]
  BY DEF HandleTypes, Counts
<1>4. \A r \in Streams : Dry(p, r) => Dry(p, r)'
  BY <1>3 DEF Dry, Holders
<1>5. StaysDry(p)
  BY <1>3, <1>4 DEF StaysDry
<1>6. DrainedInv(p)
  OBVIOUS
<1>7. HandleOK(h[p])' /\ (Cut(h[p])' <=> Cut(h[p]))
  BY <1>6 DEF DrainedInv, HandleOK, Cut
<1>8. h[p].started /\ h'[p] = h[p] /\ child'[p] = child[p] /\ left'[p] = left[p]
  BY <1>6 DEF DrainedInv
<1>9. (h'[p].started <=> child'[p] # "none") /\ h'[p].started
  BY <1>6, <1>8 DEF DrainedInv
<1>10. ASSUME NEW r \in Streams
       PROVE  /\ made'[p][r] + pipe'[p][r] = wrote'[p][r]
              /\ r \in h'[p].eof <=> drain'[p][r] = "done"
              /\ drain'[p][r] = "none" => ~h'[p].started
              /\ drain'[p][r] \in {"abort", "done"} => Cut(h[p])' \/ Dry(p, r)'
  <2>1. /\ made[p][r] + pipe[p][r] = wrote[p][r]
        /\ r \in h[p].eof <=> drain[p][r] = "done"
        /\ drain[p][r] = "none" => ~h[p].started
        /\ drain[p][r] \in {"abort", "done"} => Cut(h[p]) \/ Dry(p, r)
    BY <1>6 DEF DrainedInv
  <2>2. wrote'[p][r] = wrote[p][r]
    OBVIOUS
  <2>3. CASE r = s
    <3>1. made'[p][r] + pipe'[p][r] = wrote'[p][r]
      BY <1>3, <2>2, <2>3
    <3>2. (r \in h'[p].eof <=> drain'[p][r] = "done") /\ drain'[p][r] # "none"
      BY <1>3, <1>8, <2>1, <2>3
    <3>3. drain'[p][r] \in {"abort", "done"} => Dry(p, r)'
      BY <1>3, <1>4, <2>3
    <3> QED BY <3>1, <3>2, <3>3
  <2>4. CASE r # s
    <3>1. /\ drain'[p][r] = drain[p][r] /\ made'[p][r] = made[p][r]
          /\ pipe'[p][r] = pipe[p][r]
      BY <1>3, <2>4
    <3> QED BY <1>4, <1>7, <1>8, <2>1, <2>2, <3>1
  <2> QED BY <2>3, <2>4
<1>11. DrainedInv(p)'
  BY <1>7, <1>9, <1>10 DEF DrainedInv
<1> QED BY <1>1, <1>2, <1>5, <1>11, OneProcess

LEMMA DrainStartsKeeps ==
  ASSUME HandleTypes, \A q \in Procs : DrainedInv(q), NEW p \in Procs, NEW s \in Streams,
         DrainStarts(p, s) \/ DrainCompletes(p, s) \/ DrainTakes(p, s)
  PROVE  HandleTypes' /\ ProcessesKept
<1>1. /\ made[p][s] \in Nat /\ pipe[p][s] \in Nat /\ made[p][s] + pipe[p][s] = wrote[p][s]
      /\ made = [made EXCEPT ![p][s] = made[p][s]] /\ pipe = [pipe EXCEPT ![p][s] = pipe[p][s]]
  <2>1. made[p][s] \in Nat /\ pipe[p][s] \in Nat /\ made[p][s] + pipe[p][s] = wrote[p][s]
    BY DEF HandleTypes, Counts, DrainedInv
  <2>2. made = [made EXCEPT ![p][s] = made[p][s]] /\ pipe = [pipe EXCEPT ![p][s] = pipe[p][s]]
    BY DEF HandleTypes, Counts
  <2> QED BY <2>1, <2>2
<1>2. CASE DrainStarts(p, s)
  <2> DEFINE place == "read"
             m == made[p][s]
             n == pipe[p][s]
  <2>1. /\ drain' = [drain EXCEPT ![p][s] = place] /\ drain[p][s] = "start"
        /\ UNCHANGED <<h, child, left, wrote, made, pipe>>
        /\ place \in DrainPlaces /\ place \notin {"none", "done", "abort"}
    BY <1>2 DEF DrainStarts, processKernel, DrainPlaces
  <2>2. made' = [made EXCEPT ![p][s] = m] /\ pipe' = [pipe EXCEPT ![p][s] = n]
        /\ m \in Nat /\ n \in Nat /\ m + n = wrote[p][s] /\ n \in {0, pipe[p][s]}
    BY <1>1, <2>1
  <2> HIDE DEF place, m, n
  <2> QED BY <2>1, <2>2, DrainMoves
<1>3. CASE DrainCompletes(p, s)
  <2> DEFINE place == IF pipe[p][s] > 0 THEN "got" ELSE "abort"
             m == made[p][s]
             n == pipe[p][s]
  <2>1. /\ drain' = [drain EXCEPT ![p][s] = place] /\ drain[p][s] = "read"
        /\ UNCHANGED <<h, child, left, wrote, made, pipe>> /\ (pipe[p][s] > 0 \/ ~Holders(p))
    BY <1>3 DEF DrainCompletes, processKernel
  <2>2. place \in DrainPlaces /\ place \notin {"none", "done"} /\ (place = "abort" => Dry(p, s))
    BY <1>1, <2>1 DEF DrainPlaces, Dry
  <2>3. made' = [made EXCEPT ![p][s] = m] /\ pipe' = [pipe EXCEPT ![p][s] = n]
        /\ m \in Nat /\ n \in Nat /\ m + n = wrote[p][s] /\ n \in {0, pipe[p][s]}
    BY <1>1, <2>1
  <2> HIDE DEF place, m, n
  <2> QED BY <2>1, <2>2, <2>3, DrainMoves
<1>4. CASE DrainTakes(p, s)
  <2> DEFINE place == "read"
             m == made[p][s] + pipe[p][s]
             n == 0
  <2>1. /\ drain' = [drain EXCEPT ![p][s] = place] /\ drain[p][s] = "got"
        /\ UNCHANGED <<h, child, left, wrote>>
        /\ place \in DrainPlaces /\ place \notin {"none", "done", "abort"}
        /\ made' = [made EXCEPT ![p][s] = m] /\ pipe' = [pipe EXCEPT ![p][s] = n]
    BY <1>4 DEF DrainTakes, DrainPlaces
  <2>2. m \in Nat /\ n \in Nat /\ m + n = wrote[p][s] /\ n \in {0, pipe[p][s]}
    BY <1>1
  <2> HIDE DEF place, m, n
  <2> QED BY <2>1, <2>2, DrainMoves
<1> QED BY <1>2, <1>3, <1>4

(* The end of a drain, which may be the end of the process. *)
LEMMA DrainEndsKeeps ==
  ASSUME HandleTypes, \A q \in Procs : DrainedInv(q), NEW p \in Procs, NEW s \in Streams, DrainEnds(p, s)
  PROVE  HandleTypes' /\ ProcessesKept
<1> DEFINE e == [h[p] EXCEPT !.eof = h[p].eof \cup {s}]
           t == TryFinish(e)
<1>1. h[p] \in HandleRec /\ DrainedInv(p) /\ drain[p][s] = "abort"
  BY DEF HandleTypes, DrainEnds
<1>2. h[p].started /\ HandleOK(h[p])
  BY <1>1 DEF DrainedInv
<1>3. /\ e \in HandleRec /\ e.eof = h[p].eof \cup {s} /\ e.started = h[p].started /\ e.finished = h[p].finished
      /\ e.status = h[p].status /\ e.closing = h[p].closing
  BY <1>1 DEF HandleRec
<1>4. h' = [h EXCEPT ![p] = t]
  BY DEF DrainEnds, Become
<1> HIDE DEF e
<1>5. HandleOK(e) /\ (Cut(h[p]) => Cut(e))
  BY <1>2, <1>3 DEF HandleOK, Cut
<1>6. t \in HandleRec /\ HandleOK(t) /\ t.started /\ t.eof = e.eof /\ (Cut(e) => Cut(t))
  BY <1>2, <1>3, <1>5, TryFinishKeeps
<1> HIDE DEF t
<1>7. drain' = [drain EXCEPT ![p][s] = "done"] /\ "done" \in DrainPlaces
      /\ UNCHANGED <<child, left, made, pipe, wrote>>
  BY DEF DrainEnds, DrainPlaces, processKernel
<1>8. HandleTypes'
  BY <1>4, <1>6, <1>7 DEF HandleTypes
<1>9. \A q \in Procs \ {p} : SameProcess(q)
  BY <1>4, <1>7 DEF HandleTypes, SameProcess
<1>10. h'[p] = t /\ drain'[p][s] = "done" /\ \A r \in Streams \ {s} : drain'[p][r] = drain[p][r]
  BY <1>4, <1>7 DEF HandleTypes
<1>11. \A r : Dry(p, r)' <=> Dry(p, r)
  BY <1>7 DEF Dry, Holders
<1>12. StaysDry(p)
  BY <1>1, <1>10, <1>11 DEF StaysDry
<1>13. HandleOK(h[p])' /\ (Cut(h[p]) => Cut(h[p])')
  BY <1>5, <1>6, <1>10 DEF HandleOK, Cut
<1>14. ASSUME NEW r \in Streams
       PROVE  /\ made'[p][r] + pipe'[p][r] = wrote'[p][r]
              /\ r \in h'[p].eof <=> drain'[p][r] = "done"
              /\ drain'[p][r] = "none" => ~h'[p].started
              /\ drain'[p][r] \in {"abort", "done"} => Cut(h[p])' \/ Dry(p, r)'
  <2>1. /\ made[p][r] + pipe[p][r] = wrote[p][r]
        /\ r \in h[p].eof <=> drain[p][r] = "done"
        /\ drain[p][r] = "none" => ~h[p].started
        /\ drain[p][r] \in {"abort", "done"} => Cut(h[p]) \/ Dry(p, r)
    BY <1>1 DEF DrainedInv
  <2>2. made'[p][r] + pipe'[p][r] = wrote'[p][r]
    BY <1>7, <2>1
  <2>3. r \in h'[p].eof <=> drain'[p][r] = "done"
    BY <1>3, <1>6, <1>10, <2>1
  <2>4. drain'[p][r] = "none" => ~h'[p].started
    BY <1>2, <1>10, <2>1
  <2>5. drain'[p][r] \in {"abort", "done"} => drain[p][r] \in {"abort", "done"}
    BY <1>1, <1>10
  <2> QED BY <1>11, <1>13, <2>1, <2>2, <2>3, <2>4, <2>5
<1>15. h'[p].started /\ child'[p] # "none"
  BY <1>1, <1>2, <1>6, <1>7, <1>10 DEF DrainedInv
<1>16. DrainedInv(p)'
  BY <1>13, <1>14, <1>15 DEF DrainedInv
<1> QED BY <1>8, <1>9, <1>12, <1>16, OneProcess

-----------------------------------------------------------------------------
(* The clients.                                                            *)

(* A call that does not run is the same, was woken, or its write aborted. *)
Calm(q, r) ==
  /\ r \in ClientRec /\ r.op = q.op /\ r.p = q.p
  /\ \/ r.at = q.at
     \/ q.at = "gate" /\ r.at = "ready"
     \/ q.at = "pipe" /\ r.at = "abort"

(* The call of a client that is not writing begins, goes on or returns. *)
Turns(q, r) ==
  /\ r \in ClientRec /\ q.at \in {"free", "gate", "ready"} /\ r.at \in {"gate", "ready", "ok", "failed"}
  /\ r.p \in Procs
  /\ r.op = "wait" /\ r.at = "ok" => \A s \in Streams : drain[r.p][s] = "done" /\ Dry(r.p, s)

(* WaitedInv after a step, by the process that was waited for. *)
WaitedFor(c, p) == pCall[c].op = "wait" /\ pCall[c].at = "ok" /\ pCall[c].p = p

LEMMA WaitedNext ==
  ASSUME ProcessesKept,
         \A c \in Clients : \A p : WaitedFor(c, p)' => p \in Procs /\ \A s \in Streams : drain[p][s] = "done" /\ Dry(p, s)
  PROVE  WaitedInv'
<1>1. \A c \in Clients : \A p : WaitedFor(c, p)' => \A s \in Streams : drain'[p][s] = "done" /\ Dry(p, s)'
  BY DEF ProcessesKept, StaysDry
<1> QED BY <1>1 DEF WaitedInv, WaitedFor, Dry, Holders

LEMMA CallsStep ==
  ASSUME CallsInv, ProcessesKept, UNCHANGED <<busy, fed>>, pCall' = [c \in Clients |-> pCall'[c]],
         \A c \in Clients : Calm(pCall[c], pCall'[c]) \/ Turns(pCall[c], pCall'[c])
  PROVE  CallsInv'
<1>0. \A c \in Clients : pCall[c] \in ClientRec
  BY DEF CallsInv, ClientTypes
<1>1. ClientTypes'
  <2>1. \A c \in Clients : pCall'[c] \in ClientRec
    BY DEF Calm, Turns
  <2>2. pCall' \in [Clients -> ClientRec]
    BY <2>1
  <2> QED BY <2>2 DEF CallsInv, ClientTypes
<1>2. ASSUME NEW c \in Clients
      PROVE  /\ AtPipe(c)' <=> AtPipe(c)
             /\ AtPipe(c) => pCall'[c].p = pCall[c].p /\ pCall'[c].op = pCall[c].op
             /\ pCall'[c].at # "free" => pCall'[c].p \in Procs
             /\ pCall[c].at \in {"pipe", "abort", "ok", "failed"}
                => pCall'[c].at \in {"pipe", "abort", "ok", "failed"} /\ pCall'[c].p = pCall[c].p
             /\ pCall'[c].op = "wait" /\ pCall'[c].at = "ok"
                => \A s \in Streams : drain[pCall'[c].p][s] = "done" /\ Dry(pCall'[c].p, s)
  <2>1. CASE Turns(pCall[c], pCall'[c])
    BY <2>1 DEF Turns, AtPipe
  <2>2. CASE Calm(pCall[c], pCall'[c])
    <3>1. pCall[c].at # "free" => pCall[c].p \in Procs
      BY DEF CallsInv, ClientInv
    <3>2. /\ pCall[c].op = "wait" /\ pCall[c].at = "ok"
             => \A s \in Streams : drain[pCall[c].p][s] = "done" /\ Dry(pCall[c].p, s)
      BY DEF CallsInv, WaitedInv
    <3> QED BY <2>2, <3>1, <3>2 DEF Calm, AtPipe
  <2> QED BY <2>1, <2>2
<1>3. ClientInv'
  <2>1. \A c \in Clients : AtPipe(c) => pCall[c].op # "wait"
    BY DEF CallsInv, ClientInv
  <2> QED BY <1>2, <2>1 DEF ClientInv
<1>4. WaitedInv'
  <2>1. \A c \in Clients : \A p : WaitedFor(c, p)' => p \in Procs /\ \A s \in Streams : drain[p][s] = "done" /\ Dry(p, s)
    BY <1>2 DEF WaitedFor
  <2> QED BY <2>1, WaitedNext
<1>5. BusyInv'
  <2>1. \A c \in Clients : AtPipe(c) => busy[pCall[c].p] = c
    BY DEF CallsInv, BusyInv
  <2>2. \A c \in Clients : AtPipe(c)' => busy'[pCall'[c].p] = c
    BY <1>2, <2>1
  <2>3. ASSUME NEW p \in Procs, busy'[p] # Nobody
        PROVE  pCall'[busy'[p]].at \in {"pipe", "abort"} /\ pCall'[busy'[p]].p = p
    <3>1. PICK b : b = busy[p]
      OBVIOUS
    <3>2. busy'[p] = b /\ b \in Clients /\ AtPipe(b) /\ pCall[b].p = p
      BY <2>3, <3>1 DEF CallsInv, BusyInv, ClientTypes
    <3>3. AtPipe(b)' /\ pCall'[b].p = p
      BY <1>2, <3>2
    <3> QED BY <3>2, <3>3 DEF AtPipe
  <2> QED BY <2>2, <2>3 DEF BusyInv, AtPipe
<1>6. FedInv'
  <2> SUFFICES ASSUME NEW p \in Procs, NEW i \in DOMAIN fed[p]
               PROVE  /\ pCall'[fed[p][i]].p = p
                      /\ pCall'[fed[p][i]].at \in {"pipe", "abort", "ok", "failed"}
                      /\ pCall'[fed[p][i]].at \in {"pipe", "abort"} => fed[p][Len(fed[p])] = fed[p][i]
    BY DEF FedInv, AtPipe
  <2>1. PICK c : c = fed[p][i]
    OBVIOUS
  <2>2. c \in Clients
    BY <2>1 DEF CallsInv, ClientTypes
  <2>3. /\ pCall[c].p = p /\ pCall[c].at \in {"pipe", "abort", "ok", "failed"}
        /\ AtPipe(c) => fed[p][Len(fed[p])] = c
    BY <2>1 DEF CallsInv, FedInv
  <2>4. /\ pCall'[c].p = p /\ pCall'[c].at \in {"pipe", "abort", "ok", "failed"}
        /\ pCall'[c].at \in {"pipe", "abort"} => fed[p][Len(fed[p])] = c
    BY <1>2, <2>2, <2>3 DEF AtPipe
  <2> QED BY <2>1, <2>4
<1>7. WritesAreSerialized'
  BY DEF CallsInv, WritesAreSerialized
<1> QED BY <1>1, <1>3, <1>4, <1>5, <1>6, <1>7 DEF CallsInv

(* A writer takes write_busy. *)
LEMMA WriteTakes ==
  ASSUME CallsInv, ProcessesKept, Nobody \notin Clients, NEW c \in Clients, NEW p \in Procs,
         NEW r \in ClientRec, r.p = p, r.at = "pipe", r.op # "wait",
         pCall[c].at \in {"free", "ready"}, pCall' = [pCall EXCEPT ![c] = r],
         busy[p] = Nobody, busy' = [busy EXCEPT ![p] = c], fed' = fed
  PROVE  CallsInv'
<1>1. ClientTypes'
  BY DEF CallsInv, ClientTypes
<1>2. pCall'[c] = r /\ (\A b \in Clients \ {c} : pCall'[b] = pCall[b])
      /\ busy'[p] = c /\ \A q \in Procs \ {p} : busy'[q] = busy[q]
  BY DEF CallsInv, ClientTypes
<1>3. ClientInv'
  BY <1>2 DEF CallsInv, ClientInv, AtPipe
<1>4. WaitedInv'
  <2>1. ASSUME NEW b \in Clients, NEW q, WaitedFor(b, q)'
        PROVE  q \in Procs /\ \A s \in Streams : drain[q][s] = "done" /\ Dry(q, s)
    <3>1. pCall'[b] = pCall[b]
      BY <1>2, <2>1 DEF WaitedFor
    <3> QED BY <2>1, <3>1 DEF CallsInv, WaitedInv, ClientInv, WaitedFor
  <2> QED BY <2>1, WaitedNext
<1>5. BusyInv'
  <2>1. ASSUME NEW b \in Clients, pCall'[b].at \in {"pipe", "abort"} PROVE busy'[pCall'[b].p] = b
    <3>1. CASE b = c
      BY <1>2, <3>1
    <3>2. CASE b # c
      <4>1. pCall'[b] = pCall[b] /\ busy[pCall[b].p] = b /\ pCall[b].p \in Procs
        BY <1>2, <2>1, <3>2 DEF CallsInv, BusyInv, ClientInv, AtPipe
      <4> QED BY <1>2, <4>1
    <3> QED BY <3>1, <3>2
  <2>2. ASSUME NEW q \in Procs, busy'[q] # Nobody
        PROVE  pCall'[busy'[q]].at \in {"pipe", "abort"} /\ pCall'[busy'[q]].p = q
    <3>1. CASE q = p
      BY <1>2, <3>1
    <3>2. CASE q # p
      <4>1. PICK b : b = busy[q]
        OBVIOUS
      <4>2. busy'[q] = b /\ b \in Clients /\ AtPipe(b) /\ pCall[b].p = q
        BY <1>2, <2>2, <3>2, <4>1 DEF CallsInv, BusyInv, ClientTypes
      <4>3. b # c
        BY <4>2 DEF AtPipe
      <4> QED BY <1>2, <4>2, <4>3 DEF AtPipe
    <3> QED BY <3>1, <3>2
  <2> QED BY <2>1, <2>2 DEF BusyInv, AtPipe
<1>6. FedInv'
  <2> SUFFICES ASSUME NEW q \in Procs, NEW i \in DOMAIN fed[q]
               PROVE  /\ pCall'[fed[q][i]].p = q
                      /\ pCall'[fed[q][i]].at \in {"pipe", "abort", "ok", "failed"}
                      /\ pCall'[fed[q][i]].at \in {"pipe", "abort"} => fed[q][Len(fed[q])] = fed[q][i]
    BY DEF FedInv, AtPipe
  <2>1. PICK b : b = fed[q][i]
    OBVIOUS
  <2>2. /\ b \in Clients /\ pCall[b].p = q /\ pCall[b].at \in {"pipe", "abort", "ok", "failed"}
        /\ AtPipe(b) => fed[q][Len(fed[q])] = b
    BY <2>1 DEF CallsInv, FedInv, ClientTypes
  <2>3. pCall'[b] = pCall[b]
    BY <1>2, <2>2
  <2> QED BY <2>1, <2>2, <2>3 DEF AtPipe
<1>7. WritesAreSerialized'
  BY DEF CallsInv, WritesAreSerialized
<1> QED BY <1>1, <1>3, <1>4, <1>5, <1>6, <1>7 DEF CallsInv

(* Pieces that arrive one after the other, and one more of the last writer. *)
OneRun(f) == \A i, k \in DOMAIN f : f[i] = f[k] => \A j \in i..k : f[j] = f[i]

LEMMA AppendRun ==
  ASSUME NEW S, NEW f \in Seq(S), OneRun(f), NEW c \in S,
         \A i \in DOMAIN f : f[i] = c => f[Len(f)] = c
  PROVE  OneRun(Append(f, c))
<1> DEFINE g == Append(f, c)
<1>1. /\ Len(g) = Len(f) + 1 /\ Len(f) \in Nat /\ DOMAIN f = 1..Len(f) /\ DOMAIN g = 1..(Len(f) + 1)
      /\ g[Len(f) + 1] = c /\ \A i \in 1..Len(f) : g[i] = f[i]
  OBVIOUS
<1> HIDE DEF g
<1>2. SUFFICES ASSUME NEW i \in DOMAIN g, NEW k \in DOMAIN g, g[i] = g[k], NEW j \in i..k PROVE g[j] = g[i]
  BY DEF OneRun, g
<1>3. CASE k \in 1..Len(f)
  <2>1. i \in 1..Len(f) /\ j \in 1..Len(f)
    BY <1>1, <1>2, <1>3
  <2> QED BY <1>1, <1>2, <1>3, <2>1 DEF OneRun
<1>4. CASE k = Len(f) + 1 /\ i \in 1..Len(f)
  <2>1. f[i] = c
    BY <1>1, <1>2, <1>4
  <2>2. f[i] = f[Len(f)] /\ Len(f) \in DOMAIN f
    BY <1>1, <1>4, <2>1
  <2>3. \A m \in i..Len(f) : f[m] = f[i]
    BY <1>1, <1>4, <2>2 DEF OneRun
  <2>4. CASE j = Len(f) + 1
    BY <1>1, <1>2, <1>4, <2>4
  <2>5. CASE j \in 1..Len(f)
    BY <1>1, <1>2, <1>4, <2>3, <2>5
  <2> QED BY <1>1, <1>4, <2>4, <2>5
<1>5. CASE k = Len(f) + 1 /\ i = Len(f) + 1
  BY <1>1, <1>2, <1>5
<1> QED BY <1>1, <1>3, <1>4, <1>5

(* The writer goes on, or returns and gives write_busy back; a piece of    *)
(* its payload may have arrived.  The others are as calm as ever.          *)
LEMMA WriterSteps ==
  ASSUME CallsInv, ProcessesKept, Nobody \notin Clients, NEW c \in Clients, AtPipe(c),
         NEW p, p = pCall[c].p, pCall' = [b \in Clients |-> pCall'[b]],
         \A b \in Clients \ {c} : Calm(pCall[b], pCall'[b]),
         pCall'[c] \in ClientRec, pCall'[c].p = p, pCall'[c].op = pCall[c].op,
         \/ pCall'[c].at = "pipe" /\ busy' = busy
         \/ pCall'[c].at \in {"ok", "failed"} /\ busy' = [busy EXCEPT ![p] = Nobody],
         fed' = fed \/ fed' = [fed EXCEPT ![p] = Append(fed[p], c)]
  PROVE  CallsInv'
<1>0. p \in Procs /\ busy[p] = c /\ pCall[c].op # "wait"
  BY DEF CallsInv, ClientInv, BusyInv, AtPipe
<1>1. ClientTypes'
  <2>1. pCall' \in [Clients -> ClientRec]
    BY DEF Calm
  <2>2. busy' \in [Procs -> Clients \cup {Nobody}]
    BY DEF CallsInv, ClientTypes
  <2>3. fed[p] \in Seq(Clients) /\ Append(fed[p], c) \in Seq(Clients)
    BY <1>0 DEF CallsInv, ClientTypes
  <2>4. fed' \in [Procs -> Seq(Clients)]
    BY <2>3 DEF CallsInv, ClientTypes
  <2> QED BY <2>1, <2>2, <2>4 DEF ClientTypes
<1>2. ASSUME NEW b \in Clients
      PROVE  /\ pCall'[b].op = pCall[b].op /\ pCall'[b].p = pCall[b].p
             /\ pCall'[b].at \in {"pipe", "abort"} => AtPipe(b)
             /\ b # c => (pCall'[b].at \in {"pipe", "abort"} <=> AtPipe(b))
             /\ b # c => (pCall'[b].at = "ok" <=> pCall[b].at = "ok")
             /\ pCall[b].at \in {"pipe", "abort", "ok", "failed"}
                => pCall'[b].at \in {"pipe", "abort", "ok", "failed"}
  <2>1. CASE b = c
    BY <2>1 DEF AtPipe
  <2>2. CASE b # c
    <3>1. Calm(pCall[b], pCall'[b])
      BY <2>2
    <3> QED BY <2>2, <3>1 DEF Calm, AtPipe
  <2> QED BY <2>1, <2>2
<1>3. ClientInv'
  <2>1. \A b \in Clients : (pCall[b].at # "free" => pCall[b].p \in Procs) /\ (AtPipe(b) => pCall[b].op # "wait")
    BY DEF CallsInv, ClientInv
  <2>2. ASSUME NEW b \in Clients, pCall'[b].at # "free" PROVE pCall'[b].p \in Procs
    <3>1. CASE b = c
      BY <1>0, <3>1
    <3>2. CASE b # c
      <4>1. pCall[b].at # "free"
        BY <2>2, <3>2 DEF Calm
      <4> QED BY <1>2, <2>1, <4>1
    <3> QED BY <3>1, <3>2
  <2> QED BY <1>2, <2>1, <2>2 DEF ClientInv, AtPipe
<1>4. WaitedInv'
  <2>1. ASSUME NEW b \in Clients, NEW q, WaitedFor(b, q)'
        PROVE  q \in Procs /\ \A s \in Streams : drain[q][s] = "done" /\ Dry(q, s)
    <3>1. pCall'[b].op = "wait" /\ pCall'[b].at = "ok" /\ pCall'[b].p = q
      BY <2>1 DEF WaitedFor
    <3>2. b # c
      BY <1>0, <3>1
    <3>3. pCall[b].op = "wait" /\ pCall[b].at = "ok" /\ pCall[b].p = q
      BY <1>2, <3>1, <3>2
    <3> QED BY <3>3 DEF CallsInv, WaitedInv, ClientInv
  <2> QED BY <2>1, WaitedNext
<1>5. BusyInv'
  <2>1. ASSUME NEW b \in Clients, pCall'[b].at \in {"pipe", "abort"} PROVE busy'[pCall'[b].p] = b
    <3>1. busy[pCall[b].p] = b /\ pCall'[b].p = pCall[b].p /\ pCall[b].p \in Procs
      BY <1>2, <2>1 DEF CallsInv, BusyInv, ClientInv, AtPipe
    <3>2. CASE b = c
      BY <2>1, <3>1, <3>2
    <3>3. CASE b # c
      BY <1>0, <3>1, <3>3 DEF CallsInv, ClientTypes
    <3> QED BY <3>2, <3>3
  <2>2. ASSUME NEW q \in Procs, busy'[q] # Nobody
        PROVE  pCall'[busy'[q]].at \in {"pipe", "abort"} /\ pCall'[busy'[q]].p = q
    <3>1. PICK b : b = busy'[q]
      OBVIOUS
    <3>2. busy[q] = b /\ (q = p => pCall'[c].at = "pipe")
      BY <2>2, <3>1 DEF CallsInv, ClientTypes
    <3>3. b \in Clients /\ AtPipe(b) /\ pCall[b].p = q
      BY <2>2, <3>1, <3>2 DEF CallsInv, BusyInv, ClientTypes
    <3>4. pCall'[b].at \in {"pipe", "abort"}
      BY <1>2, <3>2, <3>3
    <3> QED BY <1>2, <3>1, <3>3, <3>4
  <2> QED BY <2>1, <2>2 DEF BusyInv, AtPipe
<1>6. ASSUME NEW q \in Procs, NEW i \in DOMAIN fed[q]
      PROVE  /\ fed[q][i] \in Clients /\ pCall[fed[q][i]].p = q
             /\ pCall[fed[q][i]].at \in {"pipe", "abort", "ok", "failed"}
             /\ AtPipe(fed[q][i]) => fed[q][Len(fed[q])] = fed[q][i]
  BY <1>6 DEF CallsInv, FedInv, ClientTypes
<1>7. CASE fed' = fed
  <2>1. FedInv'
    <3> SUFFICES ASSUME NEW q \in Procs, NEW i \in DOMAIN fed[q]
                 PROVE  /\ pCall'[fed[q][i]].p = q
                        /\ pCall'[fed[q][i]].at \in {"pipe", "abort", "ok", "failed"}
                        /\ pCall'[fed[q][i]].at \in {"pipe", "abort"} => fed[q][Len(fed[q])] = fed[q][i]
      BY <1>7 DEF FedInv, AtPipe
    <3> QED BY <1>2, <1>6
  <2>2. WritesAreSerialized'
    BY <1>7 DEF CallsInv, WritesAreSerialized
  <2> QED BY <1>1, <1>3, <1>4, <1>5, <2>1, <2>2 DEF CallsInv
<1>8. CASE fed' = [fed EXCEPT ![p] = Append(fed[p], c)]
  <2> DEFINE f == fed[p]
             g == Append(fed[p], c)
  <2>1. f \in Seq(Clients) /\ OneRun(f)
    BY <1>0 DEF CallsInv, ClientTypes, WritesAreSerialized, OneRun
  <2>2. \A i \in DOMAIN f : f[i] = c => f[Len(f)] = c
    BY <1>0, <1>6
  <2>3. OneRun(g)
    BY <2>1, <2>2, AppendRun
  <2>4. fed'[p] = g /\ \A q \in Procs \ {p} : fed'[q] = fed[q]
    BY <1>0, <1>8 DEF CallsInv, ClientTypes
  <2>5. /\ Len(g) = Len(f) + 1 /\ Len(f) \in Nat /\ DOMAIN f = 1..Len(f) /\ DOMAIN g = 1..(Len(f) + 1)
        /\ g[Len(f) + 1] = c /\ \A i \in 1..Len(f) : g[i] = f[i]
    BY <2>1
  <2> HIDE DEF f, g
  <2>6. WritesAreSerialized'
    <3>1. ASSUME NEW q \in Procs PROVE OneRun(fed'[q])
      <4>1. CASE q = p
        BY <2>3, <2>4, <4>1
      <4>2. CASE q # p
        BY <2>4, <4>2 DEF CallsInv, WritesAreSerialized, OneRun
      <4> QED BY <4>1, <4>2
    <3> QED BY <3>1 DEF WritesAreSerialized, OneRun
  <2>7. FedInv'
    <3> SUFFICES ASSUME NEW q \in Procs, NEW i \in DOMAIN fed'[q]
                 PROVE  /\ pCall'[fed'[q][i]].p = q
                        /\ pCall'[fed'[q][i]].at \in {"pipe", "abort", "ok", "failed"}
                        /\ pCall'[fed'[q][i]].at \in {"pipe", "abort"} => fed'[q][Len(fed'[q])] = fed'[q][i]
      BY DEF FedInv, AtPipe
    <3>1. CASE q # p
      BY <1>2, <1>6, <2>4, <3>1
    <3>2. CASE q = p /\ i = Len(f) + 1
      <4>1. fed'[q][i] = c /\ fed'[q][Len(fed'[q])] = c
        BY <2>4, <2>5, <3>2
      <4>2. pCall'[c].p = p /\ pCall'[c].at \in {"pipe", "abort", "ok", "failed"}
        OBVIOUS
      <4> QED BY <3>2, <4>1, <4>2
    <3>3. CASE q = p /\ i # Len(f) + 1
      <4>0. fed'[q] = g /\ i \in DOMAIN g
        BY <2>4, <3>3
      <4>1. i \in DOMAIN f /\ fed'[q][i] = f[i] /\ fed'[q][Len(fed'[q])] = c
        BY <2>5, <3>3, <4>0
      <4>2. /\ f[i] \in Clients /\ pCall[f[i]].p = p
            /\ pCall[f[i]].at \in {"pipe", "abort", "ok", "failed"}
        BY <1>0, <1>6, <4>1 DEF f
      <4>3. pCall'[f[i]].at \in {"pipe", "abort"} => f[i] = c
        BY <1>0, <1>2, <4>2 DEF CallsInv, BusyInv
      <4> QED BY <1>2, <3>3, <4>1, <4>2, <4>3
    <3> QED BY <3>1, <3>2, <3>3
  <2> QED BY <1>1, <1>3, <1>4, <1>5, <2>6, <2>7 DEF CallsInv
<1> QED BY <1>7, <1>8

-----------------------------------------------------------------------------
(* What the actions do to the calls.                                       *)

LEMMA WokenCalm ==
  ASSUME NEW calls \in [Clients -> ClientRec], NEW p, NEW gates
  PROVE  LET w == WokenClients(calls, p, gates) IN
         w \in [Clients -> ClientRec] /\ \A c \in Clients : Calm(calls[c], w[c])
<1> DEFINE w == WokenClients(calls, p, gates)
<1>1. ASSUME NEW c \in Clients PROVE w[c] \in ClientRec /\ Calm(calls[c], w[c])
  <2>1. w[c] \in {calls[c], [calls[c] EXCEPT !.at = "ready"]} /\ (w[c] = calls[c] \/ calls[c].at = "gate")
    BY DEF WokenClients
  <2>2. calls[c] \in ClientRec
    OBVIOUS
  <2> HIDE DEF w
  <2>3. CASE w[c] = calls[c]
    BY <2>2, <2>3 DEF Calm
  <2>4. CASE w[c] = [calls[c] EXCEPT !.at = "ready"] /\ calls[c].at = "gate"
    BY <2>2, <2>4 DEF Calm, ClientRec, ClientPlaces
  <2> QED BY <2>1, <2>3, <2>4
<1>2. w = [c \in Clients |-> w[c]]
  BY DEF WokenClients
<1> HIDE DEF w
<1>3. w \in [Clients -> ClientRec]
  BY <1>1, <1>2
<1> QED BY <1>1, <1>3 DEF w

LEMMA ReleasedCalm ==
  ASSUME pCall \in [Clients -> ClientRec], NEW p
  PROVE  Released(p) \in [Clients -> ClientRec] /\ \A c \in Clients : Calm(pCall[c], Released(p)[c])
<1> DEFINE aborted == [c \in Clients |->
                         IF LiveProcess(p) /\ pCall[c].p = p /\ pCall[c].at = "pipe"
                         THEN [pCall[c] EXCEPT !.at = "abort"] ELSE pCall[c]]
           w == WokenClients(aborted, p, {"finish", "write"})
<1>1. CASE h[p].status = "Closed"
  BY <1>1 DEF Released, Calm
<1>2. CASE h[p].status # "Closed"
  <2>1. ASSUME NEW c \in Clients
        PROVE  /\ aborted[c] \in ClientRec /\ Calm(pCall[c], aborted[c])
               /\ aborted[c].at = pCall[c].at \/ (pCall[c].at = "pipe" /\ aborted[c].at = "abort")
    <3>1. /\ aborted[c] \in {pCall[c], [pCall[c] EXCEPT !.at = "abort"]}
          /\ aborted[c] = pCall[c] \/ pCall[c].at = "pipe"
      OBVIOUS
    <3>2. pCall[c] \in ClientRec
      OBVIOUS
    <3> HIDE DEF aborted
    <3>3. CASE aborted[c] = pCall[c]
      BY <3>2, <3>3 DEF Calm
    <3>4. CASE aborted[c] = [pCall[c] EXCEPT !.at = "abort"] /\ pCall[c].at = "pipe"
      BY <3>2, <3>4 DEF Calm, ClientRec, ClientPlaces
    <3> QED BY <3>1, <3>3, <3>4
  <2>2. aborted = [c \in Clients |-> aborted[c]]
    OBVIOUS
  <2>3. Released(p) = w
    BY <1>2 DEF Released
  <2> HIDE DEF aborted
  <2>4. aborted \in [Clients -> ClientRec]
    BY <2>1, <2>2
  <2>5. w \in [Clients -> ClientRec] /\ \A c \in Clients : Calm(aborted[c], w[c])
    BY <2>4, WokenCalm
  <2> HIDE DEF w
  <2>6. ASSUME NEW c \in Clients PROVE Calm(pCall[c], w[c])
    BY <2>1, <2>5 DEF Calm
  <2> QED BY <2>3, <2>5, <2>6
<1> QED BY <1>1, <1>2

LEMMA CalmClients ==
  ASSUME CallsInv, ProcessesKept, UNCHANGED <<busy, fed>>, pCall' \in [Clients -> ClientRec],
         \A c \in Clients : Calm(pCall[c], pCall'[c])
  PROVE  CallsInv'
<1>1. pCall' = [c \in Clients |-> pCall'[c]]
  OBVIOUS
<1> QED BY <1>1, CallsStep

LEMMA SameClients ==
  ASSUME CallsInv, ProcessesKept, UNCHANGED <<busy, fed, pCall>>
  PROVE  CallsInv'
<1>1. pCall' \in [Clients -> ClientRec]
  BY DEF CallsInv, ClientTypes
<1>2. \A c \in Clients : Calm(pCall[c], pCall'[c])
  BY <1>1 DEF Calm
<1> QED BY <1>1, <1>2, CalmClients

LEMMA WokenClientsKeep ==
  ASSUME CallsInv, ProcessesKept, UNCHANGED <<busy, fed>>,
         NEW p, NEW gates, pCall' = WokenClients(pCall, p, gates)
  PROVE  CallsInv'
<1>1. pCall \in [Clients -> ClientRec]
  BY DEF CallsInv, ClientTypes
<1>2. pCall' \in [Clients -> ClientRec] /\ \A c \in Clients : Calm(pCall[c], pCall'[c])
  BY <1>1, WokenCalm
<1> QED BY <1>2, CalmClients

(* One client turns while the others are calm. *)
LEMMA ClientTurns ==
  ASSUME CallsInv, ProcessesKept, UNCHANGED <<busy, fed>>, NEW c \in Clients,
         NEW calls \in [Clients -> ClientRec], \A b \in Clients : Calm(pCall[b], calls[b]),
         NEW r, Turns(pCall[c], r), pCall' = [calls EXCEPT ![c] = r]
  PROVE  CallsInv'
<1>1. pCall' = [b \in Clients |-> pCall'[b]]
  OBVIOUS
<1>2. pCall'[c] = r /\ \A b \in Clients \ {c} : pCall'[b] = calls[b]
  OBVIOUS
<1>3. \A b \in Clients : Calm(pCall[b], pCall'[b]) \/ Turns(pCall[b], pCall'[b])
  BY <1>2
<1> QED BY <1>1, <1>3, CallsStep

LEMMA ItselfCalm ==
  ASSUME CallsInv
  PROVE  pCall \in [Clients -> ClientRec] /\ \A c \in Clients : Calm(pCall[c], pCall[c])
BY DEF CallsInv, ClientTypes, Calm

-----------------------------------------------------------------------------
(* Every action keeps the invariant.                                       *)

LEMMA KeptInv ==
  ASSUME HandleTypes', ProcessesKept, CallsInv'
  PROVE  ProcessInv'
BY DEF ProcessesKept, ProcessInv

LEMMA ProcessMoves ==
  ASSUME ProcessInv, NEW p \in Procs,
         \/ \E s \in Streams : Drains(p, s) \/ ChildWrites(p, s)
         \/ Reap(p) \/ Timers(p) \/ DisposeProcessRuns(p)
         \/ Start(p) \/ Reads(p) \/ ReadExpires(p) \/ DisposeProcess(p)
         \/ ChildForks(p) \/ ChildExits(p)
         \/ \E sig \in {"SIGTERM", "SIGKILL"} : Terminate(p, sig)
  PROVE  ProcessInv'
<1> USE DEF ProcessInv
<1>1. ASSUME NEW s \in Streams, DrainStarts(p, s) \/ DrainCompletes(p, s) \/ DrainTakes(p, s)
      PROVE  ProcessInv'
  <2>1. HandleTypes' /\ ProcessesKept
    BY <1>1, DrainStartsKeeps
  <2>2. UNCHANGED <<busy, fed, pCall>>
    BY <1>1 DEF DrainStarts, DrainCompletes, DrainTakes, processKernel
  <2> QED BY <2>1, <2>2, SameClients, KeptInv
<1>2. ASSUME NEW s \in Streams, DrainEnds(p, s)
      PROVE  ProcessInv'
  <2>1. HandleTypes' /\ ProcessesKept
    BY <1>2, DrainEndsKeeps
  <2> DEFINE t == TryFinish([h[p] EXCEPT !.eof = @ \cup {s}])
             gates == Notified(h[p], t)
  <2>2. UNCHANGED <<busy, fed>> /\ pCall' = WokenClients(pCall, p, gates)
    BY <1>2 DEF DrainEnds, processKernel
  <2> HIDE DEF gates
  <2>3. CallsInv'
    BY <2>1, <2>2, WokenClientsKeep
  <2> QED BY <2>1, <2>3, KeptInv
<1>3. ASSUME NEW s \in Streams, ChildWrites(p, s)
      PROVE  ProcessInv'
  <2>1. HandleTypes' /\ ProcessesKept
    BY <1>3, ChildWritesKeeps
  <2>2. UNCHANGED <<busy, fed, pCall>>
    BY <1>3 DEF ChildWrites, processState
  <2> QED BY <2>1, <2>2, SameClients, KeptInv
<1>4. CASE Reap(p)
  <2>1. HandleTypes' /\ ProcessesKept
    BY <1>4, ReapKeeps
  <2> DEFINE gates == Notified(h[p], Exited(h[p]))
  <2>2. UNCHANGED <<busy, fed>> /\ pCall' = WokenClients(pCall, p, gates)
    BY <1>4 DEF Reap
  <2> HIDE DEF gates
  <2>3. CallsInv'
    BY <2>1, <2>2, WokenClientsKeep
  <2> QED BY <2>1, <2>3, KeptInv
<1>5. ASSUME Timers(p) \/ \E sig \in {"SIGTERM", "SIGKILL"} : Terminate(p, sig)
      PROVE  ProcessInv'
  <2>1. HandleTypes' /\ ProcessesKept
    BY <1>5, TimersKeep
  <2>2. UNCHANGED <<busy, fed, pCall>>
    BY <1>5 DEF Timers, TimerExpires, TimeoutFires, GraceFires, Terminate, processKernel
  <2> QED BY <2>1, <2>2, SameClients, KeptInv
<1>6. CASE DisposeProcessRuns(p)
  <2>1. HandleTypes' /\ ProcessesKept
    BY <1>6, BeginCloseKeeps DEF DisposeProcessRuns
  <2>2. UNCHANGED <<busy, fed>> /\ pCall' = Released(p)
    BY <1>6 DEF DisposeProcessRuns
  <2>3. pCall' \in [Clients -> ClientRec] /\ \A c \in Clients : Calm(pCall[c], pCall'[c])
    BY <2>2, ItselfCalm, ReleasedCalm
  <2> QED BY <2>1, <2>2, <2>3, CalmClients, KeptInv
<1>7. CASE Start(p)
  <2>1. HandleTypes' /\ ProcessesKept
    BY <1>7, StartKeeps
  <2>2. UNCHANGED <<busy, fed, pCall>>
    BY <1>7 DEF Start
  <2> QED BY <2>1, <2>2, SameClients, KeptInv
<1>8. CASE Reads(p) \/ ReadExpires(p) \/ DisposeProcess(p)
  <2>1. UNCHANGED <<h, child, left, drain, made, pipe, wrote, busy, fed, pCall>>
    BY <1>8 DEF Reads, ReadExpires, DisposeProcess, processKernel, processState
  <2>2. HandleTypes' /\ ProcessesKept
    BY <2>1, HandlesUntouched
  <2> QED BY <2>1, <2>2, SameClients, KeptInv
<1>9. CASE ChildForks(p)
  <2>1. HandleTypes' /\ ProcessesKept
    BY <1>9, ChildForksKeeps
  <2>2. UNCHANGED <<busy, fed, pCall>>
    BY <1>9 DEF ChildForks, processState
  <2> QED BY <2>1, <2>2, SameClients, KeptInv
<1>10. CASE ChildExits(p)
  <2>1. HandleTypes' /\ ProcessesKept
    BY <1>10, ChildExitsKeeps
  <2>2. UNCHANGED <<busy, fed, pCall>>
    BY <1>10 DEF ChildExits, processState
  <2> QED BY <2>1, <2>2, SameClients, KeptInv
<1> QED BY <1>1, <1>2, <1>3, <1>4, <1>5, <1>6, <1>7, <1>8, <1>9, <1>10 DEF Drains

(* A call of write, and what it does after each wake-up. *)
LEMMA WriteTriesKeeps ==
  ASSUME ProcessConstantsOK, ProcessInv, NEW c \in Clients, NEW p \in Procs,
         NEW op \in {"write", "writeClose"}, pCall[c].at \in {"free", "ready"}, WriteTries(c, p, op)
  PROVE  ProcessInv'
<1>1. UNCHANGED <<h, child, left, drain, made, pipe, wrote, fed>>
  BY DEF WriteTries, processKernel
<1>2. HandleTypes' /\ ProcessesKept
  BY <1>1, HandlesUntouched DEF ProcessInv
<1>3. CallsInv /\ Payload \in Int /\ Nobody \notin Clients
  BY DEF ProcessInv, ProcessConstantsOK
<1>4. ASSUME NEW at \in {"failed", "gate"}, busy' = busy,
             pCall' = [pCall EXCEPT ![c] = [op |-> op, p |-> p, at |-> at, left |-> Payload]]
      PROVE  CallsInv'
  <2> DEFINE r == [op |-> op, p |-> p, at |-> at, left |-> Payload]
  <2>1. Turns(pCall[c], r)
    BY <1>3 DEF Turns, ClientRec, ClientPlaces, Ops
  <2>2. pCall' = [pCall EXCEPT ![c] = r]
    BY <1>4
  <2> HIDE DEF r
  <2> QED BY <1>1, <1>2, <1>3, <1>4, <2>1, <2>2, ItselfCalm, ClientTurns
<1>5. ASSUME busy[p] = Nobody, busy' = [busy EXCEPT ![p] = c],
             pCall' = [pCall EXCEPT ![c] = [op |-> op, p |-> p, at |-> "pipe", left |-> Payload]]
      PROVE  CallsInv'
  <2> DEFINE r == [op |-> op, p |-> p, at |-> "pipe", left |-> Payload]
  <2>1. r \in ClientRec /\ r.p = p /\ r.at = "pipe" /\ r.op # "wait"
    BY <1>3 DEF ClientRec, ClientPlaces, Ops
  <2>2. pCall' = [pCall EXCEPT ![c] = r]
    BY <1>5
  <2> HIDE DEF r
  <2> QED BY <1>1, <1>2, <1>3, <1>5, <2>1, <2>2, WriteTakes
<1>6. CallsInv'
  <2>1. CASE Unavailable(h[p])
    BY <1>4, <2>1 DEF WriteTries
  <2>2. CASE ~Unavailable(h[p]) /\ busy[p] # Nobody
    BY <1>4, <2>2 DEF WriteTries
  <2>3. CASE ~Unavailable(h[p]) /\ busy[p] = Nobody
    BY <1>5, <2>3 DEF WriteTries
  <2> QED BY <2>1, <2>2, <2>3
<1> QED BY <1>2, <1>6, KeptInv

(* A wait that finds the process finished and open. *)
LEMMA FinishedIsDry ==
  ASSUME NEW p \in Procs, DrainedInv(p), h[p].finished, h[p].status # "Closed"
  PROVE  \A s \in Streams : drain[p][s] = "done" /\ Dry(p, s)
BY DEF DrainedInv, HandleOK, Cut

LEMMA WaitTriesKeeps ==
  ASSUME ProcessInv, NEW c \in Clients, NEW p \in Procs,
         pCall[c].at \in {"free", "ready"}, WaitTries(c, p) \/ WaitForExit(c, p)
  PROVE  ProcessInv'
<1>1. UNCHANGED <<h, child, left, drain, made, pipe, wrote, fed, busy>>
  BY DEF WaitTries, WaitForExit, processKernel
<1>2. HandleTypes' /\ ProcessesKept
  BY <1>1, HandlesUntouched DEF ProcessInv
<1>3. CASE WaitTries(c, p)
  <2> DEFINE at == IF h[p].status = "Closed" \/ ~h[p].started THEN "failed"
                   ELSE IF h[p].finished THEN "ok" ELSE "gate"
             r == [op |-> "wait", p |-> p, left |-> 0, at |-> at]
  <2>1. pCall' = [pCall EXCEPT ![c] = r]
    BY <1>3 DEF WaitTries
  <2>2. at = "ok" => \A s \in Streams : drain[p][s] = "done" /\ Dry(p, s)
    BY FinishedIsDry DEF ProcessInv
  <2>3. at \in {"failed", "ok", "gate"}
    OBVIOUS
  <2> HIDE DEF at
  <2>4. Turns(pCall[c], r)
    BY <2>2, <2>3 DEF Turns, ClientRec, ClientPlaces, Ops
  <2> HIDE DEF r
  <2> QED BY <1>1, <1>2, <2>1, <2>4, ItselfCalm, ClientTurns, KeptInv DEF ProcessInv
<1>4. CASE WaitForExit(c, p)
  <2> DEFINE at == IF h[p].finished THEN "ok" ELSE IF pCall[c].at = "free" THEN "gate" ELSE "failed"
             r == [op |-> "waitForExit", p |-> p, left |-> 0, at |-> at]
  <2>1. pCall' = [pCall EXCEPT ![c] = r]
    BY <1>4 DEF WaitForExit
  <2>3. at \in {"failed", "ok", "gate"}
    OBVIOUS
  <2> HIDE DEF at
  <2>4. Turns(pCall[c], r)
    BY <2>3 DEF Turns, ClientRec, ClientPlaces, Ops
  <2> HIDE DEF r
  <2> QED BY <1>1, <1>2, <2>1, <2>4, ItselfCalm, ClientTurns, KeptInv DEF ProcessInv
<1> QED BY <1>3, <1>4

(* A call of close, and its turn at the barrier. *)
LEMMA CloseBeginsKeeps ==
  ASSUME ProcessInv, NEW c \in Clients, NEW p \in Procs, pCall[c].at = "free", CloseBegins(c, p)
  PROVE  ProcessInv'
<1> DEFINE at == IF Closing(h[p]).status # "Closed" THEN "gate" ELSE "ok"
           r == [op |-> "close", p |-> p, left |-> 0, at |-> at]
           calls == Released(p)
<1>1. HandleTypes' /\ ProcessesKept
  BY BeginCloseKeeps DEF CloseBegins, ProcessInv
<1>2. UNCHANGED <<busy, fed>> /\ pCall' = [calls EXCEPT ![c] = r]
  BY DEF CloseBegins
<1>3. calls \in [Clients -> ClientRec] /\ \A b \in Clients : Calm(pCall[b], calls[b])
  BY ItselfCalm, ReleasedCalm DEF ProcessInv
<1>4. Turns(pCall[c], r)
  <2>1. at \in {"gate", "ok"}
    OBVIOUS
  <2> HIDE DEF at
  <2> QED BY <2>1 DEF Turns, ClientRec, ClientPlaces, Ops
<1> HIDE DEF r, calls
<1> QED BY <1>1, <1>2, <1>3, <1>4, ClientTurns, KeptInv DEF ProcessInv

LEMMA CloseJoinsTurns ==
  ASSUME ProcessInv, NEW c \in Clients, CloseJoins(c)
  PROVE  ProcessInv'
<1> DEFINE p == pCall[c].p
           t == IF h[p].finished /\ h[p].status # "Closed" THEN FinalizedProcess(h[p]) ELSE h[p]
           calls == WokenClients(pCall, p, Notified(h[p], t))
           at == IF t.status = "Closed" THEN "ok" ELSE "gate"
           r == [calls[c] EXCEPT !.at = at]
<1>1. pCall[c].at = "ready" /\ pCall[c].op = "close" /\ p \in Procs
  BY DEF CloseJoins, ProcessInv, CallsInv, ClientInv
<1>2. HandleTypes' /\ ProcessesKept
  BY <1>1, CloseJoinsKeeps DEF ProcessInv
<1>3. UNCHANGED <<busy, fed>> /\ pCall' = [calls EXCEPT ![c].at = at]
  BY DEF CloseJoins, processKernel
<1>4. calls \in [Clients -> ClientRec] /\ \A b \in Clients : Calm(pCall[b], calls[b])
  BY ItselfCalm, WokenCalm DEF ProcessInv
<1>5. at \in {"ok", "gate"}
  OBVIOUS
<1> HIDE DEF calls, at
<1>6. pCall' = [calls EXCEPT ![c] = r]
  BY <1>3
<1>7. calls[c] \in ClientRec /\ calls[c].op = "close" /\ calls[c].p = p
  BY <1>1, <1>4 DEF Calm
<1>8. Turns(pCall[c], r)
  BY <1>1, <1>5, <1>7 DEF Turns, ClientRec, ClientPlaces
<1> HIDE DEF r
<1> QED BY <1>2, <1>3, <1>4, <1>6, <1>8, ClientTurns, KeptInv DEF ProcessInv

(* A piece of the payload, and the end of a write. *)
LEMMA WriteProceedsTurns ==
  ASSUME ProcessConstantsOK, ProcessInv, NEW c \in Clients, WriteProceeds(c)
  PROVE  ProcessInv'
<1> DEFINE p == pCall[c].p
           ended == Ends(c, "ok")
           w == WokenClients(ended, p, {"write"})
<1>1. pCall[c].at = "pipe" /\ p \in Procs /\ pCall[c] \in ClientRec /\ pCall \in [Clients -> ClientRec]
  BY DEF WriteProceeds, ProcessInv, CallsInv, ClientInv, ClientTypes
<1>2. HandleTypes' /\ ProcessesKept
  BY <1>1, WriteProceedsKeeps DEF ProcessInv
<1>3. fed' = [fed EXCEPT ![p] = Append(fed[p], c)]
  BY DEF WriteProceeds
<1>4. CallsInv /\ Nobody \notin Clients /\ AtPipe(c)
  BY <1>1 DEF ProcessInv, ProcessConstantsOK, AtPipe
<1>5. CASE pCall[c].left # 1
  <2> DEFINE r == [pCall[c] EXCEPT !.left = pCall[c].left - 1]
  <2>1. busy' = busy /\ pCall' = [pCall EXCEPT ![c] = r]
    BY <1>5 DEF WriteProceeds
  <2>2. r \in ClientRec /\ r.p = p /\ r.op = pCall[c].op /\ r.at = "pipe"
    BY <1>1 DEF ClientRec
  <2> HIDE DEF r
  <2>3. pCall'[c] = r /\ \A b \in Clients \ {c} : pCall'[b] = pCall[b]
    BY <1>1, <2>1
  <2>4. \A b \in Clients \ {c} : Calm(pCall[b], pCall'[b])
    BY <1>1, <2>3 DEF Calm
  <2>5. pCall' = [b \in Clients |-> pCall'[b]]
    BY <1>1, <2>1
  <2> HIDE DEF p
  <2> QED BY <1>2, <1>3, <1>4, <2>1, <2>2, <2>3, <2>4, <2>5, WriterSteps, KeptInv DEF p
<1>6. CASE pCall[c].left = 1
  <2>1. busy' = [busy EXCEPT ![p] = Nobody] /\ pCall' = w
    BY <1>6 DEF WriteProceeds
  <2>2. ended \in [Clients -> ClientRec] /\ ended[c] = [pCall[c] EXCEPT !.at = "ok"]
        /\ \A b \in Clients \ {c} : ended[b] = pCall[b]
    BY <1>1 DEF Ends, ClientRec, ClientPlaces
  <2>3. ended[c].p = p /\ ended[c].op = pCall[c].op /\ ended[c].at = "ok"
    BY <1>1, <2>2 DEF ClientRec
  <2> HIDE DEF ended
  <2>4. w \in [Clients -> ClientRec] /\ \A b \in Clients : Calm(ended[b], w[b])
    BY <2>2, WokenCalm
  <2> HIDE DEF w
  <2>5. pCall'[c] \in ClientRec /\ pCall'[c].p = p /\ pCall'[c].op = pCall[c].op /\ pCall'[c].at = "ok"
    BY <2>1, <2>3, <2>4 DEF Calm
  <2>6. \A b \in Clients \ {c} : Calm(pCall[b], pCall'[b])
    BY <2>1, <2>2, <2>4
  <2>7. pCall' = [b \in Clients |-> pCall'[b]]
    BY <2>1, <2>4
  <2> HIDE DEF p
  <2> QED BY <1>2, <1>3, <1>4, <2>1, <2>5, <2>6, <2>7, WriterSteps, KeptInv DEF p
<1> QED BY <1>5, <1>6

LEMMA WriteFailsTurns ==
  ASSUME ProcessConstantsOK, ProcessInv, NEW c \in Clients, WriteFails(c)
  PROVE  ProcessInv'
<1> DEFINE p == pCall[c].p
           ended == Ends(c, "failed")
           w == WokenClients(ended, p, {"write"})
<1>1. pCall[c].at \in {"pipe", "abort"} /\ pCall[c] \in ClientRec /\ pCall \in [Clients -> ClientRec]
  BY DEF WriteFails, ProcessInv, CallsInv, ClientTypes
<1>2. HandleTypes' /\ ProcessesKept
  <2>1. UNCHANGED <<h, child, left, drain, made, pipe, wrote>>
    BY DEF WriteFails, processKernel
  <2> QED BY <2>1, HandlesUntouched DEF ProcessInv
<1>3. fed' = fed /\ busy' = [busy EXCEPT ![p] = Nobody] /\ pCall' = w
  BY DEF WriteFails, processKernel
<1>4. CallsInv /\ Nobody \notin Clients /\ AtPipe(c)
  BY <1>1 DEF ProcessInv, ProcessConstantsOK, AtPipe
<1>5. ended \in [Clients -> ClientRec] /\ ended[c] = [pCall[c] EXCEPT !.at = "failed"]
      /\ \A b \in Clients \ {c} : ended[b] = pCall[b]
  BY <1>1 DEF Ends, ClientRec, ClientPlaces
<1>6. ended[c].p = p /\ ended[c].op = pCall[c].op /\ ended[c].at = "failed"
  BY <1>1, <1>5 DEF ClientRec
<1> HIDE DEF ended
<1>7. w \in [Clients -> ClientRec] /\ \A b \in Clients : Calm(ended[b], w[b])
  BY <1>5, WokenCalm
<1> HIDE DEF w
<1>8. pCall'[c] \in ClientRec /\ pCall'[c].p = p /\ pCall'[c].op = pCall[c].op /\ pCall'[c].at = "failed"
  BY <1>3, <1>6, <1>7 DEF Calm
<1>9. \A b \in Clients \ {c} : Calm(pCall[b], pCall'[b])
  BY <1>3, <1>5, <1>7
<1>10. pCall' = [b \in Clients |-> pCall'[b]]
  BY <1>3, <1>7
<1> HIDE DEF p
<1> QED BY <1>2, <1>3, <1>4, <1>8, <1>9, <1>10, WriterSteps, KeptInv DEF p

LEMMA GateExpiresKeeps ==
  ASSUME ProcessInv, NEW c \in Clients, GateExpires(c)
  PROVE  ProcessInv'
<1> DEFINE r == [pCall[c] EXCEPT !.at = "ready"]
<1>1. UNCHANGED <<h, child, left, drain, made, pipe, wrote, busy, fed>> /\ pCall[c].at = "gate"
      /\ pCall' = [pCall EXCEPT ![c] = r]
  BY DEF GateExpires, Ends, processKernel
<1>2. HandleTypes' /\ ProcessesKept
  BY <1>1, HandlesUntouched DEF ProcessInv
<1>3. pCall \in [Clients -> ClientRec]
  BY DEF ProcessInv, CallsInv, ClientTypes
<1>4. Calm(pCall[c], r)
  BY <1>1, <1>3 DEF Calm, ClientRec, ClientPlaces
<1> HIDE DEF r
<1>5. pCall' \in [Clients -> ClientRec] /\ \A b \in Clients : Calm(pCall[b], pCall'[b])
  BY <1>1, <1>3, <1>4 DEF Calm
<1> QED BY <1>1, <1>2, <1>5, CalmClients, KeptInv DEF ProcessInv

LEMMA ClientMoves ==
  ASSUME ProcessConstantsOK, ProcessInv, NEW c \in Clients,
         \/ \E p \in Procs : ClientCalls(c, p)
         \/ Resumes(c) \/ WriteProceeds(c) \/ WriteFails(c) \/ GateExpires(c)
  PROVE  ProcessInv'
<1>1. ASSUME NEW p \in Procs, ClientCalls(c, p) PROVE ProcessInv'
  <2>1. pCall[c].at = "free"
    BY <1>1 DEF ClientCalls
  <2>2. CASE \E op \in {"write", "writeClose"} : WriteTries(c, p, op)
    BY <2>1, <2>2, WriteTriesKeeps
  <2>3. CASE WaitTries(c, p) \/ WaitForExit(c, p)
    BY <2>1, <2>3, WaitTriesKeeps
  <2>4. CASE CloseBegins(c, p)
    BY <2>1, <2>4, CloseBeginsKeeps
  <2> QED BY <1>1, <2>2, <2>3, <2>4 DEF ClientCalls
<1>2. CASE Resumes(c)
  <2> DEFINE p == pCall[c].p
  <2>1. pCall[c].at = "ready" /\ p \in Procs /\ pCall[c] \in ClientRec
    BY <1>2 DEF Resumes, ProcessInv, CallsInv, ClientInv, ClientTypes
  <2>2. CASE Gate(pCall[c].op) = "write" /\ WriteTries(c, p, pCall[c].op)
    <3>1. pCall[c].op \in {"write", "writeClose"}
      BY <2>2 DEF Gate
    <3> QED BY <2>1, <2>2, <3>1, WriteTriesKeeps
  <2>3. CASE WaitTries(c, p) \/ WaitForExit(c, p)
    BY <2>1, <2>3, WaitTriesKeeps
  <2>4. CASE CloseJoins(c)
    BY <2>4, CloseJoinsTurns
  <2> QED BY <1>2, <2>2, <2>3, <2>4 DEF Resumes
<1> QED BY <1>1, <1>2, WriteProceedsTurns, WriteFailsTurns, GateExpiresKeeps

LEMMA ProcessStarts ==
  ASSUME ProcessConstantsOK, ProcessInit
  PROVE  ProcessInv
<1>1. Fresh \in HandleRec /\ HandleOK(Fresh) /\ ~Fresh.started /\ Fresh.eof = {}
  BY DEF Fresh, HandleRec, HandleOK, Statuses, TimerStates
<1>2. Idle \in ClientRec /\ Idle.at = "free" /\ Idle.op = "none"
  BY DEF Idle, ClientRec, ClientPlaces
<1>3. HandleTypes
  <2>1. made \in Counts
    BY DEF ProcessInit, Counts
  <2>2. h \in [Procs -> HandleRec] /\ drain \in [Procs -> [Streams -> DrainPlaces]]
        /\ child \in [Procs -> ChildStates] /\ left \in [Procs -> SUBSET Descendants]
    BY <1>1 DEF ProcessInit, DrainPlaces, ChildStates
  <2> QED BY <2>1, <2>2 DEF HandleTypes, ProcessInit
<1>4. ASSUME NEW p \in Procs PROVE DrainedInv(p)
  <2>1. /\ h[p] = Fresh /\ left[p] = {} /\ child[p] = "none"
        /\ \A s \in Streams : drain[p][s] = "none" /\ made[p][s] = 0 /\ pipe[p][s] = 0 /\ wrote[p][s] = 0
    BY DEF ProcessInit
  <2> QED BY <1>1, <2>1 DEF DrainedInv
<1>5. CallsInv
  <2>1. <<>> \in Seq(Clients)
    OBVIOUS
  <2>2. ClientTypes
    BY <1>2, <2>1 DEF ProcessInit, ClientTypes
  <2>3. ClientInv /\ WaitedInv /\ BusyInv
    BY <1>2 DEF ProcessInit, ClientInv, WaitedInv, BusyInv, AtPipe
  <2>4. FedInv /\ WritesAreSerialized
    BY DEF ProcessInit, FedInv, WritesAreSerialized
  <2> QED BY <2>2, <2>3, <2>4 DEF CallsInv
<1> QED BY <1>3, <1>4, <1>5 DEF ProcessInv

LEMMA ProcessNextKeeps ==
  ASSUME ProcessConstantsOK, ProcessInv, [ProcessNext]_processVars
  PROVE  ProcessInv'
<1>1. CASE UNCHANGED processVars
  <2>1. UNCHANGED <<h, child, left, drain, made, pipe, wrote, busy, fed, pCall>>
    BY <1>1 DEF processVars, processState, processKernel
  <2>2. HandleTypes' /\ ProcessesKept
    BY <2>1, HandlesUntouched DEF ProcessInv
  <2> QED BY <2>1, <2>2, SameClients, KeptInv DEF ProcessInv
<1>2. CASE ProcessNext
  BY <1>2, ProcessMoves, ClientMoves DEF ProcessNext
<1> QED BY <1>1, <1>2

LEMMA ProcessInvariant ==
  ASSUME ProcessConstantsOK
  PROVE  ProcessSpec => []ProcessInv
<1>1. ProcessInit => ProcessInv
  BY ProcessStarts
<1>2. ProcessInv /\ [ProcessNext]_processVars => ProcessInv'
  BY ProcessNextKeeps
<1> QED BY <1>1, <1>2, PTL DEF ProcessSpec

-----------------------------------------------------------------------------
(* A wait that succeeds has everything that the child and its descendants  *)
(* ever wrote: at the join of the reap and the two drains (try_finish)     *)
(* nothing is left in the pipes, and nobody is left to write to them, or   *)
(* the process is closing and wait fails (wait, begin_close).              *)
THEOREM WaitsAreComplete ==
  ASSUME ProcessConstantsOK
  PROVE  ProcessSpec => []WaitIsComplete
<1>1. ProcessInv => WaitIsComplete
  <2> SUFFICES ASSUME ProcessInv, NEW c \in Clients, pCall[c].op = "wait", pCall[c].at = "ok"
               PROVE  made[pCall[c].p] = wrote[pCall[c].p]
    BY DEF WaitIsComplete
  <2>1. PICK p : p = pCall[c].p
    OBVIOUS
  <2>2. p \in Procs /\ \A s \in Streams : Dry(p, s)
    BY <2>1 DEF ProcessInv, CallsInv, ClientInv, WaitedInv
  <2>3. made[p] \in [Streams -> Nat] /\ wrote[p] \in [Streams -> Nat]
    BY <2>2 DEF ProcessInv, HandleTypes, Counts
  <2>4. \A s \in Streams : made[p][s] + pipe[p][s] = wrote[p][s] /\ pipe[p][s] = 0
    BY <2>2 DEF ProcessInv, DrainedInv, Dry
  <2>5. \A s \in Streams : made[p][s] = wrote[p][s]
    BY <2>3, <2>4
  <2> QED BY <2>1, <2>3, <2>5
<1> QED BY <1>1, ProcessInvariant, PTL

(* The payloads reach a child's stdin whole and one after the other: a     *)
(* writer holds write_busy from its first byte to its last, through every  *)
(* suspension, and a woken one looks at it again (Process::write).         *)
THEOREM WritesStayWhole ==
  ASSUME ProcessConstantsOK
  PROVE  ProcessSpec => []WritesAreSerialized
<1>1. ProcessInv => WritesAreSerialized
  BY DEF ProcessInv, CallsInv
<1> QED BY <1>1, ProcessInvariant, PTL

-----------------------------------------------------------------------------
-----------------------------------------------------------------------------
(* The chunks of a process.                                                *)

Ref == [stream : Streams, from : Nat, size : Nat]
Sizes(refs) == [i \in DOMAIN refs |-> refs[i].size]
(* The sizes of the chunks of a stream. *)
Shares(refs, s) == [i \in DOMAIN refs |-> IF refs[i].stream = s THEN refs[i].size ELSE 0]

(* The lesser of two numbers. *)
LEMMA LesserOf ==
  ASSUME NEW a \in Nat, NEW b \in Nat
  PROVE  Min({a, b}) \in Nat
<1>1. \E x \in {a, b} : \A y \in {a, b} : x <= y
  OBVIOUS
<1> QED BY <1>1 DEF Min

(* The sizes are numbers, one for each chunk. *)
LEMMA SizesKnown ==
  ASSUME NEW refs \in Seq(Ref), NEW s
  PROVE  /\ Sizes(refs) \in Seq(Nat) /\ DOMAIN Sizes(refs) = DOMAIN refs
         /\ Shares(refs, s) \in Seq(Nat) /\ DOMAIN Shares(refs, s) = DOMAIN refs
         /\ DOMAIN refs = 1 .. Len(refs) /\ Len(refs) \in Nat
<1>1. ASSUME NEW i \in 1 .. Len(refs) PROVE refs[i].size \in Nat
  <2>1. refs[i] \in Ref
    OBVIOUS
  <2>2. QED
    BY <2>1 DEF Ref
<1>2. Sizes(refs) \in [1 .. Len(refs) -> Nat] /\ Shares(refs, s) \in [1 .. Len(refs) -> Nat]
  BY <1>1 DEF Sizes, Shares
<1>3. Len(refs) \in Nat /\ DOMAIN refs = 1 .. Len(refs)
  OBVIOUS
<1>4. DOMAIN Sizes(refs) = DOMAIN refs /\ DOMAIN Shares(refs, s) = DOMAIN refs
  BY DEF Sizes, Shares
<1>5. Sizes(refs) \in Seq(Nat)
  BY <1>2, <1>3
<1>6. Shares(refs, s) \in Seq(Nat)
  BY <1>2, <1>3
<1>7. QED
  BY <1>3, <1>4, <1>5, <1>6

(* Size is a total. *)
LEMMA SizeTotal ==
  ASSUME NEW refs \in Seq(Ref)
  PROVE  Size(refs) = Total(Sizes(refs)) /\ Size(refs) \in Nat
<1> DEFINE S == DOMAIN refs
           w == Sizes(refs)
           it == CHOOSE f : f = [s \in SUBSET S |-> IF s = {} THEN 0
                                  ELSE refs[Chosen(s)].size + f[s \ {Chosen(s)}]]
<1>1. Size(refs) = it[S]
  BY DEF Size, FoldSeq, FoldFunction, FoldFunctionOnSet, MapThenFoldSet, Chosen
<1>2. (\A x \in S : w[x] \in Nat) /\ IsFiniteSet(S) /\ DOMAIN w = S
  <2>1. S = 1 .. Len(refs) /\ w \in Seq(Nat) /\ DOMAIN w = S
    BY SizesKnown
  <2>2. IsFiniteSet(1 .. Len(refs))
    BY FS_Interval
  <2> HIDE DEF w
  <2>3. QED
    BY <2>1, <2>2
<1>3. \A s \in SUBSET S : s # {} => w[Chosen(s)] = refs[Chosen(s)].size
  BY DEF Chosen, Sizes
<1>4. PICK g : SumsUp(g, w, S)
  <2> HIDE DEF w, S
  <2>1. QED
    BY <1>2, FoldExists
<1> HIDE DEF w, S
<1>5. g = [s \in SUBSET S |-> IF s = {} THEN 0 ELSE refs[Chosen(s)].size + g[s \ {Chosen(s)}]]
  BY <1>3, <1>4 DEF SumsUp
<1>6. it = [s \in SUBSET S |-> IF s = {} THEN 0 ELSE refs[Chosen(s)].size + it[s \ {Chosen(s)}]]
  BY <1>5
<1> HIDE DEF it
<1>7. SumsUp(it, w, S)
  BY <1>3, <1>6 DEF SumsUp
<1>8. it[S] = Cardinality(Units(w, S))
  BY <1>2, <1>7, FoldCounts
<1>9. Size(refs) = Total(Sizes(refs))
  BY <1>1, <1>2, <1>8 DEF Total, w
<1>10. QED
  BY <1>9, SizesKnown, TotalNat

(* So is Acc. *)
LEMMA AccTotal ==
  ASSUME NEW refs \in Seq(Ref), NEW s
  PROVE  Acc(refs, s) = Total(Shares(refs, s)) /\ Acc(refs, s) \in Nat
<1> DEFINE S == DOMAIN refs
           w == Shares(refs, s)
           it == CHOOSE f : f = [u \in SUBSET S |-> IF u = {} THEN 0
                                  ELSE IF refs[Chosen(u)].stream = s
                                       THEN refs[Chosen(u)].size + f[u \ {Chosen(u)}]
                                       ELSE f[u \ {Chosen(u)}]]
<1>1. Acc(refs, s) = it[S]
  BY DEF Acc, FoldSeq, FoldFunction, FoldFunctionOnSet, MapThenFoldSet, Chosen
<1>2. (\A x \in S : w[x] \in Nat) /\ IsFiniteSet(S) /\ DOMAIN w = S
  <2>1. IsFiniteSet(1 .. Len(refs)) /\ S = 1 .. Len(refs) /\ w \in Seq(Nat) /\ DOMAIN w = S
    BY FS_Interval, SizesKnown
  <2> HIDE DEF w
  <2>2. QED
    BY <2>1
<1>3. \A u \in SUBSET S : u # {} => w[Chosen(u)] = IF refs[Chosen(u)].stream = s THEN refs[Chosen(u)].size ELSE 0
  BY DEF Chosen, Shares
<1>4. PICK g : SumsUp(g, w, S)
  <2> HIDE DEF w, S
  <2>1. QED
    BY <1>2, FoldExists
<1>5. \A u \in SUBSET S : g[u] \in Nat
  <2> HIDE DEF w, S
  <2>1. QED
    BY <1>2, <1>4, FoldNat
<1> HIDE DEF w, S
<1>6. g = [u \in SUBSET S |-> IF u = {} THEN 0
             ELSE IF refs[Chosen(u)].stream = s
                  THEN refs[Chosen(u)].size + g[u \ {Chosen(u)}]
                  ELSE g[u \ {Chosen(u)}]]
  <2>1. g = [u \in SUBSET S |-> IF u = {} THEN 0 ELSE w[Chosen(u)] + g[u \ {Chosen(u)}]]
    BY <1>4 DEF SumsUp
  <2>2. \A u \in SUBSET S : g[u \ {Chosen(u)}] \in Nat
    BY <1>5
  <2>3. ASSUME NEW u \in SUBSET S, u # {}
        PROVE  w[Chosen(u)] + g[u \ {Chosen(u)}] =
                 IF refs[Chosen(u)].stream = s THEN refs[Chosen(u)].size + g[u \ {Chosen(u)}]
                 ELSE g[u \ {Chosen(u)}]
    <3>1. PICK n \in Nat : n = g[u \ {Chosen(u)}]
      BY <2>2
    <3>2. w[Chosen(u)] = IF refs[Chosen(u)].stream = s THEN refs[Chosen(u)].size ELSE 0
      BY <1>3, <2>3
    <3>3. 0 + n = n
      OBVIOUS
    <3>4. QED
      BY <3>1, <3>2, <3>3
  <2>4. QED
    BY <2>1, <2>3
<1>7. it = [u \in SUBSET S |-> IF u = {} THEN 0
             ELSE IF refs[Chosen(u)].stream = s
                  THEN refs[Chosen(u)].size + it[u \ {Chosen(u)}]
                  ELSE it[u \ {Chosen(u)}]]
  BY <1>6
<1> HIDE DEF it
<1>8. it[S] = g[S]
  <2> DEFINE T == {u \in SUBSET S : it[u] # g[u]}
  <2>1. SUFFICES ASSUME T # {} PROVE FALSE
    OBVIOUS
  <2>2. PICK u \in T : \A v \in T : ~ (v \subseteq u /\ v # u)
    <3>1. T \subseteq SUBSET S
      OBVIOUS
    <3> HIDE DEF T
    <3>2. QED
      BY <1>2, <2>1, <3>1, SmallestSubset
  <2>3. u \in SUBSET S /\ it[u] # g[u]
    OBVIOUS
  <2>4. u # {}
    BY <1>6, <1>7, <2>3
  <2> DEFINE x == Chosen(u)
  <2>5. x \in u
    BY <2>4 DEF Chosen
  <2>6. it[u \ {x}] = g[u \ {x}]
    BY <2>2, <2>3, <2>5
  <2>7. /\ g[u] = IF refs[x].stream = s THEN refs[x].size + g[u \ {x}] ELSE g[u \ {x}]
        /\ it[u] = IF refs[x].stream = s THEN refs[x].size + it[u \ {x}] ELSE it[u \ {x}]
    BY <1>6, <1>7, <2>3, <2>4
  <2>8. QED
    BY <2>3, <2>6, <2>7
<1>9. g[S] = Cardinality(Units(w, S))
  BY <1>2, <1>4, FoldCounts
<1>10. Acc(refs, s) = Total(Shares(refs, s))
  BY <1>1, <1>2, <1>8, <1>9 DEF Total, w
<1>11. QED
  BY <1>10, SizesKnown, TotalNat


(* append_capture adds the size of its chunk. *)
LEMMA SizeGrows ==
  ASSUME NEW refs \in Seq(Ref), NEW r \in Ref
  PROVE  Size(Append(refs, r)) = Size(refs) + r.size
<1>1. Append(refs, r) \in Seq(Ref) /\ r.size \in Nat
  BY DEF Ref
<1>2. Sizes(Append(refs, r)) = Append(Sizes(refs), r.size)
  <2> DEFINE a == Append(refs, r)
             w == Sizes(refs)
             b == Append(w, r.size)
  <2>1. /\ Len(a) = Len(refs) + 1 /\ a[Len(refs) + 1] = r /\ \A i \in 1 .. Len(refs) : a[i] = refs[i]
        /\ Len(refs) \in Nat
    BY AppendProperties
  <2>2. w \in Seq(Nat) /\ DOMAIN w = 1 .. Len(refs) /\ Len(w) = Len(refs)
    BY SizesKnown
  <2>3. Sizes(a) \in Seq(Nat) /\ DOMAIN Sizes(a) = 1 .. Len(a) /\ Len(Sizes(a)) = Len(a)
    <3>1. a \in Seq(Ref)
      BY <1>1
    <3> HIDE DEF a
    <3>2. /\ Sizes(a) \in Seq(Nat) /\ DOMAIN Sizes(a) = 1 .. Len(a) /\ Len(a) \in Nat
      BY <3>1, SizesKnown
    <3>3. Len(Sizes(a)) \in Nat /\ DOMAIN Sizes(a) = 1 .. Len(Sizes(a))
      BY <3>2, LenProperties
    <3> QED BY <3>2, <3>3
  <2>4. \A i \in 1 .. Len(refs) : w[i] = refs[i].size
    BY <2>2 DEF Sizes
  <2> HIDE DEF w
  <2>5. /\ b \in Seq(Nat) /\ Len(b) = Len(w) + 1 /\ b[Len(w) + 1] = r.size
        /\ \A i \in 1 .. Len(w) : b[i] = w[i]
    BY <1>1, <2>2, AppendProperties
  <2>6. \A i \in 1 .. Len(a) : Sizes(a)[i] = a[i].size
    BY <2>3 DEF Sizes
  <2> HIDE DEF a, b
  <2>7. \A i \in 1 .. Len(a) : Sizes(a)[i] = b[i]
    <3> SUFFICES ASSUME NEW i \in 1 .. Len(a) PROVE a[i].size = b[i]
      BY <2>6
    <3>1. CASE i \in 1 .. Len(refs)
      BY <2>1, <2>2, <2>4, <2>5, <3>1
    <3>2. CASE i \notin 1 .. Len(refs)
      <4>1. i = Len(refs) + 1
        BY <2>1, <3>2
      <4>2. QED
        BY <2>1, <2>2, <2>5, <4>1
    <3>3. QED
      BY <3>1, <3>2
  <2>8. Sizes(a) = b
    BY <2>1, <2>2, <2>3, <2>5, <2>7, SeqEqual
  <2>9. QED
    BY <2>8 DEF a, b, w
<1>3. QED
  BY <1>1, <1>2, SizeTotal, SizesKnown, TotalAppend

LEMMA SizeEmpty == Size(<<>>) = 0
<1>1. <<>> \in Seq(Ref) /\ Sizes(<<>>) = <<>>
  BY DEF Sizes
<1>2. QED
  BY <1>1, SizeTotal, TotalEmpty

(* The bytes that all processes keep. *)
SizeOf == [p \in Procs |-> Size(kept[p])]
AllKept == Cardinality(Units(SizeOf, Procs))

(* The sum of BudgetExact is AllKept. *)
LEMMA FoldKept ==
  ASSUME IsFiniteSet(Procs), kept \in [Procs -> Seq(Ref)]
  PROVE  FoldSet(LAMBDA p, n : Size(kept[p]) + n, 0, Procs) = AllKept
<1> DEFINE w == SizeOf
           it == CHOOSE f : f = [s \in SUBSET Procs |-> IF s = {} THEN 0
                                  ELSE Size(kept[Chosen(s)]) + f[s \ {Chosen(s)}]]
<1>1. FoldSet(LAMBDA p, n : Size(kept[p]) + n, 0, Procs) = it[Procs]
  BY DEF FoldSet, MapThenFoldSet, Chosen
<1>2. \A x \in Procs : w[x] \in Nat
  BY SizeTotal DEF SizeOf
<1>3. \A s \in SUBSET Procs : s # {} => w[Chosen(s)] = Size(kept[Chosen(s)])
  BY DEF Chosen, SizeOf
<1>4. PICK g : SumsUp(g, w, Procs)
  <2> HIDE DEF w
  <2>1. QED
    BY <1>2, FoldExists
<1> HIDE DEF w
<1>5. g = [s \in SUBSET Procs |-> IF s = {} THEN 0 ELSE Size(kept[Chosen(s)]) + g[s \ {Chosen(s)}]]
  BY <1>3, <1>4 DEF SumsUp
<1>6. it = [s \in SUBSET Procs |-> IF s = {} THEN 0 ELSE Size(kept[Chosen(s)]) + it[s \ {Chosen(s)}]]
  BY <1>5
<1> HIDE DEF it
<1>7. SumsUp(it, w, Procs)
  BY <1>3, <1>6 DEF SumsUp
<1>8. it[Procs] = Cardinality(Units(w, Procs))
  BY <1>2, <1>7, FoldCounts
<1>9. QED
  BY <1>1, <1>8 DEF AllKept, w

(* A total changes by what one of its parts changes. *)
LEMMA PartChanges ==
  ASSUME NEW S, IsFiniteSet(S), NEW w, NEW v, \A x \in S : w[x] \in Nat /\ v[x] \in Nat,
         NEW x \in S, \A y \in S \ {x} : v[y] = w[y]
  PROVE  LET a == Cardinality(Units(w, S))
             b == Cardinality(Units(v, S))
         IN  a \in Nat /\ b \in Nat /\ a >= w[x] /\ b = (a - w[x]) + v[x]
<1>1. Units(v, S \ {x}) = Units(w, S \ {x})
  BY DEF Units
<1>2. IsFiniteSet(Units(w, S \ {x})) /\ Cardinality(Units(w, S \ {x})) \in Nat
  BY UnitsFinite
<1>3. w[x] \in Nat /\ v[x] \in Nat
  OBVIOUS
<1>4. Cardinality(Units(w, S)) = w[x] + Cardinality(Units(w, S \ {x}))
  BY <1>2, <1>3, UnitsCount
<1>5. Cardinality(Units(v, S)) = v[x] + Cardinality(Units(v, S \ {x}))
  <2>1. IsFiniteSet(Units(v, S \ {x})) /\ v[x] \in Nat
    BY <1>1, <1>2, <1>3
  <2> QED BY <2>1, UnitsCount
<1>6. QED
  BY <1>1, <1>2, <1>3, <1>4, <1>5

-----------------------------------------------------------------------------
(* The budget.                                                             *)

SlotOK(s) == s.slot <=> s.started /\ ~s.finished
Slots == {p \in Procs : h[p].slot}

BudgetInv ==
  /\ kept \in [Procs -> Seq(Ref)]
  /\ running = Cardinality(Slots) /\ buffered = AllKept
  /\ \A p \in Procs : SlotOK(h[p])

(* The slot through the steps of a handle: it is held from start to finish. *)
LEMMA TryFinishSlot ==
  ASSUME NEW s \in HandleRec, HandleOK(s), s.started, SlotOK(s)
  PROVE  SlotOK(TryFinish(s)) /\ (TryFinish(s).slot => s.slot)
<1> DEFINE f == [s EXCEPT !.finished = TRUE, !.stdin = FALSE, !.slot = FALSE,
                          !.timeout = Off(@), !.grace = Off(@)]
           status == IF s.timedOut THEN "TimedOut" ELSE IF s.cancelled THEN "Cancelled" ELSE "Exited"
           t == TryFinish(s)
<1>1. CASE s.finished \/ ~s.exited \/ s.eof # Streams
  <2>1. t = s
    BY <1>1 DEF TryFinish
  <2> QED BY <2>1
<1>2. CASE ~(s.finished \/ ~s.exited \/ s.eof # Streams)
  <2>1. f.finished = TRUE /\ f.slot = FALSE /\ f.started = s.started /\ DOMAIN f = DOMAIN s
    BY DEF HandleRec
  <2>2. t = IF s.closing THEN FinalizedProcess(f) ELSE [f EXCEPT !.status = status]
    BY <1>2 DEF TryFinish
  <2>3. t.finished = TRUE /\ t.slot = FALSE
    <3> HIDE DEF f, status
    <3>1. DOMAIN f = DOMAIN s /\ "finished" \in DOMAIN s /\ "slot" \in DOMAIN s
      BY <2>1 DEF HandleRec
    <3> QED BY <2>1, <2>2, <3>1 DEF FinalizedProcess
  <2> HIDE DEF t
  <2> QED BY <2>3 DEF SlotOK, t
<1> QED BY <1>1, <1>2

LEMMA ExitedSlot ==
  ASSUME NEW s \in HandleRec, HandleOK(s), s.started, SlotOK(s)
  PROVE  SlotOK(Exited(s)) /\ (Exited(s).slot => s.slot)
<1> DEFINE e == [s EXCEPT !.exited = TRUE, !.stdin = FALSE, !.timeout = Off(@)]
<1>1. CASE s.exited
  BY <1>1 DEF Exited
<1>2. CASE ~s.exited
  <2>1. Off(s.timeout) \in TimerStates
    BY DEF Off, TimerStates
  <2>2. /\ e \in HandleRec /\ e.started = s.started /\ e.eof = s.eof /\ e.closing = s.closing
        /\ e.status = s.status /\ e.finished = s.finished /\ e.slot = s.slot
    BY <2>1 DEF HandleRec
  <2>3. Exited(s) = TryFinish(e)
    BY <1>2 DEF Exited
  <2> HIDE DEF e
  <2>4. HandleOK(e) /\ SlotOK(e)
    BY <2>2 DEF HandleOK, SlotOK
  <2> QED BY <2>2, <2>3, <2>4, TryFinishSlot
<1> QED BY <1>1, <1>2

LEMMA FinalizedSlot ==
  ASSUME NEW s \in HandleRec, s.finished
  PROVE  SlotOK(FinalizedProcess(s)) /\ ~FinalizedProcess(s).slot
BY DEF FinalizedProcess, HandleRec, SlotOK

LEMMA ClosingSlot ==
  ASSUME NEW s \in HandleRec, HandleOK(s), SlotOK(s)
  PROVE  SlotOK(Closing(s)) /\ (Closing(s).slot => s.slot)
<1> DEFINE t == Closing(s)
<1>1. CASE s.status = "Closed"
  BY <1>1 DEF Closing
<1>2. CASE s.status # "Closed" /\ ~s.started
  <2>1. t = [s EXCEPT !.status = "Closed", !.closing = FALSE]
    BY <1>2 DEF Closing
  <2> HIDE DEF t
  <2>2. t.slot = s.slot /\ t.started = s.started /\ t.finished = s.finished
    BY <2>1 DEF HandleRec
  <2> QED BY <2>2 DEF SlotOK, t
<1>3. CASE s.status # "Closed" /\ s.started
  <2> DEFINE k == [s EXCEPT !.closing = TRUE, !.status = "Closing", !.cancelled = TRUE, !.stdin = FALSE,
                            !.timeout = Off(@), !.grace = Off(@)]
  <2>1. Off(s.timeout) \in TimerStates /\ Off(s.grace) \in TimerStates
    BY DEF Off, TimerStates
  <2>2. k \in HandleRec /\ k.slot = s.slot /\ k.started = s.started /\ k.finished = s.finished
    BY <2>1 DEF HandleRec, Statuses
  <2>3. t = IF s.finished THEN FinalizedProcess(k) ELSE k
    BY <1>3 DEF Closing
  <2> HIDE DEF k, t
  <2>4. CASE ~s.finished
    BY <2>2, <2>3, <2>4 DEF SlotOK, t
  <2>5. CASE s.finished
    BY <2>2, <2>3, <2>5, FinalizedSlot DEF t
  <2> QED BY <2>4, <2>5
<1> QED BY <1>1, <1>2, <1>3

(* What the budget is of does not change. *)
LEMMA BudgetStays ==
  ASSUME BudgetInv, UNCHANGED <<kept, running, buffered>>,
         \A p \in Procs : h'[p].slot = h[p].slot /\ h'[p].started = h[p].started /\ h'[p].finished = h[p].finished
  PROVE  BudgetInv'
<1>1. Slots' = Slots
  BY DEF Slots
<1>2. AllKept' = AllKept
  BY DEF AllKept, SizeOf
<1>3. \A p \in Procs : SlotOK(h[p])'
  BY DEF BudgetInv, SlotOK
<1> QED BY <1>1, <1>2, <1>3 DEF BudgetInv

(* The handle goes on to t. *)
LEMMA BecomeKeeps ==
  ASSUME ProcessConstantsOK, HandleTypes, BudgetInv, NEW p \in Procs, NEW t, NEW gates, Become(p, t, gates),
         SlotOK(t), t.slot => h[p].slot
  PROVE  BudgetInv'
<1> DEFINE closed == t.status = "Closed" /\ h[p].status # "Closed"
<1>1. /\ h' = [h EXCEPT ![p] = t]
      /\ running' = IF h[p].slot /\ ~t.slot /\ running > 0 THEN running - 1 ELSE running
      /\ kept' = IF closed THEN [kept EXCEPT ![p] = <<>>] ELSE kept
      /\ buffered' = IF ~closed THEN buffered
                    ELSE IF buffered > Size(kept[p]) THEN buffered - Size(kept[p]) ELSE 0
  BY DEF Become
<1>2. h'[p] = t /\ \A q \in Procs \ {p} : h'[q] = h[q]
  BY <1>1 DEF HandleTypes
<1>3. IsFiniteSet(Procs) /\ kept \in [Procs -> Seq(Ref)] /\ running = Cardinality(Slots) /\ buffered = AllKept
  BY DEF BudgetInv, ProcessConstantsOK
<1>4. IsFiniteSet(Slots)
  BY <1>3, FS_Subset DEF Slots
<1>5. running' = Cardinality(Slots')
  <2>1. CASE h[p].slot /\ ~t.slot
    <3>1. p \in Slots /\ Slots' = Slots \ {p}
      BY <1>2, <2>1 DEF Slots
    <3>2. Cardinality(Slots \ {p}) = Cardinality(Slots) - 1
      BY <1>4, <3>1, FS_RemoveElement
    <3>3. Cardinality(Slots \ {p}) \in Nat /\ Cardinality(Slots) \in Nat
      <4>1. IsFiniteSet(Slots \ {p})
        BY <1>4, FS_RemoveElement
      <4> QED BY <1>4, <4>1, FS_CardinalityType
    <3>4. running > 0
      BY <1>3, <3>2, <3>3
    <3> QED BY <1>1, <1>3, <2>1, <3>1, <3>2, <3>4
  <2>2. CASE ~(h[p].slot /\ ~t.slot)
    <3>1. Slots' = Slots
      BY <1>2, <2>2 DEF Slots
    <3> QED BY <1>1, <1>3, <2>2, <3>1
  <2> QED BY <2>1, <2>2
<1>6. kept' \in [Procs -> Seq(Ref)] /\ buffered' = AllKept'
  <2>1. CASE closed
    <3>1. kept' = [kept EXCEPT ![p] = <<>>] /\ <<>> \in Seq(Ref)
      BY <1>1, <2>1
    <3>2. kept' \in [Procs -> Seq(Ref)] /\ kept'[p] = <<>> /\ \A q \in Procs \ {p} : kept'[q] = kept[q]
      BY <1>3, <3>1
    <3> DEFINE w == SizeOf
               v == SizeOf'
    <3>3. \A q \in Procs : w[q] = Size(kept[q]) /\ v[q] = Size(kept'[q])
      BY DEF SizeOf
    <3>4. (\A q \in Procs : w[q] \in Nat /\ v[q] \in Nat) /\ v[p] = 0 /\ \A q \in Procs \ {p} : v[q] = w[q]
      BY <1>3, <3>2, <3>3, SizeTotal, SizeEmpty
    <3>5. AllKept = Cardinality(Units(w, Procs)) /\ AllKept' = Cardinality(Units(v, Procs))
      BY DEF AllKept
    <3>6. w[p] = Size(kept[p])
      BY <3>3
    <3> HIDE DEF w, v
    <3>7. /\ AllKept \in Nat /\ AllKept' \in Nat /\ AllKept >= w[p] /\ AllKept' = (AllKept - w[p]) + v[p]
      BY <1>3, <3>4, <3>5, PartChanges
    <3>8. w[p] \in Nat
      BY <3>4
    <3>9. buffered' = IF buffered > Size(kept[p]) THEN buffered - Size(kept[p]) ELSE 0
      BY <1>1, <2>1
    <3> HIDE DEF closed
    <3> QED BY <1>3, <3>2, <3>4, <3>6, <3>7, <3>8, <3>9
  <2>2. CASE ~closed
    <3>1. kept' = kept /\ buffered' = buffered
      BY <1>1, <2>2
    <3>2. AllKept' = AllKept
      BY <3>1 DEF AllKept, SizeOf
    <3> QED BY <1>3, <3>1, <3>2
  <2> QED BY <2>1, <2>2
<1>7. \A q \in Procs : SlotOK(h[q])'
  BY <1>2 DEF BudgetInv, SlotOK
<1> QED BY <1>5, <1>6, <1>7 DEF BudgetInv


-----------------------------------------------------------------------------
(* The steps.                                                              *)

(* start takes a slot. *)
LEMMA StartBudget ==
  ASSUME ProcessConstantsOK, HandleTypes, BudgetInv, NEW p \in Procs, HandleOK(h[p]), Start(p)
  PROVE  BudgetInv'
<1> DEFINE t == [Fresh EXCEPT !.status = "Running", !.started = TRUE, !.stdin = TRUE, !.slot = TRUE,
                   !.timeout = IF "timeout" \in pUse.traits[p] THEN "armed" ELSE "off"]
<1>1. /\ h[p].status = "Created" /\ running' = running + 1
      /\ h' = [h EXCEPT ![p] = t] /\ kept' = kept /\ buffered' = buffered
  BY DEF Start
<1>2. t.started /\ t.slot /\ ~t.finished
  BY DEF Fresh
<1> HIDE DEF t
<1>3. h'[p] = t /\ \A q \in Procs \ {p} : h'[q] = h[q]
  BY <1>1 DEF HandleTypes
<1>4. ~h[p].slot
  <2>1. ~h[p].started
    BY <1>1 DEF HandleOK
  <2> QED BY <2>1 DEF BudgetInv, SlotOK
<1>5. p \notin Slots /\ Slots' = Slots \cup {p}
  BY <1>2, <1>3, <1>4 DEF Slots
<1>6. IsFiniteSet(Slots)
  <2>1. IsFiniteSet(Procs) /\ Slots \subseteq Procs
    BY DEF ProcessConstantsOK, Slots
  <2> QED BY <2>1, FS_Subset
<1>7. Cardinality(Slots \cup {p}) = Cardinality(Slots) + 1
  BY <1>5, <1>6, FS_AddElement
<1>8. running' = Cardinality(Slots')
  BY <1>1, <1>5, <1>7 DEF BudgetInv
<1>9. AllKept' = AllKept
  BY <1>1 DEF AllKept, SizeOf
<1>10. \A q \in Procs : SlotOK(h[q])'
  BY <1>2, <1>3 DEF BudgetInv, SlotOK
<1> QED BY <1>1, <1>8, <1>9, <1>10 DEF BudgetInv

(* append_capture charges what it keeps. *)
LEMMA DrainTakesBudget ==
  ASSUME ProcessConstantsOK, HandleTypes, BudgetInv, NEW p \in Procs, NEW s \in Streams, DrainTakes(p, s)
  PROVE  BudgetInv'
<1> DEFINE n == pipe[p][s]
           room == Room(p, s)
           take == Min({n, room})
           r == [stream |-> s, from |-> Acc(kept[p], s), size |-> take]
<1>1. UNCHANGED <<h, running>>
  BY DEF DrainTakes
<1>2. CASE room = 0
  <2>1. UNCHANGED <<kept, buffered>>
    BY <1>2 DEF DrainTakes
  <2> QED BY <1>1, <2>1, BudgetStays
<1>3. CASE room # 0
  <2>1. kept' = [kept EXCEPT ![p] = Append(kept[p], r)] /\ buffered' = buffered + take
    BY <1>3 DEF DrainTakes
  <2>2. IsFiniteSet(Procs) /\ kept \in [Procs -> Seq(Ref)] /\ buffered = AllKept
    BY DEF BudgetInv, ProcessConstantsOK
  <2>3. n \in Nat
    BY DEF HandleTypes, Counts
  <2>4. Acc(kept[p], s) \in Nat
    BY <2>2, AccTotal
  <2>5. buffered \in Nat
    <3>1. \A q \in Procs : SizeOf[q] \in Nat
      BY <2>2, SizeTotal DEF SizeOf
    <3>2. IsFiniteSet(Units(SizeOf, Procs))
      BY <2>2, <3>1, UnitsFinite
    <3> QED BY <2>2, <3>2, FS_CardinalityType DEF AllKept
  <2>6. EntryRoom(p, s) \in Nat /\ GlobalRoom \in Nat
    <3>1. Cap \in Nat /\ MaxTotal \in Nat
      BY DEF ProcessConstantsOK
    <3> QED BY <2>4, <2>5, <3>1 DEF EntryRoom, GlobalRoom
  <2>7. room \in Nat
    BY <2>6, LesserOf DEF Room
  <2>8. take \in Nat
    <3> HIDE DEF room, n
    <3> QED BY <2>3, <2>7, LesserOf
  <2> HIDE DEF room, n, take
  <2>9. r \in Ref /\ r.size = take
    BY <2>4, <2>8 DEF Ref
  <2> HIDE DEF r
  <2>10. kept'[p] = Append(kept[p], r) /\ \A q \in Procs \ {p} : kept'[q] = kept[q]
    BY <2>1, <2>2
  <2>11. kept[p] \in Seq(Ref) /\ Append(kept[p], r) \in Seq(Ref)
    BY <2>2, <2>9
  <2>12. kept' \in [Procs -> Seq(Ref)]
    BY <2>1, <2>2, <2>11
  <2> DEFINE w == SizeOf
             v == SizeOf'
  <2>13. \A q \in Procs : w[q] = Size(kept[q]) /\ v[q] = Size(kept'[q])
    BY DEF SizeOf
  <2>14. \A q \in Procs : w[q] \in Nat /\ v[q] \in Nat
    BY <2>2, <2>12, <2>13, SizeTotal
  <2>15. v[p] = w[p] + take
    BY <2>9, <2>10, <2>11, <2>13, SizeGrows
  <2>16. \A q \in Procs \ {p} : v[q] = w[q]
    BY <2>10, <2>13
  <2>17. AllKept = Cardinality(Units(w, Procs)) /\ AllKept' = Cardinality(Units(v, Procs))
    BY DEF AllKept
  <2> HIDE DEF w, v
  <2>18. AllKept \in Nat /\ AllKept >= w[p] /\ AllKept' = (AllKept - w[p]) + v[p]
    BY <2>2, <2>14, <2>16, <2>17, PartChanges
  <2>19. w[p] \in Nat
    BY <2>14
  <2>20. buffered' = AllKept'
    BY <2>1, <2>2, <2>8, <2>15, <2>18, <2>19
  <2>21. Slots' = Slots /\ \A q \in Procs : SlotOK(h[q])'
    BY <1>1 DEF Slots, BudgetInv, SlotOK
  <2> QED BY <1>1, <2>12, <2>20, <2>21 DEF BudgetInv
<1> QED BY <1>2, <1>3

(* The end of a drain, the reap and a close give back what they end. *)
LEMMA DrainEndsBudget ==
  ASSUME ProcessConstantsOK, HandleTypes, BudgetInv, NEW p \in Procs, NEW s \in Streams, DrainEnds(p, s),
         DrainedInv(p)
  PROVE  BudgetInv'
<1> DEFINE e == [h[p] EXCEPT !.eof = h[p].eof \cup {s}]
           t == TryFinish(e)
<1>1. h[p] \in HandleRec /\ drain[p][s] = "abort"
  BY DEF HandleTypes, DrainEnds
<1>2. h[p].started /\ HandleOK(h[p])
  BY <1>1 DEF DrainedInv
<1>3. /\ e \in HandleRec /\ e.eof = h[p].eof \cup {s} /\ e.started = h[p].started /\ e.finished = h[p].finished
      /\ e.status = h[p].status /\ e.closing = h[p].closing /\ e.slot = h[p].slot
  BY <1>1 DEF HandleRec
<1>4. \E gates : Become(p, t, gates)
  BY DEF DrainEnds
<1> HIDE DEF e
<1>5. HandleOK(e) /\ SlotOK(e)
  BY <1>2, <1>3 DEF HandleOK, SlotOK, BudgetInv
<1>6. SlotOK(t) /\ (t.slot => h[p].slot)
  BY <1>2, <1>3, <1>5, TryFinishSlot
<1> HIDE DEF t
<1> QED BY <1>4, <1>6, BecomeKeeps

LEMMA ReapBudget ==
  ASSUME ProcessConstantsOK, HandleTypes, BudgetInv, NEW p \in Procs, Reap(p), DrainedInv(p)
  PROVE  BudgetInv'
<1> DEFINE t == Exited(h[p])
<1>1. h[p] \in HandleRec /\ HandleOK(h[p]) /\ h[p].started /\ SlotOK(h[p])
  BY DEF HandleTypes, DrainedInv, Reap, BudgetInv
<1>2. SlotOK(t) /\ (t.slot => h[p].slot)
  BY <1>1, ExitedSlot
<1>3. \E gates : Become(p, t, gates)
  BY DEF Reap
<1> HIDE DEF t
<1> QED BY <1>2, <1>3, BecomeKeeps

LEMMA CloseBudget ==
  ASSUME ProcessConstantsOK, HandleTypes, BudgetInv, NEW p \in Procs, BeginsProcessClose(p), DrainedInv(p)
  PROVE  BudgetInv'
<1> DEFINE t == Closing(h[p])
<1>1. h[p] \in HandleRec /\ HandleOK(h[p]) /\ SlotOK(h[p])
  BY DEF HandleTypes, DrainedInv, BudgetInv
<1>2. SlotOK(t) /\ (t.slot => h[p].slot)
  BY <1>1, ClosingSlot
<1>3. \E gates : Become(p, t, gates)
  BY DEF BeginsProcessClose
<1> HIDE DEF t
<1> QED BY <1>2, <1>3, BecomeKeeps

LEMMA JoinBudget ==
  ASSUME ProcessConstantsOK, HandleTypes, BudgetInv, NEW c \in Clients, pCall[c].p \in Procs, CloseJoins(c)
  PROVE  BudgetInv'
<1> DEFINE p == pCall[c].p
           t == IF h[p].finished /\ h[p].status # "Closed" THEN FinalizedProcess(h[p]) ELSE h[p]
<1>1. h[p] \in HandleRec /\ SlotOK(h[p])
  BY DEF HandleTypes, BudgetInv
<1>2. SlotOK(t) /\ (t.slot => h[p].slot)
  BY <1>1, FinalizedSlot
<1>3. \E gates : Become(p, t, gates)
  BY DEF CloseJoins
<1>4. p \in Procs
  OBVIOUS
<1> HIDE DEF t, p
<1> QED BY <1>2, <1>3, <1>4, BecomeKeeps

(* The timers and the end of a write leave the slot and the buffers alone. *)
LEMMA TimerBudget ==
  ASSUME HandleTypes, BudgetInv, NEW p \in Procs,
         Timers(p) \/ \E sig \in {"SIGTERM", "SIGKILL"} : Terminate(p, sig)
  PROVE  BudgetInv'
<1>1. UNCHANGED <<kept, running, buffered>>
  BY DEF Timers, TimerExpires, TimeoutFires, GraceFires, Terminate
<1>2. h \in [Procs -> HandleRec]
  BY DEF HandleTypes
<1>3. \A q \in Procs : h'[q].slot = h[q].slot /\ h'[q].started = h[q].started /\ h'[q].finished = h[q].finished
  <2>1. CASE \E x : h' = [h EXCEPT ![p].timeout = x] \/ h' = [h EXCEPT ![p].grace = x]
    <3>1. PICK x : h' = [h EXCEPT ![p].timeout = x] \/ h' = [h EXCEPT ![p].grace = x]
      BY <2>1
    <3> QED BY <1>2, <3>1 DEF HandleRec
  <2>2. CASE \E x, y : h' = [h EXCEPT ![p].timeout = x, ![p].timedOut = y]
    <3>1. PICK x, y : h' = [h EXCEPT ![p].timeout = x, ![p].timedOut = y]
      BY <2>2
    <3> QED BY <1>2, <3>1 DEF HandleRec
  <2>3. CASE TimerExpires(p)
    BY <2>1, <2>3 DEF TimerExpires
  <2>4. CASE TimeoutFires(p)
    <3>1. \E x, y : h' = [h EXCEPT ![p].timeout = x, ![p].timedOut = y]
      BY <2>4 DEF TimeoutFires
    <3> QED BY <2>2, <3>1
  <2>5. CASE GraceFires(p)
    <3>1. \E x : h' = [h EXCEPT ![p].grace = x]
      BY <2>5 DEF GraceFires
    <3> QED BY <2>1, <3>1
  <2>6. CASE \E sig : Terminate(p, sig)
    <3>1. \E x : h' = [h EXCEPT ![p].grace = x]
      BY <2>6 DEF Terminate
    <3> QED BY <2>1, <3>1
  <2> QED BY <2>3, <2>4, <2>5, <2>6 DEF Timers
<1> QED BY <1>1, <1>3, BudgetStays

(* So does a write. *)
LEMMA WriteBudget ==
  ASSUME HandleTypes, BudgetInv, NEW c \in Clients, WriteProceeds(c)
  PROVE  BudgetInv'
<1>1. UNCHANGED <<kept, running, buffered>>
  BY DEF WriteProceeds
<1>2. h' = h \/ \E x : h' = [h EXCEPT ![pCall[c].p].stdin = x]
  BY DEF WriteProceeds
<1>3. h \in [Procs -> HandleRec]
  BY DEF HandleTypes
<1>4. \A q \in Procs : h'[q].slot = h[q].slot /\ h'[q].started = h[q].started /\ h'[q].finished = h[q].finished
  <2>1. CASE h' = h
    BY <2>1
  <2>2. CASE \E x : h' = [h EXCEPT ![pCall[c].p].stdin = x]
    <3>1. PICK x : h' = [h EXCEPT ![pCall[c].p].stdin = x]
      BY <2>2
    <3>2. PICK p : p = pCall[c].p
      OBVIOUS
    <3> QED BY <1>3, <3>1, <3>2 DEF HandleRec
  <2> QED BY <1>2, <2>1, <2>2
<1> QED BY <1>1, <1>4, BudgetStays

(* Every step keeps the budget. *)
LEMMA ProcessNextKeepsBudget ==
  ASSUME ProcessConstantsOK, ProcessInv, BudgetInv, [ProcessNext]_processVars
  PROVE  BudgetInv'
<1>1. HandleTypes /\ (\A p \in Procs : DrainedInv(p) /\ HandleOK(h[p])) /\ ClientInv
  BY DEF ProcessInv, CallsInv, DrainedInv
<1>2. ASSUME UNCHANGED <<h, kept, running, buffered>> PROVE BudgetInv'
  BY <1>2, BudgetStays
<1>3. CASE UNCHANGED processVars
  BY <1>2, <1>3 DEF processVars, processState
<1>4. ASSUME NEW p \in Procs,
             \/ \E s \in Streams : Drains(p, s) \/ ChildWrites(p, s)
             \/ Reap(p) \/ Timers(p) \/ DisposeProcessRuns(p)
             \/ Start(p) \/ Reads(p) \/ ReadExpires(p) \/ DisposeProcess(p)
             \/ ChildForks(p) \/ ChildExits(p)
             \/ \E sig \in {"SIGTERM", "SIGKILL"} : Terminate(p, sig)
      PROVE  BudgetInv'
  <2>1. ASSUME NEW s \in Streams, Drains(p, s) PROVE BudgetInv'
    <3>1. CASE DrainStarts(p, s) \/ DrainCompletes(p, s)
      BY <1>2, <3>1 DEF DrainStarts, DrainCompletes
    <3>2. CASE DrainTakes(p, s)
      BY <1>1, <3>2, DrainTakesBudget
    <3>3. CASE DrainEnds(p, s)
      BY <1>1, <3>3, DrainEndsBudget
    <3> QED BY <2>1, <3>1, <3>2, <3>3 DEF Drains
  <2>2. CASE \E s \in Streams : ChildWrites(p, s)
    BY <1>2, <2>2 DEF ChildWrites, processState
  <2>3. CASE Reap(p)
    BY <1>1, <2>3, ReapBudget
  <2>4. CASE Timers(p) \/ \E sig \in {"SIGTERM", "SIGKILL"} : Terminate(p, sig)
    BY <1>1, <2>4, TimerBudget
  <2>5. CASE DisposeProcessRuns(p)
    BY <1>1, <2>5, CloseBudget DEF DisposeProcessRuns
  <2>6. CASE Start(p)
    BY <1>1, <2>6, StartBudget
  <2>7. CASE Reads(p) \/ ReadExpires(p)
    BY <1>2, <2>7 DEF Reads, ReadExpires
  <2>8. CASE DisposeProcess(p) \/ ChildForks(p) \/ ChildExits(p)
    BY <1>2, <2>8 DEF DisposeProcess, ChildForks, ChildExits, processState
  <2> QED BY <1>4, <2>1, <2>2, <2>3, <2>4, <2>5, <2>6, <2>7, <2>8
<1>5. ASSUME NEW c \in Clients,
             \/ \E p \in Procs : ClientCalls(c, p)
             \/ Resumes(c) \/ WriteProceeds(c) \/ WriteFails(c) \/ GateExpires(c)
      PROVE  BudgetInv'
  <2>1. ASSUME NEW p, NEW op, WriteTries(c, p, op) PROVE BudgetInv'
    BY <1>2, <2>1 DEF WriteTries
  <2>2. ASSUME NEW p, WaitTries(c, p) \/ WaitForExit(c, p) PROVE BudgetInv'
    BY <1>2, <2>2 DEF WaitTries, WaitForExit
  <2>3. ASSUME NEW p \in Procs, CloseBegins(c, p) PROVE BudgetInv'
    BY <1>1, <2>3, CloseBudget DEF CloseBegins
  <2>4. CASE CloseJoins(c)
    <3>1. pCall[c].p \in Procs
      BY <1>1, <2>4 DEF CloseJoins, ClientInv
    <3> QED BY <1>1, <2>4, <3>1, JoinBudget
  <2>5. CASE \E p \in Procs : ClientCalls(c, p)
    BY <2>1, <2>2, <2>3, <2>5 DEF ClientCalls
  <2>6. CASE Resumes(c)
    BY <2>1, <2>2, <2>4, <2>6 DEF Resumes
  <2>7. CASE WriteProceeds(c)
    BY <1>1, <2>7, WriteBudget
  <2>8. CASE WriteFails(c) \/ GateExpires(c)
    BY <1>2, <2>8 DEF WriteFails, GateExpires
  <2> QED BY <1>5, <2>5, <2>6, <2>7, <2>8
<1> QED BY <1>3, <1>4, <1>5 DEF ProcessNext

LEMMA BudgetStarts ==
  ASSUME ProcessConstantsOK, ProcessInit
  PROVE  BudgetInv
<1>1. IsFiniteSet(Procs)
  BY DEF ProcessConstantsOK
<1>2. \A p \in Procs : h[p] = Fresh /\ kept[p] = <<>>
  BY DEF ProcessInit
<1>3. kept \in [Procs -> Seq(Ref)]
  <2>1. <<>> \in Seq(Ref)
    OBVIOUS
  <2> QED BY <2>1 DEF ProcessInit
<1>4. Slots = {} /\ \A p \in Procs : SlotOK(h[p])
  BY <1>2 DEF Slots, SlotOK, Fresh
<1>5. \A p \in Procs : SizeOf[p] = 0
  BY <1>2, SizeEmpty DEF SizeOf
<1>6. Units(SizeOf, Procs) = {}
  <2>1. 1 .. 0 = {}
    OBVIOUS
  <2> QED BY <1>5, <2>1 DEF Units
<1>7. Cardinality({}) = 0
  BY FS_EmptySet
<1>8. running = 0 /\ buffered = 0
  BY DEF ProcessInit
<1> QED BY <1>3, <1>4, <1>6, <1>7, <1>8 DEF BudgetInv, AllKept

(* The slots taken are those of the processes that are not finished, and   *)
(* the bytes charged are those retained: every path that ends a process    *)
(* gives both back once (release_process, sub_buffered, finalize_close).   *)
THEOREM BudgetIsExact ==
  ASSUME ProcessConstantsOK
  PROVE  ProcessSpec => []BudgetExact
<1> DEFINE I == ProcessInv /\ BudgetInv
<1>1. ProcessInit => I
  BY ProcessStarts, BudgetStarts
<1>2. I /\ [ProcessNext]_processVars => I'
  BY ProcessNextKeeps, ProcessNextKeepsBudget
<1>3. I => BudgetExact
  <2> SUFFICES ASSUME BudgetInv PROVE BudgetExact
    OBVIOUS
  <2>1. FoldSet(LAMBDA p, n : Size(kept[p]) + n, 0, Procs) = AllKept
    BY FoldKept DEF BudgetInv, ProcessConstantsOK
  <2> QED BY <2>1 DEF BudgetExact, BudgetInv, Slots, SlotOK
<1> QED BY <1>1, <1>2, <1>3, PTL DEF ProcessSpec

-----------------------------------------------------------------------------
(* The bytes that a client has read.                                       *)

Byte == Streams \X (Nat \ {0})
(* Where the bytes of a stream stand among the first n, and how many. *)
Places(got, s, n) == {j \in 1 .. n : got[j][1] = s}
Count(got, s) == Cardinality(Places(got, s, Len(got)))
(* Each byte is the next one of its stream. *)
Numbered(got) == \A i \in DOMAIN got : got[i][2] = Cardinality(Places(got, got[i][1], i))

(* A number of bytes. *)
LEMMA CountNat ==
  ASSUME NEW got \in Seq(Byte), NEW s, NEW n \in 0 .. Len(got)
  PROVE  IsFiniteSet(Places(got, s, n)) /\ Cardinality(Places(got, s, n)) \in Nat
<1>1. IsFiniteSet(1 .. n) /\ Places(got, s, n) \subseteq 1 .. n
  BY FS_Interval DEF Places
<1>2. IsFiniteSet(Places(got, s, n))
  BY <1>1, FS_Subset
<1> QED BY <1>2, FS_CardinalityType

(* The next n bytes of stream s, which has b so far. *)
Piecewise(s, b, n) == [j \in 1 .. n |-> <<s, b + j>>]
PutOn(new, got, s, b, n) == new = got \o Piecewise(s, b, n)
GoesOn(new, got, s, b, n) ==
  /\ new \in Seq(Byte) /\ Len(new) = Len(got) + n /\ Len(got) \in Nat
  /\ \A j \in 1 .. Len(got) : new[j] = got[j]
  /\ \A j \in 1 .. n : new[Len(got) + j] = <<s, b + j>>

(* The pieces are bytes, of that stream and no other. *)
LEMMA PieceKnown ==
  ASSUME NEW got \in Seq(Byte), NEW s \in Streams, NEW b \in Nat, NEW n \in Nat,
         NEW new, PutOn(new, got, s, b, n)
  PROVE  GoesOn(new, got, s, b, n)
<1> DEFINE e == Piecewise(s, b, n)
<1>1. \A j \in 1 .. n : <<s, b + j>> \in Byte
  BY DEF Byte
<1>2. e \in [1 .. n -> Byte] /\ \A j \in 1 .. n : e[j] = <<s, b + j>>
  BY <1>1 DEF Piecewise
<1>3. e \in Seq(Byte) /\ Len(e) = n
  BY <1>2
<1> HIDE DEF e
<1>4. /\ new \in Seq(Byte) /\ Len(new) = Len(got) + n /\ Len(got) \in Nat
      /\ \A j \in 1 .. Len(got) + n : new[j] = IF j <= Len(got) THEN got[j] ELSE e[j - Len(got)]
  <2>1. new = got \o e
    BY DEF e, PutOn
  <2>2. /\ got \o e \in Seq(Byte) /\ Len(got \o e) = Len(got) + n /\ Len(got) \in Nat
        /\ \A j \in 1 .. Len(got) + n : (got \o e)[j] = IF j <= Len(got) THEN got[j] ELSE e[j - Len(got)]
    <3>1. got \in Seq(Byte)
      OBVIOUS
    <3>2. e \in Seq(Byte)
      BY <1>3
    <3>3. /\ got \o e \in Seq(Byte) /\ Len(got \o e) = Len(got) + Len(e)
          /\ \A j \in 1 .. Len(got) + Len(e) : (got \o e)[j] = IF j <= Len(got) THEN got[j] ELSE e[j - Len(got)]
      BY <3>1, <3>2, ConcatProperties
    <3>4. Len(got) \in Nat
      BY <3>1
    <3> QED BY <1>3, <3>3, <3>4
  <2> QED BY <2>1, <2>2
<1>5. \A j \in 1 .. Len(got) : new[j] = got[j]
  BY <1>4
<1>6. ASSUME NEW j \in 1 .. n PROVE new[Len(got) + j] = <<s, b + j>>
  <2>1. Len(got) + j \in 1 .. Len(got) + n /\ ~ (Len(got) + j <= Len(got)) /\ (Len(got) + j) - Len(got) = j
    BY <1>4
  <2>2. new[Len(got) + j] = e[j]
    BY <1>4, <2>1
  <2> QED BY <1>2, <2>2
<1> QED BY <1>4, <1>5, <1>6 DEF GoesOn

(* The places of a stream after the first i of them. *)
LEMMA PlacesGrow ==
  ASSUME NEW got \in Seq(Byte), NEW s \in Streams, NEW n \in Nat, NEW i \in 0 .. n, NEW t \in Streams,
         NEW new, PutOn(new, got, s, Count(got, s), n)
  PROVE  /\ Count(got, t) \in Nat
         /\ Cardinality(Places(new, t, Len(got) + i)) = IF t = s THEN Count(got, t) + i ELSE Count(got, t)
<1> DEFINE l == Len(got)
           b == Count(got, s)
           k == l + i
           A == Places(got, t, l)
           B == l + 1 .. k
<1>1. l \in Nat /\ l \in 0 .. l
  OBVIOUS
<1>2. IsFiniteSet(A) /\ Count(got, t) = Cardinality(A) /\ Count(got, t) \in Nat /\ b \in Nat
  BY <1>1, CountNat DEF Count
<1>3. /\ \A j \in 1 .. l : new[j] = got[j]
      /\ \A j \in 1 .. n : new[l + j] = <<s, b + j>>
  <2>1. PutOn(new, got, s, b, n)
    OBVIOUS
  <2>2. got \in Seq(Byte) /\ s \in Streams /\ n \in Nat
    OBVIOUS
  <2> HIDE DEF b
  <2>3. b \in Nat
    BY <1>2
  <2>4. GoesOn(new, got, s, b, n)
    BY <2>1, <2>2, <2>3, PieceKnown
  <2> QED BY <2>4 DEF GoesOn
<1> HIDE DEF b
<1>4. ASSUME NEW j \in B PROVE j \in 1 .. k /\ j \notin 1 .. l /\ new[j][1] = s
  <2>1. j - l \in 1 .. n /\ l + (j - l) = j
    BY <1>1
  <2>2. new[j] = <<s, b + (j - l)>>
    BY <1>3, <2>1
  <2> QED BY <1>1, <2>2
<1>5. 1 .. k = (1 .. l) \cup B
  BY <1>1
<1>6. CASE t = s
  <2>1. Places(new, t, k) = A \cup B /\ A \cap B = {}
    BY <1>3, <1>4, <1>5, <1>6 DEF Places
  <2>2. IsFiniteSet(B) /\ Cardinality(B) = i
    <3>1. l + 1 \in Int /\ k \in Int
      BY <1>1
    <3>2. IsFiniteSet(B) /\ Cardinality(B) = IF l + 1 > k THEN 0 ELSE k - (l + 1) + 1
      BY <3>1, FS_Interval
    <3> QED BY <1>1, <3>2
  <2> HIDE DEF A, B
  <2>3. Cardinality(A \cup B) = Cardinality(A) + Cardinality(B) - Cardinality(A \cap B)
    BY <1>2, <2>2, FS_Union
  <2>4. Cardinality(A \cap B) = 0
    BY <2>1, FS_EmptySet
  <2>5. Cardinality(A \cup B) = Count(got, t) + i
    BY <1>2, <2>2, <2>3, <2>4
  <2>6. Cardinality(Places(new, t, k)) = Count(got, t) + i
    BY <2>1, <2>5
  <2> QED BY <1>2, <1>6, <2>6
<1>7. CASE t # s
  <2>1. Places(new, t, k) = A
    BY <1>3, <1>4, <1>5, <1>7 DEF Places
  <2> QED BY <1>2, <1>7, <2>1
<1> QED BY <1>6, <1>7

(* What is read next is numbered on, and counted. *)
LEMMA NumberedGrows ==
  ASSUME NEW got \in Seq(Byte), Numbered(got), NEW s \in Streams, NEW n \in Nat,
         NEW new, PutOn(new, got, s, Count(got, s), n)
  PROVE  /\ new \in Seq(Byte) /\ Numbered(new) /\ Len(new) = Len(got) + n
         /\ \A t \in Streams : /\ Count(got, t) \in Nat
                               /\ Count(new, t) = IF t = s THEN Count(got, t) + n ELSE Count(got, t)
<1> DEFINE l == Len(got)
           b == Count(got, s)
<1>1. l \in Nat /\ n \in 0 .. n /\ DOMAIN got = 1 .. l
  OBVIOUS
<1>2. \A t \in Streams : Count(got, t) \in Nat
  BY <1>1, CountNat DEF Count
<1>3. \A t \in Streams, i \in 0 .. n :
        Cardinality(Places(new, t, l + i)) = IF t = s THEN Count(got, t) + i ELSE Count(got, t)
  <2> SUFFICES ASSUME NEW t \in Streams, NEW i \in 0 .. n
               PROVE  Cardinality(Places(new, t, l + i)) = IF t = s THEN Count(got, t) + i ELSE Count(got, t)
    OBVIOUS
  <2>1. PutOn(new, got, s, Count(got, s), n) /\ got \in Seq(Byte) /\ n \in Nat
    OBVIOUS
  <2>2. Cardinality(Places(new, t, Len(got) + i)) = IF t = s THEN Count(got, t) + i ELSE Count(got, t)
    BY <2>1, PlacesGrow, SMTT(30)
  <2> QED BY <2>2
<1>4. b = Count(got, s) /\ b \in Nat
  BY <1>2
<1>5. /\ new \in Seq(Byte) /\ Len(new) = l + n
      /\ \A j \in 1 .. l : new[j] = got[j]
      /\ \A j \in 1 .. n : new[l + j] = <<s, b + j>>
  <2>1. PutOn(new, got, s, b, n)
    OBVIOUS
  <2>2. got \in Seq(Byte) /\ s \in Streams /\ n \in Nat
    OBVIOUS
  <2> HIDE DEF b
  <2>3. b \in Nat
    BY <1>4
  <2>4. GoesOn(new, got, s, b, n)
    BY <2>1, <2>2, <2>3, PieceKnown
  <2> QED BY <2>4 DEF GoesOn
<1> HIDE DEF b
<1>6. \A t \in Streams : Count(new, t) = IF t = s THEN Count(got, t) + n ELSE Count(got, t)
  BY <1>1, <1>3, <1>5 DEF Count
<1>7. ASSUME NEW i \in 1 .. l + n PROVE new[i][2] = Cardinality(Places(new, new[i][1], i))
  <2>1. CASE i <= l
    <3>1. i \in 1 .. l /\ new[i] = got[i]
      BY <1>1, <1>5, <2>1
    <3>2. \A j \in 1 .. i : new[j] = got[j]
      BY <1>1, <1>5, <2>1
    <3>3. Places(new, new[i][1], i) = Places(got, got[i][1], i)
      BY <3>1, <3>2 DEF Places
    <3>4. got[i][2] = Cardinality(Places(got, got[i][1], i))
      BY <1>1, <3>1 DEF Numbered
    <3> QED BY <3>1, <3>3, <3>4
  <2>2. CASE ~ (i <= l)
    <3>1. i - l \in 1 .. n /\ i - l \in 0 .. n /\ l + (i - l) = i
      BY <1>1, <2>2
    <3>2. new[i] = <<s, b + (i - l)>>
      BY <1>5, <3>1
    <3>3. Cardinality(Places(new, s, i)) = b + (i - l)
      BY <1>3, <1>4, <3>1
    <3> QED BY <3>2, <3>3
  <2> QED BY <2>1, <2>2
<1>8. Numbered(new)
  <2>1. DOMAIN new = 1 .. l + n
    BY <1>5
  <2> QED BY <1>7, <2>1 DEF Numbered
<1> QED BY <1>2, <1>5, <1>6, <1>8

-----------------------------------------------------------------------------
(* The chunks before a cursor.                                             *)

Upto(refs, n) == SubSeq(refs, 1, n)

(* They are the chunks of refs, in their places. *)
LEMMA UptoKnown ==
  ASSUME NEW refs \in Seq(Ref), NEW n \in 0 .. Len(refs)
  PROVE  /\ Upto(refs, n) \in Seq(Ref) /\ Len(Upto(refs, n)) = n
         /\ \A i \in 1 .. n : Upto(refs, n)[i] = refs[i]
<1>1. n \in Int /\ 1 \in Int /\ \A i \in 1 .. n : refs[i] \in Ref
  OBVIOUS
<1>2. /\ Upto(refs, n) \in Seq(Ref)
      /\ Len(Upto(refs, n)) = IF 1 <= n THEN n - 1 + 1 ELSE 0
      /\ \A i \in 1 .. n - 1 + 1 : Upto(refs, n)[i] = refs[1 + i - 1]
  BY <1>1, SubSeqProperties DEF Upto
<1>3. n - 1 + 1 = n /\ \A i \in 1 .. n : 1 + i - 1 = i
  OBVIOUS
<1>4. IF 1 <= n THEN n - 1 + 1 = n ELSE n = 0
  OBVIOUS
<1> QED BY <1>2, <1>3, <1>4

(* One chunk more. *)
LEMMA UptoNext ==
  ASSUME NEW refs \in Seq(Ref), NEW i \in 1 .. Len(refs)
  PROVE  /\ Upto(refs, i - 1) \in Seq(Ref) /\ refs[i] \in Ref
         /\ Upto(refs, i) = Append(Upto(refs, i - 1), refs[i])
<1> DEFINE a == Upto(refs, i)
           b == Upto(refs, i - 1)
           c == Append(b, refs[i])
<1>1. i \in 0 .. Len(refs) /\ i - 1 \in 0 .. Len(refs) /\ refs[i] \in Ref /\ (i - 1) + 1 = i
  OBVIOUS
<1>2. a \in Seq(Ref) /\ Len(a) = i /\ \A j \in 1 .. i : a[j] = refs[j]
  BY <1>1, UptoKnown
<1>3. b \in Seq(Ref) /\ Len(b) = i - 1 /\ \A j \in 1 .. i - 1 : b[j] = refs[j]
  BY <1>1, UptoKnown
<1> HIDE DEF a, b
<1>4. /\ c \in Seq(Ref) /\ Len(c) = Len(b) + 1 /\ c[Len(b) + 1] = refs[i]
      /\ \A j \in 1 .. Len(b) : c[j] = b[j]
  BY <1>1, <1>3, AppendProperties
<1>5. Len(c) = i /\ c[i] = refs[i] /\ \A j \in 1 .. i - 1 : c[j] = refs[j]
  BY <1>1, <1>3, <1>4
<1> HIDE DEF c
<1>6. \A j \in 1 .. i : a[j] = c[j]
  <2> SUFFICES ASSUME NEW j \in 1 .. i PROVE a[j] = c[j]
    OBVIOUS
  <2>1. j = i \/ j \in 1 .. i - 1
    OBVIOUS
  <2> QED BY <1>2, <1>5, <2>1
<1>7. a = c
  BY <1>2, <1>4, <1>5, <1>6, SeqEqual
<1> QED BY <1>1, <1>3, <1>7 DEF a, b, c

(* All of them. *)
LEMMA UptoEnds ==
  ASSUME NEW refs \in Seq(Ref)
  PROVE  Upto(refs, 0) = <<>> /\ Upto(refs, Len(refs)) = refs
<1>1. Upto(refs, Len(refs)) = refs
  BY SubSeqFull DEF Upto
<1>2. SubSeq(refs, 1, 0) = <<>>
  BY SubSeqEmpty
<1> QED BY <1>1, <1>2 DEF Upto

(* Chunks put behind the cursor are not before it. *)
LEMMA UptoStays ==
  ASSUME NEW refs \in Seq(Ref), NEW r \in Ref, NEW n \in 0 .. Len(refs)
  PROVE  Upto(Append(refs, r), n) = Upto(refs, n)
<1> DEFINE all == Append(refs, r)
           a == Upto(all, n)
           b == Upto(refs, n)
<1>1. /\ all \in Seq(Ref) /\ Len(all) = Len(refs) + 1 /\ Len(refs) \in Nat
      /\ \A i \in 1 .. Len(refs) : all[i] = refs[i]
  BY AppendProperties
<1> HIDE DEF all
<1>2. n \in 0 .. Len(all) /\ \A j \in 1 .. n : all[j] = refs[j]
  BY <1>1
<1>3. a \in Seq(Ref) /\ Len(a) = n /\ \A j \in 1 .. n : a[j] = all[j]
  BY <1>1, <1>2, UptoKnown
<1>4. b \in Seq(Ref) /\ Len(b) = n /\ \A j \in 1 .. n : b[j] = refs[j]
  BY UptoKnown
<1> HIDE DEF a, b
<1>5. \A j \in 1 .. n : a[j] = b[j]
  BY <1>2, <1>3, <1>4
<1>6. a = b
  BY <1>3, <1>4, <1>5, SeqEqual
<1> QED BY <1>6 DEF a, b, all

(* A chunk of a stream adds its size to Acc. *)
LEMMA AccGrows ==
  ASSUME NEW refs \in Seq(Ref), NEW r \in Ref, NEW s
  PROVE  Acc(Append(refs, r), s) = Acc(refs, s) + (IF r.stream = s THEN r.size ELSE 0)
<1> DEFINE m == IF r.stream = s THEN r.size ELSE 0
<1>1. Append(refs, r) \in Seq(Ref) /\ m \in Nat
  BY DEF Ref
<1>2. Shares(Append(refs, r), s) = Append(Shares(refs, s), m)
  <2> DEFINE a == Append(refs, r)
             w == Shares(refs, s)
             b == Append(w, m)
  <2>1. /\ Len(a) = Len(refs) + 1 /\ a[Len(refs) + 1] = r /\ \A i \in 1 .. Len(refs) : a[i] = refs[i]
        /\ Len(refs) \in Nat
    BY AppendProperties
  <2>2. w \in Seq(Nat) /\ DOMAIN w = 1 .. Len(refs) /\ Len(w) = Len(refs)
    BY SizesKnown
  <2>3. Shares(a, s) \in Seq(Nat) /\ DOMAIN Shares(a, s) = 1 .. Len(a) /\ Len(Shares(a, s)) = Len(a)
    <3>1. a \in Seq(Ref)
      BY <1>1
    <3> HIDE DEF a
    <3>2. /\ Shares(a, s) \in Seq(Nat) /\ DOMAIN Shares(a, s) = 1 .. Len(a) /\ Len(a) \in Nat
      BY <3>1, SizesKnown
    <3>3. Len(Shares(a, s)) \in Nat /\ DOMAIN Shares(a, s) = 1 .. Len(Shares(a, s))
      BY <3>2, LenProperties
    <3> QED BY <3>2, <3>3
  <2>4. \A i \in 1 .. Len(refs) : w[i] = IF refs[i].stream = s THEN refs[i].size ELSE 0
    BY <2>2 DEF Shares
  <2> HIDE DEF w, m
  <2>5. /\ b \in Seq(Nat) /\ Len(b) = Len(w) + 1 /\ b[Len(w) + 1] = m
        /\ \A i \in 1 .. Len(w) : b[i] = w[i]
    BY <1>1, <2>2, AppendProperties
  <2>6. \A i \in 1 .. Len(a) : Shares(a, s)[i] = IF a[i].stream = s THEN a[i].size ELSE 0
    BY <2>3 DEF Shares
  <2> HIDE DEF a, b
  <2>7. \A i \in 1 .. Len(a) : Shares(a, s)[i] = b[i]
    <3> SUFFICES ASSUME NEW i \in 1 .. Len(a) PROVE Shares(a, s)[i] = b[i]
      OBVIOUS
    <3>1. CASE i \in 1 .. Len(refs)
      <4>1. a[i] = refs[i] /\ b[i] = w[i]
        BY <2>1, <2>2, <2>5, <3>1
      <4> QED BY <2>4, <2>6, <3>1, <4>1
    <3>2. CASE i \notin 1 .. Len(refs)
      <4>1. i = Len(refs) + 1
        BY <2>1, <3>2
      <4>2. a[i] = r /\ b[i] = m
        BY <2>1, <2>2, <2>5, <4>1
      <4> QED BY <2>6, <4>2 DEF m
    <3>3. QED
      BY <3>1, <3>2
  <2>8. Shares(a, s) = b
    BY <2>1, <2>2, <2>3, <2>5, <2>7, SeqEqual
  <2>9. QED
    BY <2>8 DEF a, b, w
<1>3. Acc(Append(refs, r), s) = Total(Shares(Append(refs, r), s)) /\ Acc(refs, s) = Total(Shares(refs, s))
  BY <1>1, AccTotal
<1>4. Shares(refs, s) \in Seq(Nat)
  BY SizesKnown
<1> HIDE DEF m
<1>5. Total(Append(Shares(refs, s), m)) = Total(Shares(refs, s)) + m
  BY <1>1, <1>4, TotalAppend
<1> QED BY <1>2, <1>3, <1>5 DEF m

(* How far the bytes before chunk i, and it, go. *)
LEMMA PassedKnown ==
  ASSUME NEW refs \in Seq(Ref), NEW i \in 1 .. Len(refs), NEW s \in Streams
  PROVE  /\ Size(Upto(refs, i - 1)) \in Nat /\ Acc(Upto(refs, i - 1), s) \in Nat /\ refs[i].size \in Nat
         /\ refs[i] \in Ref
         /\ Size(Upto(refs, i)) = Size(Upto(refs, i - 1)) + refs[i].size
         /\ Acc(Upto(refs, i), s) = Acc(Upto(refs, i - 1), s) + (IF refs[i].stream = s THEN refs[i].size ELSE 0)
<1> DEFINE b == Upto(refs, i - 1)
           r == refs[i]
<1>1. b \in Seq(Ref) /\ r \in Ref /\ Upto(refs, i) = Append(b, r)
  BY UptoNext
<1> HIDE DEF b, r
<1>2. Size(b) \in Nat /\ Acc(b, s) \in Nat
  BY <1>1, SizeTotal, AccTotal
<1>3. Size(Append(b, r)) = Size(b) + r.size
  BY <1>1, SizeGrows
<1>4. Acc(Append(b, r), s) = Acc(b, s) + (IF r.stream = s THEN r.size ELSE 0)
  BY <1>1, AccGrows
<1>5. r.size \in Nat
  BY <1>1 DEF Ref
<1> QED BY <1>1, <1>2, <1>3, <1>4, <1>5 DEF b, r

-----------------------------------------------------------------------------
(* The cursor.                                                             *)

(* Chunks hold something, and say where in their stream it begins. *)
ChunksOK(refs) ==
  /\ refs \in Seq(Ref)
  /\ \A i \in 1 .. Len(refs) :
       refs[i].size > 0 /\ refs[i].from = Acc(Upto(refs, i - 1), refs[i].stream)

(* The part of chunk seq that the cursor has passed. *)
Part(refs, seq, off, s) == IF seq \in 1 .. Len(refs) /\ refs[seq].stream = s THEN off ELSE 0

(* The client at <<seq, off>> has read all that is before the cursor. *)
Placed(refs, seq, off, got) ==
  /\ seq \in 1 .. Len(refs) + 1 /\ off \in Nat
  /\ IF seq \in 1 .. Len(refs) THEN off < refs[seq].size ELSE off = 0
  /\ Len(got) = Size(Upto(refs, seq - 1)) + off
  /\ \A s \in Streams : Count(got, s) = Acc(Upto(refs, seq - 1), s) + Part(refs, seq, off, s)

(* append_capture leaves the cursor where it is. *)
LEMMA PlacedStays ==
  ASSUME NEW refs, ChunksOK(refs), NEW r \in Ref, r.size > 0, r.from = Acc(refs, r.stream)
  PROVE  /\ ChunksOK(Append(refs, r))
         /\ \A seq, off, got : Placed(refs, seq, off, got) => Placed(Append(refs, r), seq, off, got)
<1> DEFINE all == Append(refs, r)
           l == Len(refs)
<1>1. refs \in Seq(Ref) /\ l \in Nat
  BY DEF ChunksOK
<1>2. /\ all \in Seq(Ref) /\ Len(all) = l + 1 /\ all[l + 1] = r
      /\ \A i \in 1 .. l : all[i] = refs[i]
  BY <1>1, AppendProperties
<1>3. \A n \in 0 .. l : Upto(all, n) = Upto(refs, n)
  BY <1>1, UptoStays
<1>4. Upto(refs, l) = refs
  BY <1>1, UptoEnds
<1> HIDE DEF all, l
<1>5. ASSUME NEW i \in 1 .. l + 1
      PROVE  all[i].size > 0 /\ all[i].from = Acc(Upto(all, i - 1), all[i].stream)
  <2>1. CASE i \in 1 .. l
    <3>1. refs[i].size > 0 /\ refs[i].from = Acc(Upto(refs, i - 1), refs[i].stream)
      BY <2>1 DEF ChunksOK, l
    <3>2. all[i] = refs[i] /\ i - 1 \in 0 .. l
      BY <1>1, <1>2, <2>1
    <3>3. Upto(all, i - 1) = Upto(refs, i - 1)
      BY <1>3, <3>2
    <3> QED BY <3>1, <3>2, <3>3
  <2>2. CASE i \notin 1 .. l
    <3>1. i = l + 1 /\ i - 1 = l /\ l \in 0 .. l
      BY <1>1, <2>2
    <3>2. all[i] = r /\ Upto(all, i - 1) = refs
      BY <1>2, <1>3, <1>4, <3>1
    <3> QED BY <3>2
  <2> QED BY <2>1, <2>2
<1>6. ChunksOK(all)
  BY <1>2, <1>5 DEF ChunksOK
<1>7. ASSUME NEW seq, NEW off, NEW got, Placed(refs, seq, off, got)
      PROVE  Placed(all, seq, off, got)
  <2>1. /\ seq \in 1 .. l + 1 /\ off \in Nat
        /\ IF seq \in 1 .. l THEN off < refs[seq].size ELSE off = 0
        /\ Len(got) = Size(Upto(refs, seq - 1)) + off
        /\ \A s \in Streams : Count(got, s) = Acc(Upto(refs, seq - 1), s) + Part(refs, seq, off, s)
    BY <1>7 DEF Placed, l
  <2>2. seq - 1 \in 0 .. l /\ seq \in 1 .. l + 2
    BY <1>1, <2>1
  <2>3. Upto(all, seq - 1) = Upto(refs, seq - 1)
    BY <1>3, <2>2
  <2>4. seq \in 1 .. l + 1 /\ off < all[seq].size
    <3>1. CASE seq \in 1 .. l
      BY <1>2, <2>1, <3>1
    <3>2. CASE seq \notin 1 .. l
      <4>1. seq = l + 1
        BY <1>1, <2>1, <3>2
      <4>2. all[seq] = r /\ off = 0
        BY <1>2, <2>1, <3>2, <4>1
      <4> QED BY <2>1, <4>2
    <3> QED BY <3>1, <3>2
  <2>5. ASSUME NEW s \in Streams PROVE Part(all, seq, off, s) = Part(refs, seq, off, s)
    <3>1. CASE seq \in 1 .. l
      <4>1. all[seq] = refs[seq]
        BY <1>2, <3>1
      <4> QED BY <1>2, <2>4, <3>1, <4>1 DEF Part, l
    <3>2. CASE seq \notin 1 .. l
      <4>1. off = 0
        BY <2>1, <3>2
      <4> QED BY <4>1 DEF Part
    <3> QED BY <3>1, <3>2
  <2>6. seq \in 1 .. Len(all) + 1 /\ seq \in 1 .. Len(all)
    BY <1>1, <1>2, <2>4
  <2>7. \A s \in Streams : Count(got, s) = Acc(Upto(all, seq - 1), s) + Part(all, seq, off, s)
    BY <2>1, <2>3, <2>5
  <2> QED BY <2>1, <2>3, <2>4, <2>6, <2>7 DEF Placed
<1> QED BY <1>6, <1>7 DEF all

(* The next n bytes of the chunk at the cursor. *)
LEMMA PlacedMoves ==
  ASSUME NEW refs, ChunksOK(refs), NEW i \in 1 .. Len(refs), NEW off, NEW got \in Seq(Byte), Numbered(got),
         Placed(refs, i, off, got), NEW n \in Nat, n <= refs[i].size - off,
         NEW new, PutOn(new, got, refs[i].stream, refs[i].from + off, n)
  PROVE  /\ new \in Seq(Byte) /\ Numbered(new)
         /\ off + n < refs[i].size => Placed(refs, i, off + n, new)
         /\ ~ (off + n < refs[i].size) => Placed(refs, i + 1, 0, new)
<1> DEFINE s == refs[i].stream
           size == refs[i].size
           l == Len(refs)
<1>1. refs \in Seq(Ref) /\ l \in Nat
  BY DEF ChunksOK
<1>2. size \in Nat /\ refs[i] \in Ref
  BY <1>1, PassedKnown DEF Streams
<1>3. s \in Streams
  BY <1>2 DEF Ref
<1>4. refs[i].from = Acc(Upto(refs, i - 1), s)
  BY DEF ChunksOK
<1>5. /\ off \in Nat /\ off < size
      /\ Len(got) = Size(Upto(refs, i - 1)) + off
      /\ \A t \in Streams : Count(got, t) = Acc(Upto(refs, i - 1), t) + Part(refs, i, off, t)
  BY DEF Placed
<1>6. /\ Size(Upto(refs, i - 1)) \in Nat
      /\ Size(Upto(refs, i)) = Size(Upto(refs, i - 1)) + size
  BY <1>1, PassedKnown DEF Streams
<1>7. \A t \in Streams : /\ Acc(Upto(refs, i - 1), t) \in Nat
                         /\ Acc(Upto(refs, i), t) = Acc(Upto(refs, i - 1), t) + (IF s = t THEN size ELSE 0)
  BY <1>1, PassedKnown
<1>8. \A t \in Streams : \A m : Part(refs, i, m, t) = IF s = t THEN m ELSE 0
  BY DEF Part
<1>9. PutOn(new, got, s, Count(got, s), n)
  <2>1. Count(got, s) = refs[i].from + off
    BY <1>3, <1>4, <1>5, <1>8
  <2> QED BY <2>1
<1> HIDE DEF s, size, l
<1>10. /\ new \in Seq(Byte) /\ Numbered(new) /\ Len(new) = Len(got) + n
       /\ \A t \in Streams : /\ Count(got, t) \in Nat
                             /\ Count(new, t) = IF t = s THEN Count(got, t) + n ELSE Count(got, t)
  BY <1>3, <1>9, NumberedGrows
<1>11. n <= size - off
  BY DEF size
<1>12. ASSUME off + n < size PROVE Placed(refs, i, off + n, new)
  <2>1. off + n \in Nat /\ i \in 1 .. Len(refs) + 1
    BY <1>1, <1>5 DEF l
  <2>2. Len(new) = Size(Upto(refs, i - 1)) + (off + n)
    BY <1>5, <1>6, <1>10
  <2>3. ASSUME NEW t \in Streams
        PROVE  Count(new, t) = Acc(Upto(refs, i - 1), t) + Part(refs, i, off + n, t)
    <3>1. CASE t = s
      <4>1. Part(refs, i, off + n, t) = off + n /\ Part(refs, i, off, t) = off
        BY <1>8, <3>1
      <4>2. Acc(Upto(refs, i - 1), t) \in Nat
        BY <1>7
      <4> QED BY <1>5, <1>10, <3>1, <4>1, <4>2
    <3>2. CASE t # s
      BY <1>5, <1>8, <1>10, <3>2
    <3> QED BY <3>1, <3>2
  <2> QED BY <1>12, <2>1, <2>2, <2>3 DEF Placed, size
<1>13. ASSUME ~ (off + n < size) PROVE Placed(refs, i + 1, 0, new)
  <2>1. off + n = size
    BY <1>2, <1>5, <1>11, <1>13
  <2>2. i + 1 \in 1 .. Len(refs) + 1 /\ (i + 1) - 1 = i
    BY <1>1 DEF l
  <2>3. Len(new) = Size(Upto(refs, i)) + 0
    BY <1>5, <1>6, <1>10, <2>1
  <2>4. ASSUME NEW t \in Streams
        PROVE  Count(new, t) = Acc(Upto(refs, i), t) + Part(refs, i + 1, 0, t)
    <3>1. Part(refs, i + 1, 0, t) = 0
      BY DEF Part
    <3>2. Acc(Upto(refs, i - 1), t) \in Nat
      BY <1>7
    <3>3. CASE t = s
      <4>1. Part(refs, i, off, t) = off /\ Acc(Upto(refs, i), t) = Acc(Upto(refs, i - 1), t) + size
        BY <1>7, <1>8, <3>3
      <4> QED BY <1>5, <1>10, <2>1, <3>1, <3>2, <3>3, <4>1
    <3>4. CASE t # s
      <4>1. Part(refs, i, off, t) = 0 /\ Acc(Upto(refs, i), t) = Acc(Upto(refs, i - 1), t) + 0
        BY <1>7, <1>8, <3>4
      <4> QED BY <1>5, <1>10, <3>1, <3>2, <3>4, <4>1
    <3> QED BY <3>3, <3>4
  <2>5. IF i + 1 \in 1 .. Len(refs) THEN 0 < refs[i + 1].size ELSE 0 = 0
    BY DEF ChunksOK
  <2> QED BY <2>2, <2>3, <2>4, <2>5 DEF Placed
<1> QED BY <1>10, <1>12, <1>13 DEF size

-----------------------------------------------------------------------------
(* One turn of the loop of collect.                                        *)

(* What the loop has collected so far, never more than max_bytes. *)
Results == {x \in [seq : Nat, off : Nat, got : Seq(Byte)] : Len(x.got) <= ReadMax}

(* What min returns. *)
LEMMA LeastOf ==
  ASSUME NEW a \in Nat, NEW b \in Nat
  PROVE  Min({a, b}) \in Nat /\ Min({a, b}) <= a /\ Min({a, b}) <= b /\ Min({a, b}) \in {a, b}
<1>1. \E x \in {a, b} : \A y \in {a, b} : x <= y
  OBVIOUS
<1>2. Min({a, b}) \in {a, b} /\ \A y \in {a, b} : Min({a, b}) <= y
  BY <1>1 DEF Min
<1> QED BY <1>2

(* Where the loop starts in chunk i, and that it takes n bytes of it. *)
From(x, i) == IF i = x.seq THEN x.off ELSE 0
Takes(x, k, i, n, y) ==
  /\ n \in Nat /\ n <= k.size - From(x, i) /\ n <= ReadMax - Len(x.got)
  /\ n \in {k.size - From(x, i), ReadMax - Len(x.got)}
  /\ n = 0 => y = x
  /\ n # 0 => /\ PutOn(y.got, x.got, k.stream, k.from + From(x, i), n)
              /\ IF From(x, i) + n < k.size THEN y.seq = i /\ y.off = From(x, i) + n
                                            ELSE y.seq = i + 1 /\ y.off = 0

(* A turn stops at max_bytes, or takes some of what the chunk has left. *)
LEMMA CollectedKnown ==
  ASSUME ReadMax \in Nat, NEW x \in Results, NEW k \in Ref, NEW i \in Nat,
         NEW y, y = Collected(x, k, i)
  PROVE  /\ y \in Results
         /\ i < x.seq => y = x
         /\ ~ (i < x.seq) /\ From(x, i) < k.size => \E n : Takes(x, k, i, n, y)
<1> DEFINE start == From(x, i)
           n == Min({k.size - start, ReadMax - Len(x.got)})
           new == x.got \o Piecewise(k.stream, k.from + start, n)
           next(seq, off) == [seq |-> seq, off |-> off, got |-> new]
<1>1. /\ x \in [seq : Nat, off : Nat, got : Seq(Byte)] /\ Len(x.got) <= ReadMax
      /\ x.seq \in Nat /\ x.off \in Nat /\ x.got \in Seq(Byte) /\ Len(x.got) \in Nat
  <2>1. x \in [seq : Nat, off : Nat, got : Seq(Byte)] /\ Len(x.got) <= ReadMax
    BY DEF Results
  <2>2. x.seq \in Nat /\ x.off \in Nat /\ x.got \in Seq(Byte)
    BY <2>1
  <2>3. Len(x.got) \in Nat
    BY <2>2
  <2> QED BY <2>1, <2>2, <2>3
<1>2. k.size \in Nat /\ k.from \in Nat /\ k.stream \in Streams
  BY DEF Ref
<1>3. start \in Nat
  BY <1>1 DEF From
<1>4. y = CASE i < x.seq -> x
            [] i >= x.seq /\ start >= k.size -> [x EXCEPT !.seq = i + 1, !.off = 0]
            [] i >= x.seq /\ start < k.size /\ n = 0 -> x
            [] OTHER -> IF start + n < k.size THEN next(i, start + n) ELSE next(i + 1, 0)
  BY DEF Collected, From, Piecewise
<1> HIDE DEF start, n, new
<1>5. CASE i < x.seq
  <2>1. y = x
    <3>1. ~ (i >= x.seq)
      BY <1>1, <1>5
    <3> QED BY <1>4, <1>5, <3>1
  <2> QED BY <1>5, <2>1
<1>6. CASE ~ (i < x.seq) /\ start >= k.size
  <2>1. i >= x.seq
    BY <1>1, <1>6
  <2>2. y = [x EXCEPT !.seq = i + 1, !.off = 0]
    <3>1. ~ (start < k.size)
      BY <1>2, <1>3, <1>6
    <3> QED BY <1>4, <1>6, <2>1, <3>1
  <2>3. y \in [seq : Nat, off : Nat, got : Seq(Byte)] /\ y.got = x.got
    <3>1. i + 1 \in Nat /\ 0 \in Nat
      OBVIOUS
    <3>2. y = [seq |-> i + 1, off |-> 0, got |-> x.got]
      BY <1>1, <2>2
    <3> QED BY <1>1, <3>1, <3>2
  <2>4. y \in Results
    BY <1>1, <2>3 DEF Results
  <2>5. ~ (start < k.size)
    BY <1>2, <1>3, <1>6
  <2> QED BY <1>6, <2>4, <2>5 DEF start
<1>7. CASE ~ (i < x.seq) /\ ~ (start >= k.size)
  <2>1. i >= x.seq /\ start < k.size
    BY <1>1, <1>2, <1>3, <1>7
  <2>2. k.size - start \in Nat /\ ReadMax - Len(x.got) \in Nat
    BY <1>1, <1>2, <1>3, <2>1
  <2>3. /\ n \in Nat /\ n <= k.size - start /\ n <= ReadMax - Len(x.got)
        /\ n \in {k.size - start, ReadMax - Len(x.got)}
    BY <2>2, LeastOf DEF n
  <2>4. CASE n = 0
    <3>1. y = x
      BY <1>4, <1>7, <2>1, <2>4
    <3>2. Takes(x, k, i, n, y)
      BY <2>3, <2>4, <3>1 DEF Takes, start
    <3> QED BY <1>7, <3>1, <3>2
  <2>5. CASE n # 0
    <3>1. y = IF start + n < k.size THEN next(i, start + n) ELSE next(i + 1, 0)
      BY <1>4, <1>7, <2>1, <2>5
    <3>2. PutOn(new, x.got, k.stream, k.from + start, n)
      BY DEF PutOn, new
    <3>3. k.from + start \in Nat
      BY <1>2, <1>3
    <3>4. GoesOn(new, x.got, k.stream, k.from + start, n)
      BY <1>1, <1>2, <2>3, <3>2, <3>3, PieceKnown
    <3>5. new \in Seq(Byte) /\ Len(new) = Len(x.got) + n
      BY <3>4 DEF GoesOn
    <3>6. Len(new) <= ReadMax
      BY <1>1, <2>3, <3>5
    <3>7. CASE start + n < k.size
      <4>1. y = [seq |-> i, off |-> start + n, got |-> new]
        BY <3>1, <3>7
      <4>2. y \in Results
        BY <1>3, <2>3, <3>5, <3>6, <4>1 DEF Results
      <4>3. Takes(x, k, i, n, y)
        BY <2>3, <2>5, <3>2, <3>7, <4>1 DEF Takes, start
      <4> QED BY <1>7, <4>2, <4>3
    <3>8. CASE ~ (start + n < k.size)
      <4>1. y = [seq |-> i + 1, off |-> 0, got |-> new]
        BY <3>1, <3>8
      <4>2. y \in Results
        BY <3>5, <3>6, <4>1 DEF Results
      <4>3. Takes(x, k, i, n, y)
        BY <2>3, <2>5, <3>2, <3>8, <4>1 DEF Takes, start
      <4> QED BY <1>7, <4>2, <4>3
    <3> QED BY <3>7, <3>8
  <2> QED BY <2>4, <2>5
<1> QED BY <1>5, <1>6, <1>7

-----------------------------------------------------------------------------
(* The loop.                                                               *)

(* After i chunks: the cursor stands after what is read, and behind chunk  *)
(* i only if max_bytes are collected.                                      *)
InStep(refs, old, x, i) ==
  /\ x \in Results
  /\ old \o x.got \in Seq(Byte) /\ Numbered(old \o x.got)
  /\ Placed(refs, x.seq, x.off, old \o x.got)
  /\ x.seq <= i => Len(x.got) = ReadMax

(* A turn keeps the client in step with its cursor. *)
LEMMA TurnKnown ==
  ASSUME ReadMax \in Nat, NEW refs, ChunksOK(refs), NEW old \in Seq(Byte), NEW i \in 1 .. Len(refs),
         NEW x, InStep(refs, old, x, i - 1)
  PROVE  InStep(refs, old, Collected(x, refs[i], i), i)
<1> DEFINE k == refs[i]
           y == Collected(x, k, i)
           all == old \o x.got
<1>1. refs \in Seq(Ref) /\ Len(refs) \in Nat
  BY DEF ChunksOK
<1>2. k \in Ref /\ k.size \in Nat /\ k.from \in Nat /\ k.stream \in Streams /\ i \in Nat
  <2>1. k \in Ref
    BY <1>1
  <2> QED BY <2>1 DEF Ref
<1>3. /\ x \in Results /\ all \in Seq(Byte) /\ Numbered(all) /\ Placed(refs, x.seq, x.off, all)
      /\ x.seq <= i - 1 => Len(x.got) = ReadMax
  BY DEF InStep
<1>4. x.seq \in Nat /\ x.off \in Nat /\ x.got \in Seq(Byte) /\ Len(x.got) <= ReadMax
  <2>1. x \in [seq : Nat, off : Nat, got : Seq(Byte)] /\ Len(x.got) <= ReadMax
    BY <1>3 DEF Results
  <2> QED BY <2>1
<1>5. k.size > 0 /\ k = refs[i]
  BY DEF ChunksOK
<1>6. y = Collected(x, k, i)
  OBVIOUS
<1> HIDE DEF k, y
<1>7. /\ y \in Results
      /\ i < x.seq => y = x
      /\ ~ (i < x.seq) /\ From(x, i) < k.size => \E n : Takes(x, k, i, n, y)
  BY <1>2, <1>3, <1>6, CollectedKnown
<1>8. Len(x.got) \in Nat
  BY <1>4
<1>9. CASE i < x.seq
  <2>1. y = x /\ ~ (x.seq <= i)
    BY <1>2, <1>4, <1>7, <1>9
  <2>2. InStep(refs, old, x, i)
    BY <1>3, <2>1 DEF InStep
  <2> QED BY <1>5, <1>6, <2>1, <2>2
<1>10. CASE x.seq < i
  <2>1. x.seq <= i - 1 /\ From(x, i) = 0 /\ ~ (i < x.seq)
    BY <1>2, <1>4, <1>10 DEF From
  <2>2. PICK n : Takes(x, k, i, n, y)
    BY <1>5, <1>7, <2>1
  <2>3. n = 0
    <3>1. Len(x.got) = ReadMax
      BY <1>3, <2>1
    <3>2. n \in Nat /\ n <= ReadMax - Len(x.got)
      BY <2>2 DEF Takes
    <3> QED BY <1>8, <3>1, <3>2
  <2>4. y = x
    BY <2>2, <2>3 DEF Takes
  <2>5. InStep(refs, old, x, i)
    BY <1>3, <2>1 DEF InStep
  <2> QED BY <1>5, <1>6, <2>4, <2>5
<1>11. CASE x.seq = i
  <2>1. From(x, i) = x.off /\ ~ (i < x.seq)
    BY <1>2, <1>11 DEF From
  <2>2. Placed(refs, i, x.off, all)
    BY <1>3, <1>11
  <2>3. x.off < k.size
    BY <1>5, <2>2 DEF Placed
  <2>4. PICK n : Takes(x, k, i, n, y)
    BY <1>7, <2>1, <2>3
  <2>5. /\ n \in Nat /\ n <= k.size - x.off /\ n <= ReadMax - Len(x.got)
        /\ n \in {k.size - x.off, ReadMax - Len(x.got)}
    BY <2>1, <2>4 DEF Takes
  <2>6. CASE n = 0
    <3>1. y = x
      BY <2>4, <2>6 DEF Takes
    <3>2. Len(x.got) = ReadMax
      BY <1>2, <1>4, <1>8, <2>3, <2>5, <2>6
    <3>3. InStep(refs, old, x, i)
      BY <1>3, <3>2 DEF InStep
    <3> QED BY <1>5, <1>6, <3>1, <3>3
  <2>7. CASE n # 0
    <3> DEFINE new == old \o y.got
    <3>1. /\ PutOn(y.got, x.got, k.stream, k.from + x.off, n)
          /\ IF x.off + n < k.size THEN y.seq = i /\ y.off = x.off + n
                                   ELSE y.seq = i + 1 /\ y.off = 0
      BY <2>1, <2>4, <2>7 DEF Takes
    <3>2. PutOn(new, all, k.stream, k.from + x.off, n)
      <4> DEFINE e == Piecewise(k.stream, k.from + x.off, n)
      <4>1. e \in Seq(Byte)
        <5>1. ASSUME NEW j \in 1 .. n PROVE <<k.stream, k.from + x.off + j>> \in Byte
          <6>1. k.stream \in Streams /\ k.from + x.off \in Nat
            BY <1>2, <1>4
          <6>2. (k.from + x.off) + j \in Nat \ {0}
            BY <2>5, <6>1
          <6> QED BY <6>1, <6>2 DEF Byte
        <5>2. e \in [1 .. n -> Byte]
          BY <5>1 DEF Piecewise
        <5> QED BY <2>5, <5>2
      <4>2. y.got = x.got \o e
        BY <3>1 DEF PutOn
      <4> HIDE DEF e
      <4>3. (old \o x.got) \o e = old \o (x.got \o e)
        <5>1. PICK b : b = x.got
          OBVIOUS
        <5>2. b \in Seq(Byte)
          BY <1>4, <5>1
        <5>3. old \in Seq(Byte)
          OBVIOUS
        <5>4. (old \o b) \o e = old \o (b \o e)
          BY <4>1, <5>2, <5>3, ConcatAssociative, SMTT(30)
        <5> QED BY <5>1, <5>4
      <4>4. new = all \o e
        BY <4>2, <4>3
      <4> QED BY <4>4 DEF PutOn, e
    <3> HIDE DEF new, all
    <3>3. /\ new \in Seq(Byte) /\ Numbered(new)
          /\ x.off + n < k.size => Placed(refs, i, x.off + n, new)
          /\ ~ (x.off + n < k.size) => Placed(refs, i + 1, 0, new)
      BY <1>3, <1>5, <2>2, <2>5, <3>2, PlacedMoves
    <3>4. Placed(refs, y.seq, y.off, new)
      BY <3>1, <3>3
    <3>5. y.seq <= i => Len(y.got) = ReadMax
      <4>1. SUFFICES ASSUME y.seq <= i PROVE Len(y.got) = ReadMax
        OBVIOUS
      <4>2. x.off + n < k.size
        BY <1>2, <3>1, <4>1
      <4>3. n = ReadMax - Len(x.got)
        BY <1>2, <1>4, <2>5, <4>2
      <4>4. k.from + x.off \in Nat
        BY <1>2, <1>4
      <4>5. GoesOn(y.got, x.got, k.stream, k.from + x.off, n)
        BY <1>2, <1>4, <2>5, <3>1, <4>4, PieceKnown
      <4>6. Len(y.got) = Len(x.got) + n
        BY <4>5 DEF GoesOn
      <4> QED BY <1>8, <4>3, <4>6
    <3>6. InStep(refs, old, y, i)
      BY <1>7, <3>3, <3>4, <3>5 DEF InStep, new
    <3> QED BY <1>5, <1>6, <3>6
  <2> QED BY <2>6, <2>7
<1> QED BY <1>2, <1>4, <1>9, <1>10, <1>11

(* collect is a walk over the chunks. *)
LEMMA CollectWalks ==
  ASSUME ReadMax \in Nat, NEW refs \in Seq(Ref), NEW seq \in Nat, NEW off \in Nat
  PROVE  \E g : /\ Collect(refs, seq, off) = g[Len(refs)]
                /\ g[0] = [seq |-> seq, off |-> off, got |-> <<>>]
                /\ \A i \in 1 .. Len(refs) : g[i] = Collected(g[i - 1], refs[i], i)
<1> DEFINE l == Len(refs)
           a == [seq |-> seq, off |-> off, got |-> <<>>]
           F == [i \in 1 .. l |-> [x \in Results |-> Collected(x, refs[i], i)]]
           walk == CHOOSE e : e = [i \in 0 .. l |-> IF i = 0 THEN a ELSE Collected(e[i - 1], refs[i], i)]
<1>1. Collect(refs, seq, off) = walk[l]
  BY DEF Collect
<1>2. l \in Nat
  OBVIOUS
<1>3. a \in Results
  <2>1. <<>> \in Seq(Byte) /\ Len(<<>>) = 0
    OBVIOUS
  <2> QED BY <2>1 DEF Results
<1>4. \A i \in 1 .. l : refs[i] \in Ref /\ i \in Nat
  OBVIOUS
<1> HIDE DEF a, l
<1>5. ASSUME NEW i \in 1 .. l, NEW x \in Results PROVE Collected(x, refs[i], i) \in Results
  <2>1. refs[i] \in Ref /\ i \in Nat
    BY <1>4
  <2>2. PICK y : y = Collected(x, refs[i], i)
    OBVIOUS
  <2>3. y \in Results
    BY <2>1, <2>2, CollectedKnown
  <2> QED BY <2>2, <2>3
<1>6. F \in [1 .. l -> [Results -> Results]]
  BY <1>5
<1>7. \A i \in 1 .. l, x \in Results : F[i][x] = Collected(x, refs[i], i)
  OBVIOUS
<1> HIDE DEF F
<1>8. PICK g : IsWalk(g, a, F, l)
  <2>1. l \in 0 .. l
    BY <1>2
  <2> QED BY <1>2, <2>1, WalkExists
<1>9. \A i \in 0 .. l : g[i] \in Results
  BY <1>2, <1>3, <1>6, <1>8, WalkStays
<1>10. g = [i \in 0 .. l |-> IF i = 0 THEN a ELSE F[i][g[i - 1]]]
  BY <1>8 DEF IsWalk
<1>11. ASSUME NEW i \in 0 .. l, i # 0 PROVE F[i][g[i - 1]] = Collected(g[i - 1], refs[i], i)
  <2>1. i \in 1 .. l /\ i - 1 \in 0 .. l
    BY <1>2, <1>11
  <2> QED BY <1>7, <1>9, <2>1
<1>12. g = [i \in 0 .. l |-> IF i = 0 THEN a ELSE Collected(g[i - 1], refs[i], i)]
  BY <1>10, <1>11
<1>13. walk = [i \in 0 .. l |-> IF i = 0 THEN a ELSE Collected(walk[i - 1], refs[i], i)]
  BY <1>12
<1> HIDE DEF walk
<1>14. walk[0] = a /\ \A i \in 1 .. l : walk[i] = Collected(walk[i - 1], refs[i], i)
  BY <1>2, <1>13
<1> QED BY <1>1, <1>14 DEF a, l

(* What collect returns goes on from the cursor. *)
LEMMA CollectGood ==
  ASSUME ReadMax \in Nat, NEW refs, ChunksOK(refs), NEW old \in Seq(Byte), Numbered(old),
         NEW seq, NEW off, Placed(refs, seq, off, old)
  PROVE  InStep(refs, old, Collect(refs, seq, off), Len(refs))
<1>1. refs \in Seq(Ref) /\ Len(refs) \in Nat
  BY DEF ChunksOK
<1>2. seq \in 1 .. Len(refs) + 1 /\ seq \in Nat /\ off \in Nat
  BY <1>1 DEF Placed
<1>3. PICK g : /\ Collect(refs, seq, off) = g[Len(refs)]
               /\ g[0] = [seq |-> seq, off |-> off, got |-> <<>>]
               /\ \A i \in 1 .. Len(refs) : g[i] = Collected(g[i - 1], refs[i], i)
  BY <1>1, <1>2, CollectWalks
<1>4. InStep(refs, old, g[0], 0)
  <2>1. <<>> \in Seq(Byte) /\ Len(<<>>) = 0 /\ old \o <<>> = old
    BY ConcatEmptySeq
  <2>2. g[0].seq = seq /\ g[0].off = off /\ g[0].got = <<>>
    BY <1>3
  <2>3. g[0] \in Results
    BY <1>2, <1>3, <2>1, <2>2 DEF Results
  <2>4. ~ (seq <= 0)
    BY <1>1, <1>2
  <2> QED BY <2>1, <2>2, <2>3, <2>4 DEF InStep
<1> DEFINE T == {i \in 0 .. Len(refs) : ~ InStep(refs, old, g[i], i)}
<1>5. T = {}
  <2>1. SUFFICES ASSUME T # {} PROVE FALSE
    OBVIOUS
  <2>2. PICK i \in T : \A m \in T : i <= m
    <3>1. T \subseteq Nat
      OBVIOUS
    <3> HIDE DEF T
    <3> QED BY <2>1, <3>1, LeastNumber
  <2>3. i \in 0 .. Len(refs) /\ ~ InStep(refs, old, g[i], i)
    BY <2>2
  <2>4. i \in 1 .. Len(refs)
    <3>1. i # 0
      BY <1>4, <2>3
    <3> QED BY <1>1, <2>3, <3>1
  <2>5. i - 1 \in 0 .. Len(refs) /\ ~ (i <= i - 1)
    BY <1>1, <2>4
  <2>6. InStep(refs, old, g[i - 1], i - 1)
    BY <2>2, <2>5
  <2>7. PICK x : x = g[i - 1]
    OBVIOUS
  <2>8. InStep(refs, old, Collected(x, refs[i], i), i)
    BY <2>4, <2>6, <2>7, TurnKnown
  <2>9. g[i] = Collected(x, refs[i], i)
    BY <1>3, <2>4, <2>7
  <2> QED BY <2>3, <2>8, <2>9
<1>6. Len(refs) \in 0 .. Len(refs)
  BY <1>1
<1>7. InStep(refs, old, g[Len(refs)], Len(refs))
  BY <1>5, <1>6
<1> QED BY <1>3, <1>7

(* Nothing is collected from a closed process. *)
LEMMA CollectNothing ==
  ASSUME ReadMax \in Nat, NEW seq \in Nat, NEW off \in Nat
  PROVE  Collect(<<>>, seq, off) = [seq |-> seq, off |-> off, got |-> <<>>]
<1>1. <<>> \in Seq(Ref) /\ Len(<<>>) = 0
  OBVIOUS
<1>2. PICK g : /\ Collect(<<>>, seq, off) = g[Len(<<>>)]
               /\ g[0] = [seq |-> seq, off |-> off, got |-> <<>>]
               /\ \A i \in 1 .. Len(<<>>) : g[i] = Collected(g[i - 1], <<>>[i], i)
  BY <1>1, CollectWalks
<1> QED BY <1>1, <1>2

(* eof says that everything was read. *)
LEMMA NothingUnread ==
  ASSUME NEW refs, ChunksOK(refs), NEW seq, NEW off, NEW got, Placed(refs, seq, off, got),
         ~ HasUnread(refs, seq, off)
  PROVE  Len(got) = Size(refs)
<1>1. refs \in Seq(Ref) /\ Len(refs) \in Nat /\ DOMAIN refs = 1 .. Len(refs)
  BY DEF ChunksOK
<1>2. /\ seq \in 1 .. Len(refs) + 1 /\ off \in Nat
      /\ IF seq \in 1 .. Len(refs) THEN off < refs[seq].size ELSE off = 0
      /\ Len(got) = Size(Upto(refs, seq - 1)) + off
  BY DEF Placed
<1>3. seq \notin 1 .. Len(refs)
  <2>1. SUFFICES ASSUME seq \in 1 .. Len(refs) PROVE FALSE
    OBVIOUS
  <2>2. seq >= seq /\ seq \in DOMAIN refs /\ off < refs[seq].size
    BY <1>1, <1>2, <2>1
  <2> QED BY <2>2 DEF HasUnread
<1>4. seq - 1 = Len(refs) /\ off = 0
  BY <1>1, <1>2, <1>3
<1>5. Upto(refs, Len(refs)) = refs
  BY <1>1, UptoEnds
<1>6. Size(refs) \in Nat
  BY <1>1, SizeTotal
<1> QED BY <1>2, <1>4, <1>5, <1>6

-----------------------------------------------------------------------------
(* The readers.                                                            *)

ReaderRec == [at : {"free", "gate", "ready"}, seq : Nat, off : Nat, got : Seq(Byte), eof : BOOLEAN]

(* A read that has completed has bytes to deliver. *)
Full(p) == \A s \in Streams : drain[p][s] = "got" => pipe[p][s] > 0

(* What a client has read is all that is before its cursor, until finalize *)
(* drops the chunks; once it has learnt eof there is nothing after it.     *)
ReadInv(p) ==
  /\ Numbered(reader[p].got) /\ Full(p)
  /\ h[p].status = "Closed" => kept[p] = <<>>
  /\ h[p].status # "Closed" =>
       ChunksOK(kept[p]) /\ Placed(kept[p], reader[p].seq, reader[p].off, reader[p].got)
  /\ reader[p].eof =>
       h[p].finished /\ (h[p].status # "Closed" => Len(reader[p].got) = Size(kept[p]))
ReaderInv == reader \in [Procs -> ReaderRec] /\ \A p \in Procs : ReadInv(p)

(* A handle stays finished, and stays closed. *)
Onward(s, t) == (s.finished => t.finished) /\ (s.status = "Closed" => t.status = "Closed")

(* try_finish. *)
LEMMA TryFinishOnward ==
  ASSUME NEW s \in HandleRec, HandleOK(s), s.started
  PROVE  Onward(s, TryFinish(s))
<1> DEFINE t == TryFinish(s)
<1>1. CASE s.finished
  <2>1. t = s
    BY <1>1 DEF TryFinish
  <2> QED BY <2>1 DEF Onward
<1>2. CASE ~s.finished
  <2>1. s.status # "Closed"
    BY <1>2 DEF HandleOK
  <2> QED BY <1>2, <2>1 DEF Onward
<1> QED BY <1>1, <1>2

(* on_exit. *)
LEMMA ExitedOnward ==
  ASSUME NEW s \in HandleRec, HandleOK(s), s.started
  PROVE  Onward(s, Exited(s))
<1> DEFINE e == [s EXCEPT !.exited = TRUE, !.stdin = FALSE, !.timeout = Off(@)]
<1>1. CASE s.exited
  <2>1. Exited(s) = s
    BY <1>1 DEF Exited
  <2> QED BY <2>1 DEF Onward
<1>2. CASE ~s.exited
  <2>1. Off(s.timeout) \in TimerStates
    BY DEF Off, TimerStates
  <2>2. /\ e \in HandleRec /\ e.started = s.started /\ e.eof = s.eof /\ e.closing = s.closing
        /\ e.status = s.status /\ e.finished = s.finished
    BY <2>1 DEF HandleRec
  <2>3. Exited(s) = TryFinish(e)
    BY <1>2 DEF Exited
  <2> HIDE DEF e
  <2>4. HandleOK(e)
    BY <2>2 DEF HandleOK
  <2>5. Onward(e, TryFinish(e))
    BY <2>2, <2>4, TryFinishOnward
  <2> QED BY <2>2, <2>3, <2>5 DEF Onward
<1> QED BY <1>1, <1>2

(* finalize_close. *)
LEMMA FinalizedOnward ==
  ASSUME NEW s \in HandleRec
  PROVE  Onward(s, FinalizedProcess(s))
BY DEF FinalizedProcess, HandleRec, Onward

(* begin_close. *)
LEMMA ClosingOnward ==
  ASSUME NEW s \in HandleRec
  PROVE  Onward(s, Closing(s))
<1> DEFINE t == Closing(s)
<1>1. CASE s.status = "Closed"
  <2>1. t = s
    BY <1>1 DEF Closing
  <2> QED BY <2>1 DEF Onward
<1>2. CASE s.status # "Closed" /\ ~s.started
  <2>1. t = [s EXCEPT !.status = "Closed", !.closing = FALSE]
    BY <1>2 DEF Closing
  <2> HIDE DEF t
  <2>2. t.finished = s.finished
    BY <2>1 DEF HandleRec
  <2> QED BY <1>2, <2>2 DEF Onward, t
<1>3. CASE s.status # "Closed" /\ s.started
  <2> DEFINE k == [s EXCEPT !.closing = TRUE, !.status = "Closing", !.cancelled = TRUE, !.stdin = FALSE,
                            !.timeout = Off(@), !.grace = Off(@)]
  <2>1. Off(s.timeout) \in TimerStates /\ Off(s.grace) \in TimerStates
    BY DEF Off, TimerStates
  <2>2. k \in HandleRec /\ k.finished = s.finished
    BY <2>1 DEF HandleRec, Statuses
  <2>3. t = IF s.finished THEN FinalizedProcess(k) ELSE k
    BY <1>3 DEF Closing
  <2> HIDE DEF k, t
  <2>4. t.finished = s.finished
    <3>1. CASE ~s.finished
      BY <2>2, <2>3, <3>1
    <3>2. CASE s.finished
      <4>1. FinalizedProcess(k).finished = k.finished
        BY <2>2 DEF FinalizedProcess, HandleRec
      <4> QED BY <2>2, <2>3, <3>2, <4>1
    <3> QED BY <3>1, <3>2
  <2> QED BY <1>3, <2>4 DEF Onward, t
<1> QED BY <1>1, <1>2, <1>3

-----------------------------------------------------------------------------
(* What leaves a reader where it is.                                       *)

(* The cursor of a reader stays where it is. *)
StaysThere(r, s) == s \in ReaderRec /\ s.seq = r.seq /\ s.off = r.off /\ s.got = r.got /\ s.eof = r.eof

(* What a step leaves alone. *)
LEMMA Undisturbed ==
  ASSUME NEW q, ReadInv(q), Onward(h[q], h'[q]), StaysThere(reader[q], reader'[q]), Full(q)',
         IF h'[q].status = "Closed" /\ h[q].status # "Closed" THEN kept'[q] = <<>> ELSE kept'[q] = kept[q]
  PROVE  ReadInv(q)'
<1>1. /\ reader'[q].seq = reader[q].seq /\ reader'[q].off = reader[q].off
      /\ reader'[q].got = reader[q].got /\ reader'[q].eof = reader[q].eof
  BY DEF StaysThere
<1>2. CASE h[q].status = "Closed"
  <2>1. h'[q].status = "Closed" /\ kept'[q] = kept[q] /\ (h[q].finished => h'[q].finished)
    BY <1>2 DEF Onward
  <2> QED BY <1>1, <1>2, <2>1 DEF ReadInv
<1>3. CASE h[q].status # "Closed" /\ h'[q].status = "Closed"
  <2>1. kept'[q] = <<>> /\ (h[q].finished => h'[q].finished)
    BY <1>3 DEF Onward
  <2> QED BY <1>1, <1>3, <2>1 DEF ReadInv
<1>4. CASE h[q].status # "Closed" /\ h'[q].status # "Closed"
  <2>1. kept'[q] = kept[q] /\ (h[q].finished => h'[q].finished)
    BY <1>4 DEF Onward
  <2> QED BY <1>1, <1>4, <2>1 DEF ReadInv
<1> QED BY <1>2, <1>3, <1>4

(* No handle, no chunk and no reader changes. *)
LEMMA ReadersUntouched ==
  ASSUME ReaderInv, UNCHANGED <<h, kept, reader>>, \A q \in Procs : Full(q)'
  PROVE  ReaderInv'
<1>1. ASSUME NEW q \in Procs PROVE ReadInv(q)'
  <2>1. Onward(h[q], h'[q])
    BY DEF Onward
  <2>2. reader[q] \in ReaderRec /\ StaysThere(reader[q], reader'[q])
    BY DEF ReaderInv, StaysThere
  <2>3. kept'[q] = kept[q] /\ h'[q] = h[q]
    OBVIOUS
  <2> QED BY <2>1, <2>2, <2>3, Undisturbed DEF ReaderInv
<1> QED BY <1>1 DEF ReaderInv

(* A handle changes, and is not closed. *)
LEMMA HandleMoves ==
  ASSUME ReaderInv, HandleTypes, NEW p \in Procs, NEW t, h' = [h EXCEPT ![p] = t],
         Onward(h[p], t), t.status = "Closed" => h[p].status = "Closed",
         UNCHANGED <<kept, reader>>, \A q \in Procs : Full(q)'
  PROVE  ReaderInv'
<1>1. ASSUME NEW q \in Procs PROVE ReadInv(q)'
  <2>1. Onward(h[q], h'[q]) /\ (h'[q].status = "Closed" => h[q].status = "Closed")
    <3>1. CASE q = p
      BY <3>1 DEF HandleTypes
    <3>2. CASE q # p
      <4>1. h'[q] = h[q]
        BY <3>2 DEF HandleTypes
      <4> QED BY <4>1 DEF Onward
    <3> QED BY <3>1, <3>2
  <2>2. reader[q] \in ReaderRec /\ StaysThere(reader[q], reader'[q])
    BY DEF ReaderInv, StaysThere
  <2> QED BY <2>1, <2>2, Undisturbed DEF ReaderInv
<1> QED BY <1>1 DEF ReaderInv

(* A woken read has not moved. *)
LEMMA WokenReaderStays ==
  ASSUME reader \in [Procs -> ReaderRec], NEW p \in Procs, NEW gates, reader' = WokenReader(p, gates)
  PROVE  reader' \in [Procs -> ReaderRec] /\ \A q \in Procs : StaysThere(reader[q], reader'[q])
<1>1. CASE reader' = reader
  BY <1>1 DEF StaysThere
<1>2. CASE reader' # reader
  <2>1. reader' = [reader EXCEPT ![p].at = "ready"]
    BY <1>2 DEF WokenReader
  <2> DEFINE r == [reader[p] EXCEPT !.at = "ready"]
  <2>2. reader[p] \in ReaderRec
    OBVIOUS
  <2>3. r \in ReaderRec /\ r.seq = reader[p].seq /\ r.off = reader[p].off /\ r.got = reader[p].got /\ r.eof = reader[p].eof
    BY <2>2 DEF ReaderRec
  <2>4. reader' = [reader EXCEPT ![p] = r]
    BY <2>1
  <2> HIDE DEF r
  <2>5. reader' \in [Procs -> ReaderRec] /\ reader'[p] = r /\ \A q \in Procs \ {p} : reader'[q] = reader[q]
    BY <2>3, <2>4
  <2>6. ASSUME NEW q \in Procs PROVE StaysThere(reader[q], reader'[q])
    <3>1. CASE q = p
      BY <2>3, <2>5, <3>1 DEF StaysThere
    <3>2. CASE q # p
      BY <2>5, <3>2 DEF StaysThere
    <3> QED BY <3>1, <3>2
  <2> QED BY <2>5, <2>6
<1> QED BY <1>1, <1>2

(* The handle becomes t. *)
LEMMA BecomeReads ==
  ASSUME ReaderInv, HandleTypes, kept \in [Procs -> Seq(Ref)], NEW p \in Procs, NEW t, NEW gates,
         Become(p, t, gates), Onward(h[p], t), \A q \in Procs : Full(q)'
  PROVE  ReaderInv'
<1>1. /\ h' = [h EXCEPT ![p] = t] /\ reader' = WokenReader(p, gates)
      /\ kept' = IF t.status = "Closed" /\ h[p].status # "Closed" THEN [kept EXCEPT ![p] = <<>>] ELSE kept
  BY DEF Become
<1>2. reader' \in [Procs -> ReaderRec] /\ \A q \in Procs : StaysThere(reader[q], reader'[q])
  BY <1>1, WokenReaderStays DEF ReaderInv
<1>3. h'[p] = t /\ \A q \in Procs \ {p} : h'[q] = h[q]
  BY <1>1 DEF HandleTypes
<1>4. ASSUME NEW q \in Procs PROVE ReadInv(q)'
  <2>1. Onward(h[q], h'[q])
    <3>1. CASE q = p
      BY <1>3, <3>1
    <3>2. CASE q # p
      BY <1>3, <3>2 DEF Onward
    <3> QED BY <3>1, <3>2
  <2>2. IF h'[q].status = "Closed" /\ h[q].status # "Closed" THEN kept'[q] = <<>> ELSE kept'[q] = kept[q]
    <3>1. CASE q = p
      BY <1>1, <1>3, <3>1
    <3>2. CASE q # p
      <4>1. h'[q] = h[q] /\ kept'[q] = kept[q]
        BY <1>1, <1>3, <3>2
      <4> QED BY <4>1
    <3> QED BY <3>1, <3>2
  <2> QED BY <1>2, <2>1, <2>2, Undisturbed DEF ReaderInv
<1> QED BY <1>2, <1>4 DEF ReaderInv

-----------------------------------------------------------------------------
(* The steps.                                                              *)

(* No drain and no pipe moves. *)
LEMMA FullStays ==
  ASSUME \A q \in Procs : Full(q), UNCHANGED <<drain, pipe>>
  PROVE  \A q \in Procs : Full(q)'
BY DEF Full

(* A drain of p moves and the pipes stay. *)
LEMMA FullMoves ==
  ASSUME HandleTypes, \A q \in Procs : Full(q), NEW p \in Procs, NEW s \in Streams, NEW d,
         drain' = [drain EXCEPT ![p][s] = d], pipe' = pipe, d = "got" => pipe[p][s] > 0
  PROVE  \A q \in Procs : Full(q)'
<1> SUFFICES ASSUME NEW q \in Procs, NEW u \in Streams, drain'[q][u] = "got"
             PROVE  pipe'[q][u] > 0
  BY DEF Full
<1>1. drain \in [Procs -> [Streams -> DrainPlaces]]
  BY DEF HandleTypes
<1>2. CASE q = p /\ u = s
  <2>1. drain'[p][s] = d
    BY <1>1
  <2> QED BY <1>2, <2>1
<1>3. CASE ~(q = p /\ u = s)
  <2>1. drain'[q][u] = drain[q][u]
    BY <1>1, <1>3
  <2> QED BY <2>1 DEF Full
<1> QED BY <1>2, <1>3

(* begin_close aborts reads. *)
LEMMA FullCloses ==
  ASSUME HandleTypes, \A q \in Procs : Full(q), NEW p \in Procs, BeginsProcessClose(p), pipe' = pipe
  PROVE  \A q \in Procs : Full(q)'
<1>1. CASE drain' = drain
  BY <1>1, FullStays
<1>2. CASE drain' = [drain EXCEPT ![p] = [s \in Streams |-> IF drain[p][s] = "read" THEN "abort" ELSE drain[p][s]]]
  <2> SUFFICES ASSUME NEW q \in Procs, NEW u \in Streams, drain'[q][u] = "got"
               PROVE  pipe'[q][u] > 0
    BY DEF Full
  <2>1. drain \in [Procs -> [Streams -> DrainPlaces]]
    BY DEF HandleTypes
  <2>2. drain[q][u] = "got"
    <3>1. CASE q = p
      <4>1. drain'[q] = [s \in Streams |-> IF drain[p][s] = "read" THEN "abort" ELSE drain[p][s]]
        BY <1>2, <2>1, <3>1
      <4> QED BY <3>1, <4>1
    <3>2. CASE q # p
      BY <1>2, <2>1, <3>2
    <3> QED BY <3>1, <3>2
  <2> QED BY <2>2 DEF Full
<1> QED BY <1>1, <1>2 DEF BeginsProcessClose

(* start begins with empty pipes and no read. *)
LEMMA StartFills ==
  ASSUME HandleTypes, \A q \in Procs : Full(q), NEW p \in Procs, Start(p)
  PROVE  \A q \in Procs : Full(q)'
<1> SUFFICES ASSUME NEW q \in Procs, NEW u \in Streams, drain'[q][u] = "got"
             PROVE  pipe'[q][u] > 0
  BY DEF Full
<1>1. drain' = [drain EXCEPT ![p] = [s \in Streams |-> "start"]] /\ pipe' = pipe
  BY DEF Start
<1>2. drain \in [Procs -> [Streams -> DrainPlaces]]
  BY DEF HandleTypes
<1>3. q # p
  <2>1. drain'[p][u] = "start"
    BY <1>1, <1>2
  <2> QED BY <2>1
<1>4. drain[q][u] = "got"
  BY <1>1, <1>2, <1>3
<1> QED BY <1>1, <1>4 DEF Full

(* A child writes into its pipe. *)
LEMMA ChildWritesFills ==
  ASSUME HandleTypes, \A q \in Procs : Full(q), NEW p \in Procs, NEW s \in Streams, ChildWrites(p, s)
  PROVE  \A q \in Procs : Full(q)'
<1> SUFFICES ASSUME NEW q \in Procs, NEW u \in Streams, drain'[q][u] = "got"
             PROVE  pipe'[q][u] > 0
  BY DEF Full
<1>1. drain' = drain /\ pipe' = [pipe EXCEPT ![p][s] = pipe[p][s] + 1]
  BY DEF ChildWrites, processState
<1>2. pipe \in [Procs -> [Streams -> Nat]]
  BY DEF HandleTypes, Counts
<1>3. pipe[q][u] \in Nat /\ pipe[q][u] > 0
  BY <1>1, <1>2 DEF Full
<1>4. pipe'[q][u] = pipe[q][u] \/ pipe'[q][u] = pipe[q][u] + 1
  BY <1>1, <1>2
<1> QED BY <1>3, <1>4

(* A drain takes what is in the pipe, and reads again. *)
LEMMA DrainTakesFull ==
  ASSUME HandleTypes, \A q \in Procs : Full(q), NEW p \in Procs, NEW s \in Streams, DrainTakes(p, s)
  PROVE  \A q \in Procs : Full(q)'
<1> SUFFICES ASSUME NEW q \in Procs, NEW u \in Streams, drain'[q][u] = "got"
             PROVE  pipe'[q][u] > 0
  BY DEF Full
<1>1. drain' = [drain EXCEPT ![p][s] = "read"] /\ pipe' = [pipe EXCEPT ![p][s] = 0]
  BY DEF DrainTakes
<1>2. drain \in [Procs -> [Streams -> DrainPlaces]] /\ pipe \in [Procs -> [Streams -> Nat]]
  BY DEF HandleTypes, Counts
<1>3. ~(q = p /\ u = s)
  <2>1. drain'[p][s] = "read"
    BY <1>1, <1>2
  <2> QED BY <2>1
<1>4. drain[q][u] = "got" /\ pipe'[q][u] = pipe[q][u]
  BY <1>1, <1>2, <1>3
<1> QED BY <1>4 DEF Full

(* append_capture appends a chunk, behind every cursor. *)
LEMMA DrainTakesReads ==
  ASSUME ProcessConstantsOK, ProcessInv, BudgetInv, ReaderInv,
         NEW p \in Procs, NEW s \in Streams, DrainTakes(p, s)
  PROVE  ReaderInv'
<1>1. HandleTypes /\ DrainedInv(p) /\ (\A q \in Procs : Full(q)) /\ reader \in [Procs -> ReaderRec]
  BY DEF ProcessInv, ReaderInv, ReadInv
<1>2. \A q \in Procs : Full(q)'
  BY <1>1, DrainTakesFull
<1> DEFINE n == pipe[p][s]
           room == Room(p, s)
           take == Min({n, room})
           r == [stream |-> s, from |-> Acc(kept[p], s), size |-> take]
<1>3. h' = h /\ drain[p][s] = "got"
  BY DEF DrainTakes
<1>4. CASE room = 0
  <2>1. kept' = kept /\ reader' = reader
    BY <1>4 DEF DrainTakes
  <2> QED BY <1>2, <1>3, <2>1, ReadersUntouched
<1>5. CASE room # 0
  <2>1. kept' = [kept EXCEPT ![p] = Append(kept[p], r)] /\ reader' = WokenReader(p, {"read"})
    BY <1>5 DEF DrainTakes
  <2>2. kept \in [Procs -> Seq(Ref)] /\ kept[p] \in Seq(Ref)
    BY DEF BudgetInv
  <2>3. n \in Nat /\ n > 0
    BY <1>1, <1>3 DEF HandleTypes, Counts, Full
  <2>4. Acc(kept[p], s) \in Nat
    BY <2>2, AccTotal
  <2>5. room \in Nat
    <3>1. buffered \in Nat
      <4>1. IsFiniteSet(Procs) /\ \A q \in Procs : SizeOf[q] \in Nat
        BY <2>2, SizeTotal DEF SizeOf, ProcessConstantsOK
      <4>2. IsFiniteSet(Units(SizeOf, Procs))
        BY <4>1, UnitsFinite
      <4> QED BY <4>2, FS_CardinalityType DEF AllKept, BudgetInv
    <3>2. Cap \in Nat /\ MaxTotal \in Nat
      BY DEF ProcessConstantsOK
    <3>3. EntryRoom(p, s) \in Nat /\ GlobalRoom \in Nat
      BY <2>4, <3>1, <3>2 DEF EntryRoom, GlobalRoom
    <3> QED BY <3>3, LesserOf DEF Room
  <2>6. take \in Nat /\ take > 0
    <3> HIDE DEF room, n
    <3>1. take \in Nat /\ take \in {n, room}
      BY <2>3, <2>5, LeastOf
    <3> QED BY <1>5, <2>3, <2>5, <3>1
  <2> HIDE DEF room, n, take
  <2>7. r \in Ref /\ r.size = take /\ r.from = Acc(kept[p], r.stream)
    BY <2>4, <2>6 DEF Ref
  <2> HIDE DEF r
  <2>8. kept'[p] = Append(kept[p], r) /\ \A q \in Procs \ {p} : kept'[q] = kept[q]
    BY <2>1, <2>2
  <2>9. h[p].status # "Closed" /\ ~h[p].finished
    BY <1>1, <1>3 DEF DrainedInv, HandleOK, Streams
  <2>10. reader' \in [Procs -> ReaderRec] /\ \A q \in Procs : StaysThere(reader[q], reader'[q])
    BY <1>1, <2>1, WokenReaderStays
  <2>11. ReadInv(p)'
    <3>1. /\ Numbered(reader[p].got) /\ ~reader[p].eof
          /\ ChunksOK(kept[p]) /\ Placed(kept[p], reader[p].seq, reader[p].off, reader[p].got)
      BY <2>9 DEF ReaderInv, ReadInv
    <3>2. /\ reader'[p].seq = reader[p].seq /\ reader'[p].off = reader[p].off
          /\ reader'[p].got = reader[p].got /\ reader'[p].eof = reader[p].eof
      BY <2>10 DEF StaysThere
    <3>3. ChunksOK(Append(kept[p], r))
      BY <2>6, <2>7, <3>1, PlacedStays
    <3>4. Placed(Append(kept[p], r), reader[p].seq, reader[p].off, reader[p].got)
      BY <2>6, <2>7, <3>1, PlacedStays
    <3> QED BY <1>2, <1>3, <2>8, <2>9, <3>1, <3>2, <3>3, <3>4 DEF ReadInv
  <2>12. ASSUME NEW q \in Procs \ {p} PROVE ReadInv(q)'
    <3>1. Onward(h[q], h'[q])
      BY <1>3 DEF Onward
    <3>2. ReadInv(q) /\ StaysThere(reader[q], reader'[q]) /\ Full(q)'
      BY <1>2, <2>10 DEF ReaderInv
    <3>3. kept'[q] = kept[q] /\ h'[q] = h[q]
      BY <1>3, <2>8
    <3> QED BY <3>1, <3>2, <3>3, Undisturbed
  <2> QED BY <2>10, <2>11, <2>12 DEF ReaderInv
<1> QED BY <1>4, <1>5

(* A read moves the cursor over what it returns. *)
LEMMA ReadAdvances ==
  ASSUME ProcessConstantsOK, ProcessInv, ReaderInv, NEW p \in Procs, Reads(p)
  PROVE  ReaderInv'
<1> DEFINE r == reader[p]
           c == Collect(kept[p], r.seq, r.off)
           eof == h[p].finished /\ ~HasUnread(kept[p], c.seq, c.off)
           new == [at |-> "free", seq |-> c.seq, off |-> c.off, got |-> r.got \o c.got, eof |-> eof]
           gate == [r EXCEPT !.at = "gate"]
<1>1. /\ h' = h /\ kept' = kept /\ drain' = drain /\ pipe' = pipe
      /\ reader' = [reader EXCEPT ![p] = new] \/ reader' = [reader EXCEPT ![p] = gate]
  BY DEF Reads, processKernel
<1>2. reader \in [Procs -> ReaderRec] /\ ReadInv(p) /\ \A q \in Procs : Full(q)
  BY DEF ReaderInv, ReadInv
<1>3. \A q \in Procs : Full(q)'
  BY <1>1, <1>2, FullStays
<1>4. /\ r \in ReaderRec /\ r.seq \in Nat /\ r.off \in Nat /\ r.got \in Seq(Byte) /\ Numbered(r.got)
      /\ ReadMax \in Nat /\ h[p].finished \in BOOLEAN
  <2>1. r \in ReaderRec /\ ReadMax \in Nat /\ h[p] \in HandleRec
    BY <1>2 DEF ProcessConstantsOK, ProcessInv, HandleTypes
  <2>2. Numbered(r.got)
    BY <1>2 DEF ReadInv
  <2> QED BY <2>1, <2>2 DEF ReaderRec, HandleRec
<1>5. ASSUME NEW s, reader' = [reader EXCEPT ![p] = s], s \in ReaderRec,
             Numbered(s.got), s.eof => h[p].finished,
             h[p].status # "Closed" =>
               /\ Placed(kept[p], s.seq, s.off, s.got)
               /\ s.eof => Len(s.got) = Size(kept[p])
      PROVE  ReaderInv'
  <2>1. reader' \in [Procs -> ReaderRec] /\ reader'[p] = s /\ \A q \in Procs \ {p} : reader'[q] = reader[q]
    BY <1>2, <1>5
  <2>2. ReadInv(p)'
    <3>1. h[p].status # "Closed" => ChunksOK(kept[p])
      BY <1>2 DEF ReadInv
    <3>2. h[p].status = "Closed" => kept[p] = <<>>
      BY <1>2 DEF ReadInv
    <3> QED BY <1>1, <1>3, <1>5, <2>1, <3>1, <3>2 DEF ReadInv
  <2>3. ASSUME NEW q \in Procs \ {p} PROVE ReadInv(q)'
    <3>1. reader'[q] = reader[q] /\ reader[q] \in ReaderRec /\ ReadInv(q)
      BY <2>1, <1>2 DEF ReaderInv
    <3>2. Onward(h[q], h'[q]) /\ StaysThere(reader[q], reader'[q])
      BY <1>1, <3>1 DEF Onward, StaysThere
    <3> QED BY <1>1, <1>3, <3>1, <3>2, Undisturbed
  <2> QED BY <2>1, <2>2, <2>3 DEF ReaderInv
<1>6. CASE reader' = [reader EXCEPT ![p] = gate]
  <2>1. gate \in ReaderRec /\ gate.seq = r.seq /\ gate.off = r.off /\ gate.got = r.got /\ gate.eof = r.eof
    BY <1>4 DEF ReaderRec
  <2> HIDE DEF gate
  <2> QED BY <1>2, <1>5, <1>6, <2>1 DEF ReadInv
<1>7. CASE reader' = [reader EXCEPT ![p] = new]
  <2>1. eof \in BOOLEAN /\ (eof => h[p].finished)
    BY <1>4
  <2>2. CASE h[p].status = "Closed"
    <3>1. kept[p] = <<>>
      BY <1>2, <2>2 DEF ReadInv
    <3>2. c = [seq |-> r.seq, off |-> r.off, got |-> <<>>]
      BY <1>4, <3>1, CollectNothing
    <3>3. r.got \o <<>> = r.got
      BY <1>4, ConcatEmptySeq
    <3> HIDE DEF r, c, eof
    <3>4. new = [at |-> "free", seq |-> r.seq, off |-> r.off, got |-> r.got, eof |-> eof]
      BY <3>2, <3>3
    <3> HIDE DEF new
    <3>5. new \in ReaderRec /\ new.got = r.got /\ new.eof = eof
      BY <1>4, <2>1, <3>4 DEF ReaderRec
    <3> QED BY <1>4, <1>5, <1>7, <2>1, <2>2, <3>5
  <2>3. CASE h[p].status # "Closed"
    <3>1. ChunksOK(kept[p]) /\ Placed(kept[p], r.seq, r.off, r.got)
      BY <1>2, <2>3 DEF ReadInv
    <3>2. InStep(kept[p], r.got, c, Len(kept[p]))
      BY <1>4, <3>1, CollectGood
    <3>3. /\ c \in Results /\ r.got \o c.got \in Seq(Byte) /\ Numbered(r.got \o c.got)
          /\ Placed(kept[p], c.seq, c.off, r.got \o c.got)
      BY <3>2 DEF InStep
    <3>4. eof => Len(r.got \o c.got) = Size(kept[p])
      BY <3>1, <3>3, NothingUnread
    <3>5. c.seq \in Nat /\ c.off \in Nat
      <4>1. c \in [seq : Nat, off : Nat, got : Seq(Byte)]
        BY <3>3 DEF Results
      <4> QED BY <4>1
    <3> DEFINE all == r.got \o c.got
    <3>6. all \in Seq(Byte) /\ Numbered(all) /\ Placed(kept[p], c.seq, c.off, all) /\ (eof => Len(all) = Size(kept[p]))
      BY <3>3, <3>4
    <3>7. new = [at |-> "free", seq |-> c.seq, off |-> c.off, got |-> all, eof |-> eof]
      OBVIOUS
    <3> HIDE DEF r, c, eof, all, new
    <3>8. new \in ReaderRec /\ new.seq = c.seq /\ new.off = c.off /\ new.got = all /\ new.eof = eof
      BY <2>1, <3>5, <3>6, <3>7 DEF ReaderRec
    <3> QED BY <1>5, <1>7, <2>1, <3>6, <3>8
  <2> QED BY <2>2, <2>3
<1> HIDE DEF r, c, eof, new, gate
<1>8. reader' = [reader EXCEPT ![p] = new] \/ reader' = [reader EXCEPT ![p] = gate]
  BY <1>1
<1> QED BY <1>6, <1>7, <1>8

(* The end of a drain, the reap and a close. *)
LEMMA DrainEndsReads ==
  ASSUME ProcessInv, BudgetInv, ReaderInv, NEW p \in Procs, NEW s \in Streams, DrainEnds(p, s)
  PROVE  ReaderInv'
<1> DEFINE e == [h[p] EXCEPT !.eof = h[p].eof \cup {s}]
           t == TryFinish(e)
<1>1. HandleTypes /\ DrainedInv(p) /\ h[p] \in HandleRec /\ kept \in [Procs -> Seq(Ref)]
  BY DEF ProcessInv, HandleTypes, BudgetInv
<1>2. h[p].started /\ HandleOK(h[p])
  BY <1>1 DEF DrainedInv, DrainEnds
<1>3. /\ e \in HandleRec /\ e.eof = h[p].eof \cup {s} /\ e.started = h[p].started /\ e.finished = h[p].finished
      /\ e.status = h[p].status /\ e.closing = h[p].closing
  BY <1>1 DEF HandleRec
<1>4. \E gates : Become(p, t, gates)
  BY DEF DrainEnds
<1> HIDE DEF e
<1>5. HandleOK(e)
  BY <1>2, <1>3 DEF HandleOK
<1>6. Onward(e, t)
  BY <1>2, <1>3, <1>5, TryFinishOnward
<1>7. Onward(h[p], t)
  BY <1>3, <1>6 DEF Onward
<1>8. \A q \in Procs : Full(q)'
  <2>1. drain' = [drain EXCEPT ![p][s] = "done"] /\ pipe' = pipe /\ \A q \in Procs : Full(q)
    BY DEF DrainEnds, processKernel, ReaderInv, ReadInv
  <2> QED BY <1>1, <2>1, FullMoves
<1> HIDE DEF t
<1> QED BY <1>1, <1>4, <1>7, <1>8, BecomeReads

(* The reap finishes a process whose drains are over. *)
LEMMA ReapReads ==
  ASSUME ProcessInv, BudgetInv, ReaderInv, NEW p \in Procs, Reap(p)
  PROVE  ReaderInv'
<1> DEFINE t == Exited(h[p])
<1>1. HandleTypes /\ DrainedInv(p) /\ h[p] \in HandleRec /\ kept \in [Procs -> Seq(Ref)]
  BY DEF ProcessInv, HandleTypes, BudgetInv
<1>2. h[p].started /\ HandleOK(h[p])
  BY <1>1 DEF DrainedInv, Reap
<1>3. Onward(h[p], t)
  BY <1>1, <1>2, ExitedOnward
<1>4. \E gates : Become(p, t, gates)
  BY DEF Reap
<1>5. \A q \in Procs : Full(q)'
  <2>1. drain' = drain /\ pipe' = pipe /\ \A q \in Procs : Full(q)
    BY DEF Reap, ReaderInv, ReadInv
  <2> QED BY <2>1, FullStays
<1> HIDE DEF t
<1> QED BY <1>1, <1>3, <1>4, <1>5, BecomeReads

(* A close that runs on the executor. *)
LEMMA CloseReads ==
  ASSUME ProcessInv, BudgetInv, ReaderInv, NEW p \in Procs, BeginsProcessClose(p), pipe' = pipe
  PROVE  ReaderInv'
<1> DEFINE t == Closing(h[p])
<1>1. HandleTypes /\ h[p] \in HandleRec /\ kept \in [Procs -> Seq(Ref)] /\ \A q \in Procs : Full(q)
  BY DEF ProcessInv, HandleTypes, BudgetInv, ReaderInv, ReadInv
<1>2. Onward(h[p], t)
  BY <1>1, ClosingOnward
<1>3. \E gates : Become(p, t, gates)
  BY DEF BeginsProcessClose
<1>4. \A q \in Procs : Full(q)'
  BY <1>1, FullCloses
<1> HIDE DEF t
<1> QED BY <1>1, <1>2, <1>3, <1>4, BecomeReads

(* A close that has waited for the drains. *)
LEMMA JoinReads ==
  ASSUME ProcessInv, BudgetInv, ReaderInv, NEW c \in Clients, CloseJoins(c)
  PROVE  ReaderInv'
<1> DEFINE p == pCall[c].p
           t == IF h[p].finished /\ h[p].status # "Closed" THEN FinalizedProcess(h[p]) ELSE h[p]
<1>1. HandleTypes /\ kept \in [Procs -> Seq(Ref)] /\ \A q \in Procs : Full(q)
  BY DEF ProcessInv, BudgetInv, ReaderInv, ReadInv
<1>2. p \in Procs
  BY DEF CloseJoins, ProcessInv, CallsInv, ClientInv
<1>3. h[p] \in HandleRec
  BY <1>1, <1>2 DEF HandleTypes
<1>4. Onward(h[p], t)
  <2>1. Onward(h[p], h[p])
    BY DEF Onward
  <2> QED BY <1>3, <2>1, FinalizedOnward
<1>5. \E gates : Become(p, t, gates)
  BY DEF CloseJoins
<1>6. \A q \in Procs : Full(q)'
  <2>1. drain' = drain /\ pipe' = pipe
    BY DEF CloseJoins, processKernel
  <2> QED BY <1>1, <2>1, FullStays
<1> HIDE DEF t, p
<1> QED BY <1>1, <1>2, <1>4, <1>5, <1>6, BecomeReads

(* The timers, a write and a start change nothing that a reader sees. *)
LEMMA TimerReads ==
  ASSUME ProcessInv, ReaderInv, NEW p \in Procs,
         Timers(p) \/ \E sig \in {"SIGTERM", "SIGKILL"} : Terminate(p, sig)
  PROVE  ReaderInv'
<1>1. UNCHANGED <<kept, reader, drain, pipe>>
  BY DEF Timers, TimerExpires, TimeoutFires, GraceFires, Terminate, processKernel
<1>2. HandleTypes /\ h \in [Procs -> HandleRec] /\ \A q \in Procs : Full(q)
  BY DEF ProcessInv, HandleTypes, ReaderInv, ReadInv
<1>3. \A q \in Procs : Full(q)'
  BY <1>1, <1>2, FullStays
<1>4. ASSUME NEW t, h' = [h EXCEPT ![p] = t], t.finished = h[p].finished, t.status = h[p].status
      PROVE  ReaderInv'
  <2>1. Onward(h[p], t)
    BY <1>4 DEF Onward
  <2> QED BY <1>1, <1>2, <1>3, <1>4, <2>1, HandleMoves
<1>5. ASSUME NEW x, h' = [h EXCEPT ![p].timeout = x] PROVE ReaderInv'
  <2> DEFINE t == [h[p] EXCEPT !.timeout = x]
  <2>1. h' = [h EXCEPT ![p] = t] /\ t.finished = h[p].finished /\ t.status = h[p].status
    BY <1>2, <1>5 DEF HandleRec
  <2> HIDE DEF t
  <2> QED BY <1>4, <2>1
<1>6. ASSUME NEW x, h' = [h EXCEPT ![p].grace = x] PROVE ReaderInv'
  <2> DEFINE t == [h[p] EXCEPT !.grace = x]
  <2>1. h' = [h EXCEPT ![p] = t] /\ t.finished = h[p].finished /\ t.status = h[p].status
    BY <1>2, <1>6 DEF HandleRec
  <2> HIDE DEF t
  <2> QED BY <1>4, <2>1
<1>7. ASSUME NEW x, NEW y, h' = [h EXCEPT ![p].timeout = x, ![p].timedOut = y] PROVE ReaderInv'
  <2> DEFINE t == [h[p] EXCEPT !.timeout = x, !.timedOut = y]
  <2>1. h' = [h EXCEPT ![p] = t] /\ t.finished = h[p].finished /\ t.status = h[p].status
    BY <1>2, <1>7 DEF HandleRec
  <2> HIDE DEF t
  <2> QED BY <1>4, <2>1
<1>8. CASE TimerExpires(p)
  BY <1>5, <1>6, <1>8 DEF TimerExpires
<1>9. CASE TimeoutFires(p)
  <2>1. \E x, y : h' = [h EXCEPT ![p].timeout = x, ![p].timedOut = y]
    BY <1>9 DEF TimeoutFires
  <2> QED BY <1>7, <2>1
<1>10. CASE GraceFires(p)
  <2>1. \E x : h' = [h EXCEPT ![p].grace = x]
    BY <1>10 DEF GraceFires
  <2> QED BY <1>6, <2>1
<1>11. CASE \E sig : Terminate(p, sig)
  <2>1. \E x : h' = [h EXCEPT ![p].grace = x]
    BY <1>11 DEF Terminate
  <2> QED BY <1>6, <2>1
<1> QED BY <1>8, <1>9, <1>10, <1>11 DEF Timers

(* A write to stdin. *)
LEMMA WriteReads ==
  ASSUME ProcessInv, ReaderInv, NEW c \in Clients, WriteProceeds(c)
  PROVE  ReaderInv'
<1> DEFINE p == pCall[c].p
<1>1. UNCHANGED <<kept, reader, drain, pipe>>
  BY DEF WriteProceeds
<1>2. HandleTypes /\ h \in [Procs -> HandleRec] /\ \A q \in Procs : Full(q)
  BY DEF ProcessInv, HandleTypes, ReaderInv, ReadInv
<1>3. \A q \in Procs : Full(q)'
  BY <1>1, <1>2, FullStays
<1>4. p \in Procs
  BY DEF WriteProceeds, ProcessInv, CallsInv, ClientInv
<1>5. h' = h \/ \E x : h' = [h EXCEPT ![p].stdin = x]
  BY DEF WriteProceeds
<1> HIDE DEF p
<1>6. CASE h' = h
  BY <1>1, <1>3, <1>6, ReadersUntouched
<1>7. ASSUME NEW x, h' = [h EXCEPT ![p].stdin = x] PROVE ReaderInv'
  <2> DEFINE t == [h[p] EXCEPT !.stdin = x]
  <2>1. h' = [h EXCEPT ![p] = t] /\ t.finished = h[p].finished /\ t.status = h[p].status
    BY <1>2, <1>4, <1>7 DEF HandleRec
  <2> HIDE DEF t
  <2>2. Onward(h[p], t)
    BY <2>1 DEF Onward
  <2> QED BY <1>1, <1>2, <1>3, <1>4, <2>1, <2>2, HandleMoves
<1> QED BY <1>5, <1>6, <1>7

(* start. *)
LEMMA StartReads ==
  ASSUME ProcessInv, ReaderInv, NEW p \in Procs, Start(p)
  PROVE  ReaderInv'
<1> DEFINE t == [Fresh EXCEPT !.status = "Running", !.started = TRUE, !.stdin = TRUE, !.slot = TRUE,
                   !.timeout = IF "timeout" \in pUse.traits[p] THEN "armed" ELSE "off"]
<1>1. h' = [h EXCEPT ![p] = t] /\ h[p].status = "Created" /\ UNCHANGED <<kept, reader>>
  BY DEF Start
<1>2. HandleTypes /\ HandleOK(h[p]) /\ \A q \in Procs : Full(q)
  BY DEF ProcessInv, DrainedInv, ReaderInv, ReadInv
<1>3. \A q \in Procs : Full(q)'
  BY <1>2, StartFills
<1>4. t.status = "Running"
  BY DEF Fresh
<1> HIDE DEF t
<1>5. ~h[p].finished
  BY <1>1, <1>2 DEF HandleOK
<1>6. Onward(h[p], t)
  BY <1>1, <1>5 DEF Onward
<1> QED BY <1>1, <1>2, <1>3, <1>4, <1>6, HandleMoves

(* Every step keeps the readers. *)
LEMMA ProcessNextKeepsReaders ==
  ASSUME ProcessConstantsOK, ProcessInv, BudgetInv, ReaderInv, [ProcessNext]_processVars
  PROVE  ReaderInv'
<1>1. HandleTypes /\ (\A q \in Procs : Full(q)) /\ reader \in [Procs -> ReaderRec]
  BY DEF ProcessInv, ReaderInv, ReadInv
<1>2. ASSUME UNCHANGED <<h, kept, reader, drain, pipe>> PROVE ReaderInv'
  BY <1>1, <1>2, FullStays, ReadersUntouched
<1>3. CASE UNCHANGED processVars
  BY <1>2, <1>3 DEF processVars, processState, processKernel
<1>4. ASSUME NEW p \in Procs,
             \/ \E s \in Streams : Drains(p, s) \/ ChildWrites(p, s)
             \/ Reap(p) \/ Timers(p) \/ DisposeProcessRuns(p)
             \/ Start(p) \/ Reads(p) \/ ReadExpires(p) \/ DisposeProcess(p)
             \/ ChildForks(p) \/ ChildExits(p)
             \/ \E sig \in {"SIGTERM", "SIGKILL"} : Terminate(p, sig)
      PROVE  ReaderInv'
  <2>1. ASSUME NEW s \in Streams, Drains(p, s) PROVE ReaderInv'
    <3>1. CASE DrainStarts(p, s) \/ DrainCompletes(p, s)
      <4>1. UNCHANGED <<h, kept, reader, pipe>>
        BY <3>1 DEF DrainStarts, DrainCompletes, processKernel
      <4>2. PICK d : drain' = [drain EXCEPT ![p][s] = d] /\ (d = "got" => pipe[p][s] > 0)
        <5>1. CASE DrainStarts(p, s)
          <6>1. drain' = [drain EXCEPT ![p][s] = "read"]
            BY <5>1 DEF DrainStarts
          <6>2. "read" # "got"
            OBVIOUS
          <6> QED BY <6>1, <6>2
        <5>2. CASE DrainCompletes(p, s)
          <6>1. drain' = [drain EXCEPT ![p][s] = IF pipe[p][s] > 0 THEN "got" ELSE "abort"]
            BY <5>2 DEF DrainCompletes
          <6>2. (IF pipe[p][s] > 0 THEN "got" ELSE "abort") = "got" => pipe[p][s] > 0
            OBVIOUS
          <6> QED BY <6>1, <6>2
        <5> QED BY <3>1, <5>1, <5>2
      <4>3. \A q \in Procs : Full(q)'
        BY <1>1, <4>1, <4>2, FullMoves
      <4> QED BY <4>1, <4>3, ReadersUntouched
    <3>2. CASE DrainTakes(p, s)
      BY <3>2, DrainTakesReads
    <3>3. CASE DrainEnds(p, s)
      BY <3>3, DrainEndsReads
    <3> QED BY <2>1, <3>1, <3>2, <3>3 DEF Drains
  <2>2. ASSUME NEW s \in Streams, ChildWrites(p, s) PROVE ReaderInv'
    <3>1. UNCHANGED <<h, kept, reader>>
      BY <2>2 DEF ChildWrites, processState
    <3>2. \A q \in Procs : Full(q)'
      BY <1>1, <2>2, ChildWritesFills
    <3> QED BY <3>1, <3>2, ReadersUntouched
  <2>3. CASE Reap(p)
    BY <2>3, ReapReads
  <2>4. CASE Timers(p) \/ \E sig \in {"SIGTERM", "SIGKILL"} : Terminate(p, sig)
    BY <2>4, TimerReads
  <2>5. CASE DisposeProcessRuns(p)
    BY <2>5, CloseReads DEF DisposeProcessRuns
  <2>6. CASE Start(p)
    BY <2>6, StartReads
  <2>7. CASE Reads(p)
    <3>1. ProcessConstantsOK /\ ProcessInv /\ ReaderInv
      OBVIOUS
    <3>2. Reads(p)
      BY <2>7
    <3> QED BY <3>1, <3>2, ReadAdvances
  <2>8. CASE ReadExpires(p)
    <3>1. UNCHANGED <<h, kept, drain, pipe>> /\ reader' = [reader EXCEPT ![p].at = "ready"] /\ reader[p].at = "gate"
      BY <2>8 DEF ReadExpires, processKernel
    <3>2. reader' = WokenReader(p, {"read"})
      BY <3>1 DEF WokenReader
    <3>3. reader' \in [Procs -> ReaderRec] /\ \A q \in Procs : StaysThere(reader[q], reader'[q])
      BY <1>1, <3>2, WokenReaderStays
    <3>4. \A q \in Procs : Full(q)'
      BY <1>1, <3>1, FullStays
    <3>5. ASSUME NEW q \in Procs PROVE ReadInv(q)'
      <4>1. Onward(h[q], h'[q]) /\ h'[q] = h[q] /\ kept'[q] = kept[q]
        BY <3>1 DEF Onward
      <4>2. ReadInv(q)
        BY DEF ReaderInv
      <4> QED BY <3>3, <3>4, <4>1, <4>2, Undisturbed
    <3> QED BY <3>3, <3>5 DEF ReaderInv
  <2>9. CASE DisposeProcess(p) \/ ChildForks(p) \/ ChildExits(p)
    BY <1>2, <2>9 DEF DisposeProcess, ChildForks, ChildExits, processState, processKernel
  <2> QED BY <1>4, <2>1, <2>2, <2>3, <2>4, <2>5, <2>6, <2>7, <2>8, <2>9
<1>5. ASSUME NEW c \in Clients,
             \/ \E p \in Procs : ClientCalls(c, p)
             \/ Resumes(c) \/ WriteProceeds(c) \/ WriteFails(c) \/ GateExpires(c)
      PROVE  ReaderInv'
  <2>1. ASSUME NEW p, NEW op, WriteTries(c, p, op) PROVE ReaderInv'
    BY <1>2, <2>1 DEF WriteTries, processKernel
  <2>2. ASSUME NEW p, WaitTries(c, p) \/ WaitForExit(c, p) PROVE ReaderInv'
    BY <1>2, <2>2 DEF WaitTries, WaitForExit, processKernel
  <2>3. ASSUME NEW p \in Procs, CloseBegins(c, p) PROVE ReaderInv'
    BY <2>3, CloseReads DEF CloseBegins
  <2>4. CASE CloseJoins(c)
    BY <2>4, JoinReads
  <2>5. CASE \E p \in Procs : ClientCalls(c, p)
    BY <2>1, <2>2, <2>3, <2>5 DEF ClientCalls
  <2>6. CASE Resumes(c)
    BY <2>1, <2>2, <2>4, <2>6 DEF Resumes
  <2>7. CASE WriteProceeds(c)
    BY <2>7, WriteReads
  <2>8. CASE WriteFails(c) \/ GateExpires(c)
    BY <1>2, <2>8 DEF WriteFails, GateExpires, processKernel
  <2> QED BY <1>5, <2>5, <2>6, <2>7, <2>8
<1> QED BY <1>3, <1>4, <1>5 DEF ProcessNext

(* A process that was never started has nothing to read. *)
LEMMA ReadersStart ==
  ASSUME ProcessInit
  PROVE  ReaderInv
<1> DEFINE r == [at |-> "free", seq |-> 1, off |-> 0, got |-> <<>>, eof |-> FALSE]
<1>1. reader = [p \in Procs |-> r] /\ kept = [p \in Procs |-> <<>>] /\ h = [p \in Procs |-> Fresh]
  BY DEF ProcessInit
<1>2. <<>> \in Seq(Byte) /\ <<>> \in Seq(Ref) /\ Len(<<>>) = 0 /\ DOMAIN <<>> = {}
  OBVIOUS
<1>3. r \in ReaderRec /\ r.seq = 1 /\ r.off = 0 /\ r.got = <<>> /\ r.eof = FALSE
  BY <1>2 DEF ReaderRec
<1> HIDE DEF r
<1>4. Numbered(<<>>) /\ ChunksOK(<<>>)
  BY <1>2 DEF Numbered, ChunksOK
<1>5. Placed(<<>>, 1, 0, <<>>)
  <2>1. Upto(<<>>, 0) = <<>>
    BY <1>2, UptoEnds
  <2>2. Size(<<>>) = 0
    BY SizeEmpty
  <2>3. ASSUME NEW s \in Streams PROVE Count(<<>>, s) = Acc(<<>>, s) + Part(<<>>, 1, 0, s)
    <3>1. Places(<<>>, s, 0) = {}
      BY DEF Places
    <3>2. Count(<<>>, s) = 0
      BY <1>2, <3>1, FS_EmptySet DEF Count
    <3>3. Shares(<<>>, s) = <<>>
      BY DEF Shares
    <3>4. Acc(<<>>, s) = 0
      BY <1>2, <3>3, AccTotal, TotalEmpty
    <3>5. Part(<<>>, 1, 0, s) = 0
      BY DEF Part
    <3> QED BY <3>2, <3>4, <3>5
  <2>4. 1 - 1 = 0 /\ 1 \in 1 .. Len(<<>>) + 1 /\ 1 \notin 1 .. Len(<<>>) /\ 0 \in Nat
    BY <1>2
  <2> QED BY <1>2, <2>1, <2>2, <2>3, <2>4 DEF Placed
<1>6. ASSUME NEW p \in Procs PROVE ReadInv(p)
  <2>1. h[p].status = "Created" /\ kept[p] = <<>> /\ reader[p] = r
    BY <1>1 DEF Fresh
  <2>2. Full(p)
    BY DEF Full, ProcessInit
  <2> QED BY <1>3, <1>4, <1>5, <2>1, <2>2 DEF ReadInv
<1> QED BY <1>1, <1>3, <1>6 DEF ReaderInv

(* A client that follows the cursor that each read returns (collect) gets  *)
(* every retained byte once, in the order of its stream, whatever the      *)
(* drains append between two reads, and eof only after the last of them.   *)
THEOREM ReadersAreExact ==
  ASSUME ProcessConstantsOK
  PROVE  ProcessSpec => []ReaderIsExact
<1> DEFINE I == ProcessInv /\ BudgetInv /\ ReaderInv
<1>1. ProcessInit => I
  BY ProcessStarts, BudgetStarts, ReadersStart
<1>2. I /\ [ProcessNext]_processVars => I'
  BY ProcessNextKeeps, ProcessNextKeepsBudget, ProcessNextKeepsReaders
<1>3. I => ReaderIsExact
  BY DEF ReaderInv, ReadInv, ReaderIsExact, Numbered, Places
<1> QED BY <1>1, <1>2, <1>3, PTL DEF ProcessSpec

-----------------------------------------------------------------------------
-----------------------------------------------------------------------------
(* The chunks of a terminal.                                               *)

(* A byte is its offset. *)
Chunk == [from : Nat, data : Seq(Nat)]
Lengths(ch) == [i \in DOMAIN ch |-> Len(ch[i].data)]

(* A chunk begins and ends at a number. *)
LEMMA ChunkKnown ==
  ASSUME NEW c \in Chunk
  PROVE  /\ c.from \in Nat /\ c.data \in Seq(Nat) /\ Len(c.data) \in Nat
         /\ End(c) = c.from + Len(c.data) /\ End(c) \in Nat
BY DEF Chunk, End

(* The lengths are numbers, one for each chunk. *)
LEMMA LengthsKnown ==
  ASSUME NEW ch \in Seq(Chunk)
  PROVE  Lengths(ch) \in Seq(Nat) /\ DOMAIN Lengths(ch) = DOMAIN ch /\ Len(Lengths(ch)) = Len(ch)
<1>1. \A i \in 1 .. Len(ch) : Len(ch[i].data) \in Nat
  BY DEF Chunk
<1>2. Lengths(ch) \in [1 .. Len(ch) -> Nat]
  BY <1>1 DEF Lengths
<1>3. QED
  BY <1>2

(* Held is a total. *)
LEMMA HeldTotal ==
  ASSUME NEW ch \in Seq(Chunk)
  PROVE  Held(ch) = Total(Lengths(ch))
<1> DEFINE S == DOMAIN ch
           w == Lengths(ch)
           it == CHOOSE f : f = [s \in SUBSET S |-> IF s = {} THEN 0
                                  ELSE Len(ch[Chosen(s)].data) + f[s \ {Chosen(s)}]]
<1>1. Held(ch) = it[S]
  BY DEF Held, FoldSeq, FoldFunction, FoldFunctionOnSet, MapThenFoldSet, Chosen
<1>2. (\A x \in S : w[x] \in Nat) /\ IsFiniteSet(S) /\ DOMAIN w = S
  <2>1. IsFiniteSet(1 .. Len(ch)) /\ S = 1 .. Len(ch)
    BY FS_Interval
  <2>2. QED
    BY <2>1, LengthsKnown
<1>3. \A s \in SUBSET S : s # {} => w[Chosen(s)] = Len(ch[Chosen(s)].data)
  BY DEF Chosen, Lengths
<1>4. PICK g : SumsUp(g, w, S)
  <2> HIDE DEF w, S
  <2>1. QED
    BY <1>2, FoldExists
<1> HIDE DEF w, S
<1>5. g = [s \in SUBSET S |-> IF s = {} THEN 0 ELSE Len(ch[Chosen(s)].data) + g[s \ {Chosen(s)}]]
  BY <1>3, <1>4 DEF SumsUp
<1>6. it = [s \in SUBSET S |-> IF s = {} THEN 0 ELSE Len(ch[Chosen(s)].data) + it[s \ {Chosen(s)}]]
  BY <1>5
<1> HIDE DEF it
<1>7. SumsUp(it, w, S)
  BY <1>3, <1>6 DEF SumsUp
<1>8. it[S] = Cardinality(Units(w, S))
  BY <1>2, <1>7, FoldCounts
<1>9. QED
  BY <1>1, <1>2, <1>8 DEF Total, w

(* Held of one chunk more. *)
LEMMA HeldAppend ==
  ASSUME NEW ch \in Seq(Chunk), NEW c \in Chunk
  PROVE  Held(Append(ch, c)) = Held(ch) + Len(c.data) /\ Held(ch) \in Nat
<1>1. Append(ch, c) \in Seq(Chunk)
  OBVIOUS
<1>2. Lengths(Append(ch, c)) = Append(Lengths(ch), Len(c.data))
  BY <1>1 DEF Lengths, Chunk
<1>3. Len(c.data) \in Nat
  BY DEF Chunk
<1>4. Lengths(ch) \in Seq(Nat) /\ Held(ch) = Total(Lengths(ch)) /\ Held(Append(ch, c)) = Total(Lengths(Append(ch, c)))
  BY <1>1, HeldTotal, LengthsKnown
<1>5. Total(Append(Lengths(ch), Len(c.data))) = Total(Lengths(ch)) + Len(c.data) /\ Total(Lengths(ch)) \in Nat
  BY <1>3, <1>4, TotalAppend, TotalNat
<1>6. QED
  BY <1>2, <1>4, <1>5

(* Held of two buffers, one after the other. *)
LEMMA HeldConcat ==
  ASSUME NEW ch \in Seq(Chunk), NEW rest \in Seq(Chunk)
  PROVE  Held(ch \o rest) = Held(ch) + Held(rest)
<1>1. ch \o rest \in Seq(Chunk)
  OBVIOUS
<1>2. Lengths(ch \o rest) = Lengths(ch) \o Lengths(rest)
  <2> DEFINE a == Lengths(ch \o rest)
             b == Lengths(ch) \o Lengths(rest)
  <2>1. /\ Lengths(ch) \in Seq(Nat) /\ Len(Lengths(ch)) = Len(ch)
        /\ Lengths(rest) \in Seq(Nat) /\ Len(Lengths(rest)) = Len(rest)
        /\ a \in Seq(Nat) /\ Len(a) = Len(ch \o rest)
    BY <1>1, LengthsKnown
  <2>2. /\ b \in Seq(Nat) /\ Len(b) = Len(ch) + Len(rest)
        /\ \A i \in 1 .. Len(ch) + Len(rest) :
             b[i] = IF i <= Len(ch) THEN Lengths(ch)[i] ELSE Lengths(rest)[i - Len(ch)]
    BY <2>1, ConcatProperties
  <2> HIDE DEF b
  <2>3. /\ Len(ch \o rest) = Len(ch) + Len(rest) /\ Len(ch) \in Nat /\ Len(rest) \in Nat
        /\ \A i \in 1 .. Len(ch) + Len(rest) :
             (ch \o rest)[i] = IF i <= Len(ch) THEN ch[i] ELSE rest[i - Len(ch)]
    BY ConcatProperties
  <2>4. ASSUME NEW i \in 1 .. Len(ch) + Len(rest) PROVE a[i] = b[i]
    <3>1. a[i] = Len((ch \o rest)[i].data)
      BY <1>1, <2>3 DEF Lengths
    <3>2. CASE i <= Len(ch)
      <4>1. i \in DOMAIN ch
        BY <2>3, <3>2
      <4>2. (ch \o rest)[i] = ch[i] /\ b[i] = Lengths(ch)[i]
        BY <2>2, <2>3, <3>2
      <4>3. QED
        BY <3>1, <4>1, <4>2 DEF Lengths
    <3>3. CASE ~ (i <= Len(ch))
      <4>1. i - Len(ch) \in DOMAIN rest /\ (ch \o rest)[i] = rest[i - Len(ch)] /\ b[i] = Lengths(rest)[i - Len(ch)]
        BY <2>2, <2>3, <3>3
      <4>2. QED
        BY <3>1, <4>1 DEF Lengths
    <3>4. QED
      BY <3>2, <3>3
  <2> HIDE DEF a
  <2>5. a = b
    <3>1. Len(a) = Len(b) /\ \A i \in 1 .. Len(a) : a[i] = b[i]
      BY <2>1, <2>2, <2>3, <2>4
    <3>2. QED
      BY <2>1, <2>2, <3>1, SeqEqual
  <2>6. QED
    BY <2>5 DEF a, b
<1>3. QED
  BY <1>1, <1>2, HeldTotal, LengthsKnown, TotalConcat

LEMMA HeldEmpty == Held(<<>>) = 0
<1>1. <<>> \in Seq(Chunk) /\ Lengths(<<>>) = <<>>
  BY DEF Lengths
<1>2. QED
  BY <1>1, HeldTotal, TotalEmpty

(* Held of one chunk. *)
LEMMA HeldOne ==
  ASSUME NEW c \in Chunk
  PROVE  Held(<<c>>) = Len(c.data)
<1>1. <<>> \in Seq(Chunk) /\ <<c>> = Append(<<>>, c)
  OBVIOUS
<1>2. Len(c.data) \in Nat
  BY DEF Chunk
<1>3. Held(Append(<<>>, c)) = Held(<<>>) + Len(c.data)
  BY <1>1, HeldAppend
<1>4. QED
  BY <1>1, <1>2, <1>3, HeldEmpty
-----------------------------------------------------------------------------
(* What is kept: chunks in the order of their offsets, each byte its own.  *)

Piece(c) == c.data # <<>> /\ \A i \in 1 .. Len(c.data) : c.data[i] = c.from + i - 1
Ordered(ch, top) ==
  /\ ch \in Seq(Chunk)
  /\ \A k \in 1 .. Len(ch) : Piece(ch[k]) /\ End(ch[k]) <= top
  /\ \A j, k \in 1 .. Len(ch) : j < k => End(ch[j]) <= ch[k].from

(* The last elements of a sequence. *)
LEMMA LatestKnown ==
  ASSUME NEW S, NEW s \in Seq(S), NEW k \in 0 .. Len(s)
  PROVE  /\ Latest(s, k) \in Seq(S) /\ Len(Latest(s, k)) = k
         /\ \A i \in 1 .. k : Latest(s, k)[i] = s[Len(s) - k + i]
<1> DEFINE m == Len(s) - k + 1
           n == Len(s)
<1>1. m \in Int /\ n \in Int /\ (\A i \in m .. n : s[i] \in S) /\ n - m + 1 = k
  OBVIOUS
<1>2. Latest(s, k) = SubSeq(s, m, n)
  BY DEF Latest
<1>3. \A i \in 1 .. k : m + i - 1 = Len(s) - k + i
  OBVIOUS
<1>4. k = 0 \/ m <= n
  OBVIOUS
<1> HIDE DEF m, n
<1>5. /\ SubSeq(s, m, n) \in Seq(S) /\ Len(SubSeq(s, m, n)) = IF m <= n THEN n - m + 1 ELSE 0
      /\ \A i \in 1 .. n - m + 1 : SubSeq(s, m, n)[i] = s[m + i - 1]
  BY <1>1, SubSeqProperties
<1>6. Len(SubSeq(s, m, n)) = k
  BY <1>1, <1>4, <1>5
<1>7. QED
  BY <1>1, <1>2, <1>3, <1>5, <1>6

(* What is left of a piece when bytes are cut off at its front is a piece. *)
LEMMA CutPiece ==
  ASSUME NEW c \in Chunk, Piece(c), NEW take \in 0 .. Len(c.data) - 1
  PROVE  LET d == [from |-> c.from + take, data |-> Latest(c.data, Len(c.data) - take)] IN
         /\ d \in Chunk /\ Piece(d) /\ End(d) = End(c) /\ d.from >= c.from
         /\ Len(d.data) = Len(c.data) - take
<1> DEFINE k == Len(c.data) - take
           l == Latest(c.data, k)
<1>1. c.from \in Nat /\ c.data \in Seq(Nat) /\ Len(c.data) \in Nat /\ k \in 0 .. Len(c.data) /\ k > 0
  BY DEF Chunk
<1>2. /\ l \in Seq(Nat) /\ Len(l) = k /\ \A i \in 1 .. k : l[i] = c.data[Len(c.data) - k + i]
  <2> HIDE DEF k
  <2>1. QED
    BY <1>1, LatestKnown
<1>3. \A i \in 1 .. k : Len(c.data) - k + i \in 1 .. Len(c.data) /\ Len(c.data) - k + i = take + i
  BY <1>1
<1> HIDE DEF l
<1>4. ASSUME NEW i \in 1 .. k PROVE l[i] = (c.from + take) + i - 1
  <2>1. take + i \in 1 .. Len(c.data) /\ l[i] = c.data[take + i]
    BY <1>2, <1>3
  <2>2. c.data[take + i] = c.from + (take + i) - 1
    BY <2>1 DEF Piece
  <2>3. c.from \in Int /\ take \in Int /\ i \in Int
    BY <1>1
  <2>4. c.from + (take + i) - 1 = (c.from + take) + i - 1
    BY <2>3
  <2>5. QED
    BY <2>1, <2>2, <2>4
<1>5. l # <<>>
  BY <1>1, <1>2
<1>6. [from |-> c.from + take, data |-> l] \in Chunk
  BY <1>1, <1>2 DEF Chunk
<1>7. Piece([from |-> c.from + take, data |-> l])
  BY <1>2, <1>4, <1>5 DEF Piece
<1>8. End([from |-> c.from + take, data |-> l]) = End(c)
  BY <1>1, <1>2 DEF End
<1>9. QED
  BY <1>1, <1>2, <1>6, <1>7, <1>8 DEF l

(* The front and the rest of the chunks. *)
LEMMA PartsKnown ==
  ASSUME NEW ch \in Seq(Chunk), NEW k \in 1 .. Len(ch)
  PROVE  LET rest == SubSeq(ch, k + 1, Len(ch)) IN
         /\ Held(SubSeq(ch, 1, k)) = Held(SubSeq(ch, 1, k - 1)) + Len(ch[k].data)
         /\ Held(SubSeq(ch, 1, k - 1)) \in Nat /\ Held(rest) \in Nat
         /\ Held(ch) = Held(SubSeq(ch, 1, k)) + Held(rest)
         /\ rest \in Seq(Chunk) /\ Len(rest) = Len(ch) - k
         /\ \A i \in 1 .. Len(ch) - k : rest[i] = ch[k + i]
<1> DEFINE a == SubSeq(ch, 1, k - 1)
           b == SubSeq(ch, 1, k)
           rest == SubSeq(ch, k + 1, Len(ch))
<1>1. Len(ch) \in Nat /\ k \in Nat /\ (\A i \in 1 .. Len(ch) : ch[i] \in Chunk)
  OBVIOUS
<1>2. /\ a \in Seq(Chunk) /\ b \in Seq(Chunk)
  BY <1>1, SubSeqProperties
<1>3. /\ rest \in Seq(Chunk) /\ Len(rest) = Len(ch) - k
      /\ \A i \in 1 .. Len(ch) - k : rest[i] = ch[k + i]
  <2>1. /\ rest \in Seq(Chunk)
        /\ Len(rest) = IF k + 1 <= Len(ch) THEN Len(ch) - (k + 1) + 1 ELSE 0
        /\ \A i \in 1 .. Len(ch) - (k + 1) + 1 : rest[i] = ch[(k + 1) + i - 1]
    <3>1. k + 1 \in Int /\ Len(ch) \in Int /\ \A i \in k + 1 .. Len(ch) : ch[i] \in Chunk
      BY <1>1
    <3>2. QED
      BY <3>1, SubSeqProperties
  <2> HIDE DEF rest
  <2>2. QED
    BY <1>1, <2>1
<1>4. b = a \o <<ch[k]>>
  <2>1. 1 \in 1 .. Len(ch) /\ k \in 1 .. Len(ch)
    BY <1>1
  <2>2. QED
    BY <2>1, SubSeqRecursiveSecond
<1>5. ch = b \o rest
  <2>1. 1 \in 1 .. Len(ch) + 1 /\ k \in 1 - 1 .. Len(ch) /\ Len(ch) \in k .. Len(ch)
    BY <1>1
  <2>2. b \o rest = SubSeq(ch, 1, Len(ch))
    BY <2>1, ConcatAdjacentSubSeq
  <2>3. QED
    BY <2>2, SubSeqFull
<1> HIDE DEF a, b, rest
<1>6. ch[k] \in Chunk /\ <<ch[k]>> \in Seq(Chunk) /\ Held(<<ch[k]>>) = Len(ch[k].data)
  BY <1>1, HeldOne
<1>7. Held(b) = Held(a) + Len(ch[k].data)
  BY <1>2, <1>4, <1>6, HeldConcat
<1>8. Held(ch) = Held(b) + Held(rest)
  BY <1>2, <1>3, <1>5, HeldConcat
<1>9. Held(a) \in Nat /\ Held(rest) \in Nat
  BY <1>2, <1>3, <1>6, HeldAppend
<1>10. QED
  BY <1>3, <1>7, <1>8, <1>9 DEF a, b, rest

(* State::evict drops exactly what it is asked to. *)
LEMMA EvictKnown ==
  ASSUME NEW ch, NEW top \in Nat, Ordered(ch, top), NEW n \in Nat, n <= Held(ch)
  PROVE  Ordered(Evict(ch, n), top) /\ Held(Evict(ch, n)) = Held(ch) - n
<1> DEFINE First(k) == Held(SubSeq(ch, 1, k))
           stay == {k \in DOMAIN ch : First(k) > n}
           front == Min(stay)
           take == n - First(front - 1)
           c == ch[front]
           d == [from |-> c.from + take, data |-> Latest(c.data, Len(c.data) - take)]
           rest == SubSeq(ch, front + 1, Len(ch))
<1>1. ch \in Seq(Chunk) /\ Len(ch) \in Nat /\ DOMAIN ch = 1 .. Len(ch)
  BY DEF Ordered
<1>2. Evict(ch, n) = IF stay = {} THEN <<>> ELSE <<d>> \o rest
  BY DEF Evict
<1>3. CASE stay = {}
  <2>1. Held(ch) = n
    <3>1. CASE ch = <<>>
      BY <3>1, HeldEmpty
    <3>2. CASE ch # <<>>
      <4>1. Len(ch) \in DOMAIN ch
        BY <1>1, <3>2
      <4>2. SubSeq(ch, 1, Len(ch)) = ch
        BY <1>1, SubSeqFull
      <4>3. Held(ch) \in Nat /\ ~ (Held(ch) > n)
        <5>1. ~ (First(Len(ch)) > n)
          BY <1>3, <4>1
        <5>2. Held(ch) \in Nat
          BY <1>1, HeldTotal, LengthsKnown, TotalNat
        <5>3. QED
          BY <4>2, <5>1, <5>2
      <4>4. QED
        BY <4>3
    <3>3. QED
      BY <3>1, <3>2
  <2>2. Ordered(<<>>, top)
    BY DEF Ordered
  <2>3. QED
    BY <1>2, <1>3, <2>1, <2>2, HeldEmpty
<1>4. CASE stay # {}
  <2>1. front \in stay /\ \A k \in stay : front <= k
    <3>1. stay \subseteq Nat
      BY <1>1
    <3> HIDE DEF stay
    <3>2. PICK m \in stay : \A k \in stay : m <= k
      BY <1>4, <3>1, LeastNumber
    <3>3. QED
      BY <3>2 DEF Min
  <2>2. front \in 1 .. Len(ch) /\ First(front) > n
    BY <1>1, <2>1
  <2> HIDE DEF front
  <2>3. First(front - 1) <= n
    <3>1. CASE front = 1
      <4>1. front - 1 = 0 /\ SubSeq(ch, 1, 0) = <<>>
        BY <3>1, SubSeqEmpty
      <4>2. First(0) = 0
        BY <4>1, HeldEmpty
      <4> HIDE DEF First
      <4>3. QED
        BY <4>1, <4>2
    <3>2. CASE front # 1
      <4>1. front - 1 \in DOMAIN ch /\ ~ (front <= front - 1)
        BY <1>1, <2>2, <3>2
      <4>2. front - 1 \notin stay
        BY <2>1, <4>1
      <4>3. First(front - 1) \in Nat
        BY <1>1, <2>2, PartsKnown
      <4>4. QED
        BY <4>1, <4>2, <4>3
    <3>3. QED
      BY <3>1, <3>2
  <2>4. /\ First(front) = First(front - 1) + Len(c.data)
        /\ First(front - 1) \in Nat /\ Held(rest) \in Nat
        /\ Held(ch) = First(front) + Held(rest)
        /\ rest \in Seq(Chunk) /\ Len(rest) = Len(ch) - front
        /\ \A i \in 1 .. Len(ch) - front : rest[i] = ch[front + i]
    BY <1>1, <2>2, PartsKnown
  <2>5. c \in Chunk /\ Piece(c) /\ Len(c.data) \in Nat /\ End(c) <= top
    <3>1. c \in Chunk /\ Piece(c) /\ End(c) <= top
      BY <1>1, <2>2 DEF Ordered
    <3>2. QED
      BY <3>1 DEF Chunk
  <2> HIDE DEF First, rest, c
  <2>6. take \in 0 .. Len(c.data) - 1
    <3>1. n \in Nat /\ First(front) \in Nat /\ First(front - 1) \in Nat
      BY <2>4, <2>5
    <3>2. First(front) > n /\ First(front - 1) <= n /\ First(front) = First(front - 1) + Len(c.data)
      BY <2>2, <2>3, <2>4
    <3>3. n - First(front - 1) \in 0 .. Len(c.data) - 1
      BY <2>5, <3>1, <3>2
    <3> QED BY <3>3
  <2> HIDE DEF take
  <2>7. /\ d \in Chunk /\ Piece(d) /\ End(d) = End(c) /\ d.from >= c.from
        /\ Len(d.data) = Len(c.data) - take
    BY <2>5, <2>6, CutPiece
  <2> HIDE DEF d
  <2>8. Held(<<d>> \o rest) = Len(c.data) - take + Held(rest)
    <3>1. <<d>> \in Seq(Chunk) /\ Held(<<d>>) = Len(d.data)
      BY <2>7, HeldOne
    <3>2. QED
      BY <2>4, <2>7, <3>1, HeldConcat
  <2>9. Held(<<d>> \o rest) = Held(ch) - n
    <3>1. take = n - First(front - 1)
      BY DEF take
    <3>2. QED
      BY <2>4, <2>5, <2>8, <3>1
  <2> DEFINE all == <<d>> \o rest
  <2>10. /\ all \in Seq(Chunk) /\ Len(all) = 1 + (Len(ch) - front) /\ all[1] = d
         /\ \A i \in 1 .. Len(ch) - front : all[1 + i] = ch[front + i]
    <3>1. <<d>> \in Seq(Chunk) /\ Len(<<d>>) = 1 /\ <<d>>[1] = d
      BY <2>7
    <3>2. /\ all \in Seq(Chunk) /\ Len(all) = 1 + Len(rest)
          /\ \A i \in 1 .. 1 + Len(rest) : all[i] = IF i <= 1 THEN <<d>>[i] ELSE rest[i - 1]
      <4> DEFINE e == <<d>>
      <4> HIDE DEF e
      <4>1. e \in Seq(Chunk) /\ Len(e) = 1
        BY <3>1 DEF e
      <4>2. /\ e \o rest \in Seq(Chunk) /\ Len(e \o rest) = Len(e) + Len(rest)
            /\ \A i \in 1 .. Len(e) + Len(rest) : (e \o rest)[i] = IF i <= Len(e) THEN e[i] ELSE rest[i - Len(e)]
        <5>1. rest \in Seq(Chunk)
          BY <2>4
        <5>2. QED
          BY <4>1, <5>1, ConcatProperties
      <4>3. QED
        BY <4>1, <4>2 DEF e
    <3> DEFINE e == <<d>>
    <3> HIDE DEF all, e
    <3>3. Len(all) = 1 + (Len(ch) - front) /\ all[1] = e[1]
      <4>1. Len(rest) \in Nat /\ Len(rest) = Len(ch) - front
        BY <2>4
      <4>2. 1 \in 1 .. 1 + Len(rest)
        BY <4>1
      <4>3. all[1] = e[1]
        BY <3>2, <4>2 DEF e
      <4>4. QED
        BY <3>2, <4>1, <4>3
    <3>4. ASSUME NEW i \in 1 .. Len(ch) - front PROVE all[1 + i] = ch[front + i]
      <4>1. 1 + i \in 1 .. 1 + Len(rest) /\ ~ (1 + i <= 1) /\ (1 + i) - 1 = i
        BY <1>1, <2>2, <2>4
      <4>2. all[1 + i] = rest[i]
        BY <3>2, <4>1
      <4>3. QED
        BY <2>4, <4>2
    <3>5. QED
      BY <3>1, <3>2, <3>3, <3>4 DEF e
  <2> HIDE DEF all
  <2>11. ASSUME NEW k \in 1 .. Len(all)
         PROVE  /\ Piece(all[k]) /\ End(all[k]) <= top
                /\ \E j \in 1 .. Len(ch) : /\ j = front + k - 1 /\ End(all[k]) = End(ch[j])
                                           /\ all[k].from >= ch[j].from
    <3>1. CASE k = 1
      <4>1. all[k] = d /\ front + k - 1 = front /\ ch[front] = c
        BY <2>2, <2>10, <3>1 DEF c
      <4>2. QED
        BY <2>2, <2>5, <2>7, <4>1
    <3>2. CASE k # 1
      <4>1. PICK i \in 1 .. Len(ch) - front : k = 1 + i
        <5>1. k - 1 \in 1 .. Len(ch) - front /\ k = 1 + (k - 1)
          BY <1>1, <2>2, <2>10, <3>2
        <5>2. QED
          BY <5>1
      <4>2. all[k] = ch[front + i] /\ front + i \in 1 .. Len(ch) /\ front + i = front + k - 1
        BY <1>1, <2>2, <2>10, <4>1
      <4>3. ch[front + i] \in Chunk /\ ch[front + i].from >= ch[front + i].from
        <5>1. ch[front + i] \in Chunk
          BY <1>1, <4>2
        <5>2. ch[front + i].from \in Nat
          BY <5>1, ChunkKnown
        <5>3. QED
          BY <5>1, <5>2
      <4>4. QED
        BY <4>2, <4>3 DEF Ordered
    <3>3. QED
      BY <3>1, <3>2
  <2>12. ASSUME NEW i \in 1 .. Len(all), NEW k \in 1 .. Len(all), i < k
         PROVE  End(all[i]) <= all[k].from
    <3>1. PICK j \in 1 .. Len(ch) : j = front + i - 1 /\ End(all[i]) = End(ch[j])
      BY <2>11
    <3>2. PICK l \in 1 .. Len(ch) : l = front + k - 1 /\ all[k].from >= ch[l].from
      BY <2>11
    <3>3. j < l
      BY <2>2, <2>12, <3>1, <3>2
    <3>4. End(ch[j]) <= ch[l].from
      BY <3>3 DEF Ordered
    <3>5. End(ch[j]) \in Nat /\ ch[l].from \in Nat /\ all[k].from \in Nat
      <4>1. ch[j] \in Chunk /\ ch[l] \in Chunk /\ all[k] \in Chunk
        BY <1>1, <2>10
      <4>2. QED
        BY <4>1, ChunkKnown
    <3>6. End(ch[j]) <= all[k].from
      <4>1. ASSUME NEW a \in Nat, NEW b \in Nat, NEW e \in Nat, a <= b, e >= b
            PROVE  a <= e
        BY <4>1
      <4>2. all[k].from >= ch[l].from
        BY <3>2
      <4>3. QED
        BY <3>4, <3>5, <4>1, <4>2
    <3>7. QED
      BY <3>1, <3>6
  <2>13. Ordered(all, top)
    BY <2>10, <2>11, <2>12 DEF Ordered
  <2>14. Evict(ch, n) = all
    <3> HIDE DEF stay
    <3>1. QED
      BY <1>2, <1>4 DEF all
  <2>15. Held(all) = Held(ch) - n
    BY <2>9 DEF all
  <2>16. QED
    BY <2>13, <2>14, <2>15
<1>5. QED
  BY <1>3, <1>4

(* Held is a number. *)
LEMMA HeldNat ==
  ASSUME NEW ch \in Seq(Chunk)
  PROVE  Held(ch) \in Nat
BY HeldTotal, LengthsKnown, TotalNat

(* A chunk whose bytes come after those that are kept. *)
LEMMA OrderedGrows ==
  ASSUME NEW ch, NEW top \in Nat, Ordered(ch, top), NEW c \in Chunk, Piece(c),
         top <= c.from
  PROVE  Ordered(Append(ch, c), End(c))
<1> DEFINE all == Append(ch, c)
<1>1. ch \in Seq(Chunk) /\ Len(ch) \in Nat
  BY DEF Ordered
<1>2. /\ all \in Seq(Chunk) /\ Len(all) = Len(ch) + 1 /\ all[Len(ch) + 1] = c
      /\ \A k \in 1 .. Len(ch) : all[k] = ch[k]
  BY <1>1, AppendProperties
<1> HIDE DEF all
<1>3. c.from \in Nat /\ End(c) \in Nat /\ c.from <= End(c)
  BY ChunkKnown
<1>4. ASSUME NEW k \in 1 .. Len(ch)
      PROVE  Piece(all[k]) /\ End(all[k]) <= c.from /\ End(all[k]) <= End(c)
  <2>1. ch[k] \in Chunk /\ Piece(ch[k]) /\ End(ch[k]) <= top
    BY <1>1 DEF Ordered
  <2>2. End(ch[k]) \in Nat
    BY <2>1, ChunkKnown
  <2>3. QED
    BY <1>2, <1>3, <2>1, <2>2
<1>5. ASSUME NEW k \in 1 .. Len(all) PROVE Piece(all[k]) /\ End(all[k]) <= End(c)
  <2>1. CASE k \in 1 .. Len(ch)
    BY <1>4, <2>1
  <2>2. CASE k \notin 1 .. Len(ch)
    <3>1. k = Len(ch) + 1
      BY <1>1, <1>2, <2>2
    <3>2. QED
      BY <1>2, <1>3, <3>1
  <2>3. QED
    BY <2>1, <2>2
<1>6. ASSUME NEW j \in 1 .. Len(all), NEW k \in 1 .. Len(all), j < k
      PROVE  End(all[j]) <= all[k].from
  <2>1. j \in 1 .. Len(ch)
    BY <1>1, <1>2, <1>6
  <2>2. CASE k \in 1 .. Len(ch)
    BY <1>2, <1>6, <2>1, <2>2 DEF Ordered
  <2>3. CASE k \notin 1 .. Len(ch)
    <3>1. k = Len(ch) + 1
      BY <1>1, <1>2, <2>3
    <3>2. QED
      BY <1>2, <1>4, <2>1, <3>1
  <2>4. QED
    BY <2>2, <2>3
<1>7. QED
  BY <1>2, <1>5, <1>6 DEF Ordered, all

(* Output that is dropped leaves the buffer in order. *)
LEMMA OrderedRises ==
  ASSUME NEW ch, NEW top \in Nat, Ordered(ch, top), NEW more \in Nat, top <= more
  PROVE  Ordered(ch, more)
<1>1. \A k \in 1 .. Len(ch) : ch[k] \in Chunk /\ End(ch[k]) <= top
  BY DEF Ordered
<1>2. \A k \in 1 .. Len(ch) : End(ch[k]) <= more
  BY <1>1, ChunkKnown
<1>3. QED
  BY <1>2 DEF Ordered

(* What the read loop leaves of the buffer. *)
LEMMA KeepKnown ==
  ASSUME NEW n \in Nat \ {0}, NEW room \in Nat, Keep(n, room),
         Buffer \in Nat, produced \in Nat, Ordered(chunks, produced),
         charged = Held(chunks), charged <= Buffer
  PROVE  /\ produced' = produced + n
         /\ Ordered(chunks', produced')
         /\ charged' = Held(chunks') /\ charged' <= Buffer
<1> DEFINE size == Least(n, Buffer)
           take == Least(size, room)
           bytes == [k \in 1 .. n |-> produced + k - 1]
           over == Held(chunks) + size - Buffer
           trimmed == MakeRoom(size)
           more == [from |-> produced' - take, data |-> Latest(bytes, take)]
<1>1. /\ produced' = produced + n
      /\ chunks' = IF take = 0 THEN trimmed ELSE Append(trimmed, more)
      /\ charged' = charged - (Held(chunks) - Held(trimmed)) + take
  BY DEF Keep
<1>2. size \in Nat /\ size <= n /\ size <= Buffer /\ take \in Nat /\ take <= size /\ take <= n
  BY DEF Least
<1>3. chunks \in Seq(Chunk) /\ Held(chunks) \in Nat
  BY HeldNat DEF Ordered
<1> HIDE DEF size, take
<1>4. Ordered(trimmed, produced) /\ Held(trimmed) \in Nat /\ Held(trimmed) <= Held(chunks) /\ Held(trimmed) + size <= Buffer
  <2>1. CASE over > 0
    <3>1. trimmed = Evict(chunks, over)
      BY <2>1 DEF MakeRoom
    <3>2. over \in Nat /\ over <= Held(chunks)
      BY <1>2, <1>3, <2>1
    <3> HIDE DEF over
    <3>3. Ordered(Evict(chunks, over), produced) /\ Held(Evict(chunks, over)) = Held(chunks) - over
      BY <3>2, EvictKnown
    <3>4. QED
      BY <1>2, <1>3, <3>1, <3>2, <3>3 DEF over
  <2>2. CASE ~ (over > 0)
    <3>1. trimmed = chunks
      BY <2>2 DEF MakeRoom
    <3>2. QED
      BY <1>2, <1>3, <2>2, <3>1
  <2>3. QED
    BY <2>1, <2>2
<1>5. trimmed \in Seq(Chunk)
  BY <1>4 DEF Ordered
<1> HIDE DEF trimmed, over
<1>6. CASE take = 0
  <2>1. chunks' = trimmed
    BY <1>1, <1>6
  <2>2. Ordered(trimmed, produced + n)
    BY <1>4, OrderedRises
  <2>3. charged' = Held(trimmed)
    BY <1>1, <1>3, <1>4, <1>6
  <2>4. Ordered(chunks', produced') /\ charged' = Held(chunks')
    BY <1>1, <2>1, <2>2, <2>3
  <2>5. Held(trimmed) <= Buffer
    BY <1>2, <1>4
  <2>6. QED
    BY <1>1, <2>3, <2>4, <2>5
<1>7. CASE take # 0
  <2>1. bytes \in Seq(Nat) /\ Len(bytes) = n
    <3>1. \A k \in 1 .. n : produced + k - 1 \in Nat
      OBVIOUS
    <3>2. bytes \in [1 .. n -> Nat]
      BY <3>1
    <3>3. QED
      BY <3>2
  <2>2. \A i \in 1 .. n : bytes[i] = produced + i - 1
    OBVIOUS
  <2> HIDE DEF bytes
  <2>3. /\ Latest(bytes, take) \in Seq(Nat) /\ Len(Latest(bytes, take)) = take
        /\ \A i \in 1 .. take : Latest(bytes, take)[i] = bytes[n - take + i]
    <3>1. take \in 0 .. Len(bytes)
      BY <1>2, <2>1
    <3>2. QED
      BY <2>1, <3>1, LatestKnown
  <2>4. more.from = produced + n - take /\ more.data = Latest(bytes, take)
    <3>1. more.from = produced' - take
      OBVIOUS
    <3>2. more.data = Latest(bytes, take)
      OBVIOUS
    <3> HIDE DEF more
    <3>3. produced' = produced + n
      BY <1>1
    <3>4. QED
      BY <1>2, <3>1, <3>2, <3>3
  <2>5. more \in Chunk /\ Len(more.data) = take /\ more.from >= produced
    <3>1. produced + n - take \in Nat /\ produced + n - take >= produced
      BY <1>2
    <3>2. QED
      BY <1>1, <2>3, <3>1 DEF Chunk
  <2>6. ASSUME NEW i \in 1 .. take
        PROVE  more.data[i] = more.from + i - 1
    <3>1. n - take + i \in 1 .. n
      BY <1>2
    <3>2. bytes[n - take + i] = produced + (n - take + i) - 1
      BY <2>2, <3>1
    <3>3. QED
      BY <1>2, <2>3, <2>4, <3>2
  <2>7. Piece(more)
    <3>1. more.data # <<>>
      BY <1>2, <1>7, <2>3, <2>4
    <3>2. QED
      BY <2>5, <2>6, <3>1 DEF Piece
  <2>8. End(more) = produced + n
    BY <1>2, <2>4, <2>5 DEF End
  <2> HIDE DEF more
  <2>9. Ordered(Append(trimmed, more), produced + n)
    BY <1>4, <2>5, <2>7, <2>8, OrderedGrows
  <2>10. Held(Append(trimmed, more)) = Held(trimmed) + take
    BY <1>5, <2>5, HeldAppend
  <2>11. chunks' = Append(trimmed, more)
    BY <1>1, <1>7 DEF more
  <2>12. charged' = Held(trimmed) + take
    BY <1>1, <1>2, <1>3, <1>4
  <2>13. QED
    BY <1>1, <1>2, <1>4, <2>9, <2>10, <2>11, <2>12
<1>8. QED
  BY <1>6, <1>7

(* The byte x lies in a chunk that ends beyond o, as the byte it is. *)
Carried(x, o) ==
  \E k \in 1 .. Len(chunks) :
     /\ End(chunks[k]) > o
     /\ x \in chunks[k].from .. End(chunks[k]) - 1
     /\ chunks[k].data[x - chunks[k].from + 1] = x

(* How far a read that starts at from and has come to t gets with chunk c. *)
Through(t, c, from) == IF c.from <= t /\ t < End(c) THEN Least(End(c), from + MaxRead) ELSE t

(* The chunks of a buffer are not empty, and are below its top. *)
LEMMA OrderedKnown ==
  ASSUME NEW ch, NEW top \in Nat, Ordered(ch, top), NEW k \in 1 .. Len(ch)
  PROVE  /\ ch[k] \in Chunk /\ Piece(ch[k]) /\ ch[k].from \in Nat /\ End(ch[k]) \in Nat
         /\ ch[k].from < End(ch[k]) /\ End(ch[k]) <= top
<1>1. ch[k] \in Chunk /\ Piece(ch[k]) /\ End(ch[k]) <= top
  BY DEF Ordered
<1>2. ch[k].from \in Nat /\ End(ch[k]) \in Nat /\ End(ch[k]) = ch[k].from + Len(ch[k].data)
      /\ ch[k].data \in Seq(Nat)
  BY <1>1, ChunkKnown
<1>3. Len(ch[k].data) > 0
  BY <1>1, <1>2 DEF Piece
<1>4. QED
  BY <1>1, <1>2, <1>3

(* One chunk takes the walk further, by bytes that are its own. *)
LEMMA ThroughKnown ==
  ASSUME Ordered(chunks, produced), produced \in Nat, MaxRead \in Nat \ {0},
         NEW k \in 1 .. Len(chunks), NEW o \in Nat, NEW from \in Nat, o <= from,
         NEW t \in Nat, from <= t, t <= from + MaxRead, t <= produced
  PROVE  LET u == Through(t, chunks[k], from) IN
         /\ u \in Nat /\ t <= u /\ u <= from + MaxRead /\ u <= produced
         /\ chunks[k].from <= t /\ t < End(chunks[k]) /\ t = from => u > from
         /\ \A x \in t .. u - 1 : Carried(x, o)
<1> DEFINE c == chunks[k]
           u == Through(t, c, from)
<1>1. /\ c \in Chunk /\ Piece(c) /\ c.from \in Nat /\ End(c) \in Nat
      /\ c.from < End(c) /\ End(c) <= produced
  BY OrderedKnown
<1>2. End(c) = c.from + Len(c.data) /\ Len(c.data) \in Nat
  BY <1>1, ChunkKnown
<1>3. c = chunks[k]
  OBVIOUS
<1> HIDE DEF c
<1>4. CASE c.from <= t /\ t < End(c)
  <2>1. u = Least(End(c), from + MaxRead)
    BY <1>4 DEF Through
  <2>2. u \in Nat /\ t <= u /\ u <= from + MaxRead /\ u <= produced /\ u <= End(c) /\ (t = from => u > from)
    BY <1>1, <1>4, <2>1 DEF Least
  <2> HIDE DEF u
  <2>3. ASSUME NEW x \in t .. u - 1 PROVE Carried(x, o)
    <3>1. x \in Int /\ x >= t /\ x < End(c)
      BY <1>1, <2>2
    <3>2. x \in c.from .. End(c) - 1 /\ End(c) > o
      BY <1>1, <1>4, <3>1
    <3>3. x - c.from + 1 \in 1 .. Len(c.data)
      <4>1. c.from \in Nat /\ Len(c.data) \in Nat /\ x \in c.from .. c.from + Len(c.data) - 1
        BY <1>1, <1>2, <3>2
      <4>2. ASSUME NEW f \in Nat, NEW n \in Nat, x \in f .. f + n - 1
            PROVE  x - f + 1 \in 1 .. n
        BY <4>2
      <4>3. QED
        BY <4>1, <4>2
    <3>4. c.data[x - c.from + 1] = c.from + (x - c.from + 1) - 1
      BY <1>1, <3>3 DEF Piece
    <3>5. c.data[x - c.from + 1] = x
      BY <1>1, <3>1, <3>4
    <3>6. QED
      BY <1>3, <3>2, <3>5 DEF Carried
  <2>4. QED
    BY <1>3, <2>2, <2>3 DEF u
<1>5. CASE ~ (c.from <= t /\ t < End(c))
  <2>1. u = t
    BY <1>5 DEF Through
  <2>2. t .. t - 1 = {}
    OBVIOUS
  <2> HIDE DEF u
  <2>3. QED
    BY <1>3, <1>5, <2>1, <2>2 DEF u
<1>6. QED
  BY <1>4, <1>5

(* State::collect. *)
LEMMA CollectKnown ==
  ASSUME Ordered(chunks, produced), produced \in Nat, MaxRead \in Nat \ {0}, NEW o \in 0 .. produced
  PROVE  LET r == CollectBytes(o) IN
         /\ r.from \in Nat /\ r.to \in Nat /\ o <= r.from /\ r.from <= r.to
         /\ r.to <= r.from + MaxRead /\ r.to <= produced
         /\ r.to = o => o = produced
         /\ r.eof = (flags.finished /\ r.to >= produced)
         /\ \A x \in r.from .. r.to - 1 : Carried(x, o)
         /\ \A k \in 1 .. Len(chunks) : End(chunks[k]) > o => r.from <= Most(chunks[k].from, o)
<1> DEFINE cursor == Most(o, AvailableFrom)
           later == {k \in DOMAIN chunks : End(chunks[k]) > cursor}
           m == Min(later)
           from == IF later = {} THEN Most(cursor, produced) ELSE Most(cursor, chunks[Min(later)].from)
           n == Len(chunks)
           F == [k \in 1 .. n |-> [t \in Nat |-> Through(t, chunks[k], from)]]
           to == CHOOSE e : e = [k \in 0 .. n |-> IF k = 0 THEN from ELSE
                                   IF chunks[k].from <= e[k - 1] /\ e[k - 1] < End(chunks[k])
                                   THEN Least(End(chunks[k]), from + MaxRead) ELSE e[k - 1]]
           r == CollectBytes(o)
<1>1. /\ r.from = from /\ r.to = to[n] /\ r.eof = (flags.finished /\ to[n] >= produced)
  BY DEF CollectBytes
<1>2. chunks \in Seq(Chunk) /\ n \in Nat /\ DOMAIN chunks = 1 .. n
  BY DEF Ordered
<1>3. \A k \in 1 .. n : /\ chunks[k].from \in Nat /\ End(chunks[k]) \in Nat
                        /\ chunks[k].from < End(chunks[k]) /\ End(chunks[k]) <= produced
  BY OrderedKnown
<1>4. AvailableFrom \in Nat /\ AvailableFrom <= produced /\ \A k \in 1 .. n : AvailableFrom <= chunks[k].from
  <2>1. CASE chunks = <<>>
    BY <1>2, <2>1 DEF AvailableFrom
  <2>2. CASE chunks # <<>>
    <3>1. 1 \in 1 .. n /\ AvailableFrom = chunks[1].from
      BY <1>2, <2>2 DEF AvailableFrom
    <3>2. \A k \in 1 .. n : 1 < k => End(chunks[1]) <= chunks[k].from
      BY <3>1 DEF Ordered
    <3>3. QED
      BY <1>2, <1>3, <3>1, <3>2
  <2>3. QED
    BY <2>1, <2>2
<1>5. cursor \in Nat /\ o <= cursor /\ cursor <= produced /\ AvailableFrom <= cursor /\ cursor \in {o, AvailableFrom}
  BY <1>4 DEF Most
<1> HIDE DEF cursor
<1>6. later # {} => m \in later /\ \A k \in later : m <= k
  <2>1. ASSUME later # {} PROVE m \in later /\ \A k \in later : m <= k
    <3>1. later \subseteq Nat
      BY <1>2
    <3> HIDE DEF later
    <3>2. PICK q \in later : \A k \in later : q <= k
      BY <2>1, <3>1, LeastNumber
    <3>3. QED
      BY <3>2 DEF Min
  <2>2. QED
    BY <2>1
<1>7. m = Min(later)
  OBVIOUS
<1> HIDE DEF m
<1>8. /\ from \in Nat /\ o <= from /\ from <= produced
      /\ later = {} => from = produced
      /\ later # {} => m \in 1 .. n /\ chunks[m].from <= from /\ from < End(chunks[m])
  <2>1. CASE later = {}
    BY <1>5, <2>1 DEF Most
  <2>2. CASE later # {}
    <3>1. m \in 1 .. n /\ End(chunks[m]) > cursor
      BY <1>2, <1>6, <2>2
    <3>2. from = Most(cursor, chunks[m].from)
      BY <1>7, <2>2
    <3>3. chunks[m].from \in Nat /\ chunks[m].from < End(chunks[m]) /\ End(chunks[m]) <= produced
      BY <1>3, <3>1
    <3>4. from \in {cursor, chunks[m].from} /\ cursor <= from /\ chunks[m].from <= from
      BY <1>5, <3>2, <3>3 DEF Most
    <3>5. End(chunks[m]) \in Nat
      BY <1>3, <3>1
    <3>6. from \in Nat /\ o <= from /\ from <= produced
      BY <1>5, <3>3, <3>4, <3>5
    <3>7. from < End(chunks[m])
      BY <1>5, <3>1, <3>3, <3>4, <3>5
    <3> HIDE DEF from, later
    <3>8. QED
      BY <2>2, <3>1, <3>4, <3>6, <3>7
  <2>3. QED
    BY <2>1, <2>2
<1>9. ASSUME NEW k \in 1 .. n, End(chunks[k]) > o
      PROVE  from <= Most(chunks[k].from, o)
  <2>1. k \in later
    <3>1. End(chunks[k]) > AvailableFrom
      BY <1>3, <1>4
    <3>2. QED
      BY <1>2, <1>5, <1>9, <3>1
  <2>2. m <= k /\ m \in 1 .. n
    BY <1>6, <1>8, <2>1
  <2>3. chunks[m].from <= chunks[k].from
    <3>1. m < k => End(chunks[m]) <= chunks[k].from
      BY <2>2 DEF Ordered
    <3>2. QED
      BY <1>2, <1>3, <2>2, <3>1
  <2>4. cursor <= Most(chunks[k].from, o)
    BY <1>3, <1>4, <1>5 DEF Most
  <2>5. from = Most(cursor, chunks[m].from)
    BY <1>7, <2>1
  <2>6. QED
    BY <1>3, <1>5, <2>2, <2>3, <2>4, <2>5, SMTT(30) DEF Most
<1> HIDE DEF from, later
<1>10. /\ to[0] = from
       /\ \A k \in 1 .. n : to[k] = Through(to[k - 1], chunks[k], from)
  <2>1. n \in 0 .. n
    BY <1>2
  <2>2. PICK g : IsWalk(g, from, F, n)
    BY <1>2, <2>1, WalkExists
  <2>3. g = [k \in 0 .. n |-> IF k = 0 THEN from ELSE F[k][g[k - 1]]]
    BY <2>2 DEF IsWalk
  <2>4. ASSUME NEW k \in 1 .. n, NEW t \in Nat
        PROVE  Through(t, chunks[k], from) \in Nat
    BY <1>3, <1>8 DEF Through, Least
  <2>5. F \in [1 .. n -> [Nat -> Nat]]
    BY <2>4
  <2>6. \A k \in 1 .. n : \A t \in Nat : F[k][t] = Through(t, chunks[k], from)
    OBVIOUS
  <2> HIDE DEF F
  <2>7. \A k \in 0 .. n : g[k] \in Nat
    BY <1>2, <1>8, <2>2, <2>5, WalkStays
  <2>8. ASSUME NEW k \in 1 .. n PROVE F[k][g[k - 1]] = Through(g[k - 1], chunks[k], from)
    <3>1. k - 1 \in 0 .. n
      BY <1>2
    <3>2. QED
      BY <2>6, <2>7, <3>1
  <2>9. g = [k \in 0 .. n |-> IF k = 0 THEN from ELSE Through(g[k - 1], chunks[k], from)]
    <3>1. \A k \in 0 .. n : k # 0 => k \in 1 .. n
      BY <1>2
    <3>2. QED
      BY <2>3, <2>8, <3>1
  <2>10. to = [k \in 0 .. n |-> IF k = 0 THEN from ELSE Through(to[k - 1], chunks[k], from)]
    BY <2>9 DEF Through
  <2> HIDE DEF to
  <2>11. 0 \in 0 .. n /\ \A k \in 1 .. n : k \in 0 .. n /\ k # 0
    BY <1>2
  <2>12. QED
    BY <2>10, <2>11
<1> HIDE DEF to
<1> DEFINE Known(k) ==
             /\ to[k] \in Nat /\ from <= to[k] /\ to[k] <= from + MaxRead /\ to[k] <= produced
             /\ \A x \in from .. to[k] - 1 : Carried(x, o)
             /\ later # {} /\ m <= k => to[k] > from
           Unknown == {k \in 0 .. n : ~ Known(k)}
<1>11. Unknown = {}
  <2>1. SUFFICES ASSUME Unknown # {} PROVE FALSE
    OBVIOUS
  <2>2. PICK k \in Unknown : \A j \in Unknown : k <= j
    <3>1. Unknown \subseteq Nat
      BY <1>2
    <3> HIDE DEF Unknown
    <3>2. QED
      BY <2>1, <3>1, LeastNumber
  <2>3. k \in 0 .. n /\ ~ Known(k)
    OBVIOUS
  <2>4. CASE k = 0
    <3>1. to[0] = from /\ from .. from - 1 = {}
      BY <1>8, <1>10
    <3>2. ~ (later # {} /\ m <= 0)
      BY <1>8
    <3>3. Known(0)
      BY <1>8, <3>1, <3>2
    <3>4. QED
      BY <2>3, <2>4, <3>3
  <2>5. CASE k # 0
    <3>1. k \in 1 .. n /\ k - 1 \in 0 .. n /\ k - 1 < k
      BY <1>2, <2>3, <2>5
    <3>2. Known(k - 1)
      <4>1. k - 1 \notin Unknown
        <5>1. ~ (k <= k - 1)
          BY <3>1
        <5>2. QED
          BY <2>2, <5>1
      <4>2. QED
        BY <3>1, <4>1
    <3> DEFINE t == to[k - 1]
    <3>3. t \in Nat /\ from <= t /\ t <= from + MaxRead /\ t <= produced
      BY <3>2
    <3>4. to[k] = Through(t, chunks[k], from)
      BY <1>10, <3>1
    <3>5. /\ to[k] \in Nat /\ t <= to[k] /\ to[k] <= from + MaxRead /\ to[k] <= produced
          /\ chunks[k].from <= t /\ t < End(chunks[k]) /\ t = from => to[k] > from
          /\ \A x \in t .. to[k] - 1 : Carried(x, o)
      <4> HIDE DEF t
      <4>1. k \in 1 .. Len(chunks) /\ from \in Nat /\ o <= from /\ o \in Nat
        BY <1>8, <3>1
      <4> DEFINE v == Through(t, chunks[k], from)
      <4>2. /\ v \in Nat /\ t <= v /\ v <= from + MaxRead /\ v <= produced
            /\ chunks[k].from <= t /\ t < End(chunks[k]) /\ t = from => v > from
            /\ \A x \in t .. v - 1 : Carried(x, o)
        BY <3>3, <4>1, ThroughKnown
      <4> HIDE DEF v
      <4>3. to[k] = v
        BY <3>4 DEF v
      <4>4. QED
        BY <4>2, <4>3
    <3>6. \A x \in from .. to[k] - 1 : Carried(x, o)
      <4>1. \A x \in from .. t - 1 : Carried(x, o)
        BY <3>2
      <4>2. \A x \in from .. to[k] - 1 : x \in from .. t - 1 \/ x \in t .. to[k] - 1
        BY <1>8, <3>3, <3>5
      <4>3. QED
        BY <3>5, <4>1, <4>2
    <3>7. ASSUME later # {}, m <= k PROVE to[k] > from
      <4>1. CASE m = k
        <5>1. chunks[k].from <= from /\ from < End(chunks[k])
          BY <1>8, <3>7, <4>1
        <5>2. CASE t = from
          BY <3>5, <5>1, <5>2
        <5>3. CASE t # from
          BY <1>8, <3>3, <3>5, <5>3
        <5>4. QED
          BY <5>2, <5>3
      <4>2. CASE m # k
        <5>1. m <= k - 1
          BY <1>8, <3>1, <3>7, <4>2
        <5>2. t > from
          BY <3>2, <3>7, <5>1
        <5>3. QED
          BY <1>8, <3>3, <3>5, <5>2
      <4>3. QED
        BY <4>1, <4>2
    <3>8. Known(k)
      BY <1>8, <3>3, <3>5, <3>6, <3>7
    <3>9. QED
      BY <2>3, <3>8
  <2>6. QED
    BY <2>4, <2>5
<1>12. Known(n)
  <2>1. n \in 0 .. n
    BY <1>2
  <2>2. QED
    BY <1>11, <2>1
<1>13. to[n] = o => o = produced
  <2>1. SUFFICES ASSUME to[n] = o PROVE o = produced
    OBVIOUS
  <2>2. CASE later = {}
    BY <1>8, <1>12, <2>1, <2>2
  <2>3. CASE later # {}
    <3>1. m <= n
      BY <1>8, <2>3
    <3>2. to[n] > from
      BY <1>12, <2>3, <3>1
    <3>3. QED
      BY <1>8, <1>12, <2>1, <3>2
  <2>4. QED
    BY <2>2, <2>3
<1> HIDE DEF r
<1>14. /\ from \in Nat /\ to[n] \in Nat /\ o <= from /\ from <= to[n]
       /\ to[n] <= from + MaxRead /\ to[n] <= produced
       /\ \A x \in from .. to[n] - 1 : Carried(x, o)
  BY <1>8, <1>12
<1>15. QED
  BY <1>1, <1>9, <1>13, <1>14 DEF r

FlagSet == [timedOut : BOOLEAN, closing : BOOLEAN, closed : BOOLEAN,
            escalated : BOOLEAN, eof : BOOLEAN, finished : BOOLEAN]
CallStates == {"free", "waiting", "awake", "writing", "done"}

TerminalTypes ==
  /\ state \in {"Created", "Running", "Ended", "Failed"} /\ flags \in FlagSet
  /\ master \in {"none", "open", "closed", "done"}
  /\ tCall \in [TerminalCallers -> CallStates]
  /\ object \in {"held", "posted", "disposed", "gone"}
  /\ tUse \in TerminalUses
  /\ pos \in [at : Nat, eof : BOOLEAN]

(* Where the close of a session stands. *)
CloseInv ==
  /\ ~Started => master = "none" /\ ~flags.eof /\ ~flags.finished
  /\ Started => master # "none"
  /\ flags.eof => master \in {"closed", "done"}
  /\ flags.finished => state = "Ended" /\ flags.eof
  /\ flags.closed /\ Started => flags.finished
  /\ flags.closing /\ ~Started => object \notin {"held", "posted"}
  /\ \A k \in TerminalClosers :
       /\ tCall[k] # "writing"
       /\ tCall[k] = "waiting" => flags.closing /\ Started
       /\ tCall[k] = "awake" => flags.closing /\ flags.finished
       /\ tCall[k] = "done" => flags.closed

(* A reader that was told the end is there, but for what came late. *)
EndTold == pos.at = produced \/ (afterEof > 0 /\ pos.at + afterEof = produced)

BufferInv ==
  /\ produced \in Nat /\ Ordered(chunks, produced)
  /\ charged = Held(chunks) /\ charged <= Buffer
  /\ slot = (Started /\ ~flags.closed /\ object # "gone")
  /\ arrived \in Nat /\ afterEof \in Nat /\ (afterEof > 0 => flags.eof /\ arrived = 0)
  /\ pos.at <= produced /\ (pos.eof => flags.finished /\ EndTold)

TerminalIInv == TerminalTypes /\ CloseInv /\ BufferInv

LiveSession == IF Started /\ ~flags.finished THEN {"session"} ELSE {}
CloseAsked == {k \in TerminalClosers : tCall[k] # "free"}
CloseReturned == {k \in TerminalClosers : tCall[k] = "done"}
BarrierSteps == [TerminalBarrier!Next]_(TerminalBarrier!vars)

(* No call is a call of two methods. *)
LEMMA ClosersApart ==
  ASSUME TerminalConstantsOK
  PROVE  /\ TerminalClosers \cap (Writers \cup Waiters \cup {Reader}) = {}
         /\ TerminalClosers \subseteq TerminalCallers /\ Reader \in TerminalCallers
         /\ Writers \subseteq TerminalCallers /\ Waiters \subseteq TerminalCallers
BY DEF TerminalConstantsOK, TerminalCallers

(* A step that leaves the close as it is. *)
LEMMA BarrierStays ==
  ASSUME ClosePhase' = ClosePhase, LiveSession' = LiveSession,
         CloseAsked' = CloseAsked, CloseReturned' = CloseReturned
  PROVE  BarrierSteps
BY DEF BarrierSteps, TerminalBarrier!vars, LiveSession, CloseAsked, CloseReturned

(* The session starts. *)
LEMMA BarrierStarts ==
  ASSUME ClosePhase = "open", ClosePhase' = "open", LiveSession = {}, LiveSession' = {"session"},
         CloseAsked' = CloseAsked, CloseReturned' = CloseReturned
  PROVE  BarrierSteps
BY DEF BarrierSteps, TerminalBarrier!Next, TerminalBarrier!Start, LiveSession, CloseAsked, CloseReturned

(* The session finishes. *)
LEMMA BarrierEnds ==
  ASSUME LiveSession = {"session"}, LiveSession' = {},
         ClosePhase' = IF ClosePhase = "closing" THEN "closed" ELSE ClosePhase,
         CloseAsked' = CloseAsked, CloseReturned' = CloseReturned
  PROVE  BarrierSteps
BY DEF BarrierSteps, TerminalBarrier!Next, TerminalBarrier!End, TerminalBarrier!Settled,
       LiveSession, CloseAsked, CloseReturned

(* The terminal begins to close without being asked. *)
LEMMA BarrierShuts ==
  ASSUME ClosePhase = "open", LiveSession' \subseteq LiveSession,
         ClosePhase' = IF LiveSession' = {} THEN "closed" ELSE "closing",
         CloseAsked' = CloseAsked, CloseReturned' = CloseReturned
  PROVE  BarrierSteps
BY DEF BarrierSteps, TerminalBarrier!Next, TerminalBarrier!Shut, TerminalBarrier!Settled,
       LiveSession, CloseAsked, CloseReturned

(* A caller calls close. *)
LEMMA BarrierAsks ==
  ASSUME NEW k \in TerminalClosers, k \notin CloseAsked, CloseAsked' = CloseAsked \cup {k},
         LiveSession' = LiveSession,
         ClosePhase' = IF ClosePhase = "open" THEN IF LiveSession = {} THEN "closed" ELSE "closing"
                       ELSE ClosePhase,
         CloseReturned' = IF ClosePhase' = "closed" THEN CloseReturned \cup {k} ELSE CloseReturned
  PROVE  BarrierSteps
BY DEF BarrierSteps, TerminalBarrier!Next, TerminalBarrier!Ask, TerminalBarrier!Settled,
       LiveSession, CloseAsked, CloseReturned

(* A call of close returns. *)
LEMMA BarrierReturns ==
  ASSUME NEW k \in TerminalClosers, k \in CloseAsked, k \notin CloseReturned,
         ClosePhase = "closed", ClosePhase' = "closed", LiveSession' = LiveSession,
         CloseAsked' = CloseAsked, CloseReturned' = CloseReturned \cup {k}
  PROVE  BarrierSteps
BY DEF BarrierSteps, TerminalBarrier!Next, TerminalBarrier!Return,
       LiveSession, CloseAsked, CloseReturned

-----------------------------------------------------------------------------
(* What a handler may do to the session: finish it, wake its callers, and  *)
(* the disposal begins to close it.                                        *)
Handled ==
  /\ state' = state \/ (state = "Running" /\ state' = "Ended")
  /\ flags' \in FlagSet /\ flags'.closed = flags.closed
  /\ flags.closing => flags'.closing
  /\ flags'.closing => flags.closing \/ (object = "posted" /\ object' = "disposed" /\ ~flags.closed)
  /\ flags.eof => flags'.eof
  /\ flags'.eof => flags.eof \/ master # "none"
  /\ flags.finished => flags'.finished
  /\ flags'.finished => flags.finished \/ (state' = "Ended" /\ flags'.eof)
  /\ master' \in {"none", "open", "closed", "done"} /\ (master = "none" <=> master' = "none")
  /\ flags'.eof => master' \in {"closed", "done"}
  /\ tCall' \in [TerminalCallers -> CallStates]
  /\ \A k \in TerminalClosers :
       \/ tCall'[k] = tCall[k]
       \/ tCall[k] = "waiting" /\ tCall'[k] = "awake" /\ flags'.finished
  /\ \/ object' = object
     \/ object = "held" /\ object' = "posted"
     \/ object = "posted" /\ object' = "disposed"
  /\ UNCHANGED <<slot, tUse>>

(* Such a handler keeps the invariant of the close. *)
LEMMA HandledHolds ==
  ASSUME TerminalIInv, Handled, BufferInv', pos' \in [at : Nat, eof : BOOLEAN]
  PROVE  TerminalIInv'
<1>1. Started' = Started
  BY DEF Handled, Started
<1>2. TerminalTypes'
  BY DEF TerminalIInv, TerminalTypes, Handled
<1>3. CloseInv'
  <2>1. ~Started' => master' = "none" /\ ~flags'.eof /\ ~flags'.finished
    BY <1>1 DEF TerminalIInv, CloseInv, Handled, Started
  <2>2. Started' => master' # "none"
    BY <1>1 DEF TerminalIInv, CloseInv, Handled
  <2>3. flags'.finished => state' = "Ended" /\ flags'.eof
    BY DEF TerminalIInv, CloseInv, Handled
  <2>4. flags'.closed /\ Started' => flags'.finished
    BY <1>1 DEF TerminalIInv, CloseInv, Handled
  <2>5. flags'.closing /\ ~Started' => object' \notin {"held", "posted"}
    BY <1>1 DEF TerminalIInv, CloseInv, Handled
  <2>6. ASSUME NEW k \in TerminalClosers
        PROVE  /\ tCall'[k] # "writing"
               /\ tCall'[k] = "waiting" => flags'.closing /\ Started'
               /\ tCall'[k] = "awake" => flags'.closing /\ flags'.finished
               /\ tCall'[k] = "done" => flags'.closed
    BY <1>1 DEF TerminalIInv, CloseInv, Handled
  <2>7. flags'.eof => master' \in {"closed", "done"}
    BY DEF Handled
  <2>8. QED
    BY <2>1, <2>2, <2>3, <2>4, <2>5, <2>6, <2>7 DEF CloseInv
<1>4. QED
  BY <1>2, <1>3 DEF TerminalIInv

(* A handler that leaves the buffer and the reader alone. *)
LEMMA HandledKeeps ==
  ASSUME TerminalIInv, Handled, UNCHANGED <<produced, chunks, charged, arrived, afterEof, pos>>
  PROVE  TerminalIInv'
<1>1. Started' = Started
  BY DEF Handled, Started
<1>2. BufferInv'
  <2>1. slot' = (Started' /\ ~flags'.closed /\ object' # "gone")
    BY <1>1 DEF TerminalIInv, BufferInv, Handled
  <2>2. pos'.at <= produced' /\ (pos'.eof => flags'.finished /\ EndTold')
    BY DEF TerminalIInv, BufferInv, Handled, EndTold
  <2>5. arrived' \in Nat /\ afterEof' \in Nat /\ (afterEof' > 0 => flags'.eof /\ arrived' = 0)
    BY DEF TerminalIInv, BufferInv, Handled
  <2>3. produced' \in Nat /\ Ordered(chunks', produced') /\ charged' = Held(chunks') /\ charged' <= Buffer
    BY DEF TerminalIInv, BufferInv
  <2>4. QED
    BY <2>1, <2>2, <2>3, <2>5 DEF BufferInv
<1>3. pos' \in [at : Nat, eof : BOOLEAN]
  BY DEF TerminalIInv, TerminalTypes
<1>4. QED
  BY <1>2, <1>3, HandledHolds

(* It is a step of the barrier. *)
LEMMA HandledSteps ==
  ASSUME TerminalIInv, Handled
  PROVE  BarrierSteps
<1>1. Started' = Started
  BY DEF Handled, Started
<1>2. CloseAsked' = CloseAsked /\ CloseReturned' = CloseReturned
  BY DEF CloseAsked, CloseReturned, Handled
<1>3. CASE flags'.closing = flags.closing /\ flags'.finished = flags.finished
  <2>1. ClosePhase' = ClosePhase /\ LiveSession' = LiveSession
    BY <1>1, <1>3 DEF ClosePhase, LiveSession, Handled
  <2>2. QED
    BY <1>2, <2>1, BarrierStays
<1>4. CASE flags'.closing # flags.closing
  <2>1. ~flags.closing /\ flags'.closing /\ ~flags.closed /\ ~flags'.closed
    BY <1>4 DEF Handled, TerminalIInv, TerminalTypes, FlagSet
  <2>2. ClosePhase = "open"
    BY <2>1 DEF ClosePhase
  <2>3. LiveSession' \subseteq LiveSession
    BY <1>1 DEF LiveSession, Handled
  <2>4. ClosePhase' = IF LiveSession' = {} THEN "closed" ELSE "closing"
    BY <2>1 DEF ClosePhase, LiveSession
  <2>5. QED
    BY <1>2, <2>2, <2>3, <2>4, BarrierShuts
<1>5. CASE flags'.closing = flags.closing /\ flags'.finished # flags.finished
  <2>1. ~flags.finished /\ flags'.finished /\ Started
    <3>1. ~flags.finished /\ flags'.finished
      BY <1>5 DEF Handled, TerminalIInv, TerminalTypes, FlagSet
    <3>2. state' = "Ended"
      BY <3>1 DEF Handled
    <3>3. QED
      BY <1>1, <3>1, <3>2 DEF Started
  <2>2. ~flags.closed /\ ~flags'.closed
    BY <2>1 DEF TerminalIInv, CloseInv, Handled
  <2>3. LiveSession = {"session"} /\ LiveSession' = {}
    BY <1>1, <2>1 DEF LiveSession
  <2>4. ClosePhase' = IF ClosePhase = "closing" THEN "closed" ELSE ClosePhase
    BY <1>1, <1>5, <2>1, <2>2 DEF ClosePhase
  <2>5. QED
    BY <1>2, <2>3, <2>4, BarrierEnds
<1>6. QED
  BY <1>3, <1>4, <1>5

(* What notify does to the calls. *)
LEMMA WokenKnown ==
  ASSUME TerminalTypes, NEW kinds
  PROVE  /\ WokenCalls(kinds) \in [TerminalCallers -> CallStates]
         /\ \A k \in TerminalCallers :
              /\ k \notin kinds => WokenCalls(kinds)[k] = tCall[k]
              /\ WokenCalls(kinds)[k] = tCall[k] \/ (tCall[k] = "waiting" /\ WokenCalls(kinds)[k] = "awake")
<1>1. \A k \in TerminalCallers :
        (IF k \in kinds /\ tCall[k] = "waiting" THEN "awake" ELSE tCall[k]) \in CallStates
  BY DEF TerminalTypes, CallStates
<1>2. QED
  BY <1>1 DEF WokenCalls

(* try_finish. *)
LEMMA FinishHandled ==
  ASSUME TerminalConstantsOK, TerminalIInv, NEW f \in FlagSet, NEW t, NEW ended \in BOOLEAN, NEW wakes,
         wakes \cap TerminalClosers = {}, TryFinishSession(f, t, ended, wakes),
         f.closed = flags.closed, flags.closing => f.closing,
         f.closing => flags.closing \/ (object = "posted" /\ object' = "disposed" /\ ~flags.closed),
         flags.eof => f.eof, f.eof => flags.eof \/ master # "none",
         f.finished = flags.finished, ended => state' = "Ended",
         state' = state \/ (state = "Running" /\ state' = "Ended"),
         master' \in {"none", "open", "closed", "done"}, master = "none" <=> master' = "none",
         f.eof => master' \in {"closed", "done"},
         object' = object \/ (object = "posted" /\ object' = "disposed"),
         UNCHANGED <<slot, tUse>>
  PROVE  Handled
<1> DEFINE now == ~f.finished /\ ended /\ f.eof
           kinds == IF now THEN TerminalCallers ELSE wakes
<1>1. /\ flags' = [f EXCEPT !.finished = @ \/ now]
      /\ tCall' = WokenCalls(kinds)
  BY DEF TryFinishSession
<1>2. /\ flags' \in FlagSet /\ flags'.closed = f.closed /\ flags'.closing = f.closing
      /\ flags'.eof = f.eof /\ flags'.finished = (f.finished \/ now)
  BY <1>1 DEF FlagSet
<1>3. /\ tCall' \in [TerminalCallers -> CallStates]
      /\ \A k \in TerminalCallers :
              /\ k \notin kinds => tCall'[k] = tCall[k]
              /\ tCall'[k] = tCall[k] \/ (tCall[k] = "waiting" /\ tCall'[k] = "awake")
  <2> HIDE DEF kinds
  <2>1. QED
    BY <1>1, WokenKnown DEF TerminalIInv
<1>4. ASSUME NEW k \in TerminalClosers
      PROVE  \/ tCall'[k] = tCall[k]
             \/ tCall[k] = "waiting" /\ tCall'[k] = "awake" /\ flags'.finished
  <2>1. k \in TerminalCallers /\ k \notin wakes
    BY ClosersApart
  <2>2. CASE now
    <3>1. flags'.finished
      BY <1>2, <2>2
    <3>2. QED
      BY <1>3, <2>1, <3>1
  <2>3. CASE ~now
    BY <1>3, <2>1, <2>3
  <2>4. QED
    BY <2>2, <2>3
<1>5. flags'.finished => flags.finished \/ (state' = "Ended" /\ flags'.eof)
  BY <1>2
<1> HIDE DEF now, kinds
<1>6. flags.finished => flags'.finished
  BY <1>2
<1>7. QED
  BY <1>2, <1>3, <1>4, <1>5, <1>6 DEF Handled

(* cancel_master. *)
LEMMA CancelHandled ==
  ASSUME TerminalConstantsOK, TerminalIInv, NEW f \in FlagSet, NEW t, CancelMaster(f, t),
         f.closed = flags.closed, flags.closing => f.closing,
         f.closing => flags.closing \/ (object = "posted" /\ object' = "disposed" /\ ~flags.closed),
         f.eof = flags.eof, f.finished = flags.finished, state' = state,
         object' = object \/ (object = "posted" /\ object' = "disposed"),
         UNCHANGED <<slot, tUse>>
  PROVE  Handled
<1>1. TerminalTypes /\ CloseInv
  BY DEF TerminalIInv
<1>2. CASE master = "none"
  <2>1. flags' = f /\ master' = master /\ tCall' = tCall
    BY <1>2 DEF CancelMaster
  <2>2. QED
    BY <1>1, <1>2, <2>1 DEF Handled, TerminalTypes, CloseInv
<1>3. CASE master # "none"
  <2> DEFINE g == [f EXCEPT !.eof = TRUE]
  <2>1. /\ TryFinishSession(g, t, state = "Ended", Writers \cup {Reader})
        /\ master' = IF master = "open" THEN "closed" ELSE master
    BY <1>3 DEF CancelMaster
  <2>2. /\ g \in FlagSet /\ g.closed = f.closed /\ g.closing = f.closing /\ g.eof = TRUE
        /\ g.finished = f.finished
    BY DEF FlagSet
  <2>3. (Writers \cup {Reader}) \cap TerminalClosers = {}
    BY ClosersApart
  <2>4. (state = "Ended") \in BOOLEAN
    OBVIOUS
  <2>5. master' \in {"closed", "done"}
    BY <1>1, <1>3, <2>1 DEF TerminalTypes
  <2> HIDE DEF g
  <2>6. QED
    BY <1>3, <2>1, <2>2, <2>3, <2>4, <2>5, FinishHandled
<1>4. QED
  BY <1>2, <1>3

(* The handlers of the executor are of that kind. *)
LEMMA HandlersHandled ==
  ASSUME TerminalConstantsOK, TerminalIInv,
         ReadLoopEnds \/ ChildReaped \/ TerminalTimeoutFires \/ GraceEnds \/ DisposesTerminal
  PROVE  Handled
<1>1. TerminalTypes /\ CloseInv
  BY DEF TerminalIInv
<1>2. ASSUME flags' = flags, state' = state, master' = master, tCall' = tCall,
             object' = object \/ (object = "posted" /\ object' = "disposed"),
             UNCHANGED <<slot, tUse>>
      PROVE  Handled
  BY <1>1, <1>2 DEF Handled, TerminalTypes, CloseInv
<1>3. CASE ReadLoopEnds
  <2> DEFINE g == [flags EXCEPT !.eof = TRUE]
  <2>1. /\ TryFinishSession(g, timers, state = "Ended", Writers \cup {Reader})
        /\ master' = "done" /\ master # "none"
        /\ UNCHANGED <<state, produced, chunks, charged, pos, slot, object, tUse>>
    BY <1>3 DEF ReadLoopEnds, buffer, script
  <2>2. /\ g \in FlagSet /\ g.closed = flags.closed /\ g.closing = flags.closing /\ g.eof = TRUE
        /\ g.finished = flags.finished
    BY <1>1 DEF TerminalTypes, FlagSet
  <2>3. (Writers \cup {Reader}) \cap TerminalClosers = {}
    BY ClosersApart
  <2>4. (state = "Ended") \in BOOLEAN
    OBVIOUS
  <2> HIDE DEF g
  <2>5. QED
    BY <2>1, <2>2, <2>3, <2>4, FinishHandled
<1>4. CASE ChildReaped
  <2>1. /\ TryFinishSession(flags, timers, TRUE, {Reader})
        /\ state = "Running" /\ state' = "Ended"
        /\ UNCHANGED <<master, produced, chunks, charged, slot, pos, object, tUse>>
    BY <1>4 DEF ChildReaped, buffer, script
  <2>2. {Reader} \cap TerminalClosers = {}
    BY ClosersApart
  <2>3. flags \in FlagSet /\ master \in {"none", "open", "closed", "done"}
        /\ (flags.eof => master \in {"closed", "done"}) /\ TRUE \in BOOLEAN
    BY <1>1 DEF TerminalTypes, CloseInv
  <2>4. QED
    BY <2>1, <2>2, <2>3, FinishHandled
<1>5. CASE TerminalTimeoutFires
  <2> DEFINE t == [timers EXCEPT !.timeout = "off"]
             g == [flags EXCEPT !.timedOut = TRUE]
  <2>1. UNCHANGED <<state, produced, chunks, charged, pos, slot, object, tUse>>
    BY <1>5 DEF TerminalTimeoutFires, buffer, script
  <2>2. (UNCHANGED <<flags, master, tCall>>) \/ CancelMaster(g, t)
    BY <1>5 DEF TerminalTimeoutFires
  <2>3. /\ g \in FlagSet /\ g.closed = flags.closed /\ g.closing = flags.closing /\ g.eof = flags.eof
        /\ g.finished = flags.finished
    BY <1>1 DEF TerminalTypes, FlagSet
  <2> HIDE DEF g, t
  <2>4. CASE CancelMaster(g, t)
    BY <2>1, <2>3, <2>4, CancelHandled
  <2>5. QED
    BY <1>2, <2>1, <2>2, <2>4
<1>6. CASE GraceEnds
  <2> DEFINE t == [timers EXCEPT !.close = "off"]
             g == [flags EXCEPT !.escalated = TRUE]
  <2>1. UNCHANGED <<state, produced, chunks, charged, pos, slot, object, tUse>>
    BY <1>6 DEF GraceEnds, buffer, script
  <2>2. (UNCHANGED <<flags, master, tCall>>) \/ CancelMaster(g, t)
    BY <1>6 DEF GraceEnds
  <2>3. /\ g \in FlagSet /\ g.closed = flags.closed /\ g.closing = flags.closing /\ g.eof = flags.eof
        /\ g.finished = flags.finished
    BY <1>1 DEF TerminalTypes, FlagSet
  <2> HIDE DEF g, t
  <2>4. CASE CancelMaster(g, t)
    BY <2>1, <2>3, <2>4, CancelHandled
  <2>5. QED
    BY <1>2, <2>1, <2>2, <2>4
<1>7. CASE DisposesTerminal
  <2> DEFINE t == TimersCancelled(timers)
             g == [flags EXCEPT !.closing = TRUE]
  <2>1. /\ UNCHANGED <<state, produced, chunks, charged, slot, pos, tUse>>
        /\ object = "posted" /\ object' = "disposed"
    BY <1>7 DEF DisposesTerminal, buffer
  <2>2. (UNCHANGED <<flags, master, tCall>>) \/ (~flags.closed /\ CancelMaster(g, t))
    BY <1>7 DEF DisposesTerminal
  <2>3. /\ g \in FlagSet /\ g.closed = flags.closed /\ g.closing = TRUE /\ g.eof = flags.eof
        /\ g.finished = flags.finished
    BY <1>1 DEF TerminalTypes, FlagSet
  <2> HIDE DEF g, t
  <2>4. CASE ~flags.closed /\ CancelMaster(g, t)
    BY <2>1, <2>3, <2>4, CancelHandled
  <2>5. QED
    BY <1>2, <2>1, <2>2, <2>4
<1>8. QED
  BY <1>3, <1>4, <1>5, <1>6, <1>7

(* They leave the buffer and the reader alone. *)
LEMMA HandlersKeep ==
  ASSUME ReadLoopEnds \/ ChildReaped \/ TerminalTimeoutFires \/ GraceEnds \/ DisposesTerminal
  PROVE  UNCHANGED <<produced, chunks, charged, arrived, afterEof, pos>>
BY DEF ReadLoopEnds, ChildReaped, TerminalTimeoutFires, GraceEnds, DisposesTerminal, buffer, script

(* A call of read, write or wait, or nothing that concerns the session. *)
LEMMA QuietHandled ==
  ASSUME TerminalIInv, UNCHANGED <<state, flags, master, slot, tUse>>,
         tCall' \in [TerminalCallers -> CallStates],
         \A k \in TerminalClosers : tCall'[k] = tCall[k],
         object' = object \/ (object = "held" /\ object' = "posted")
  PROVE  Handled
BY DEF TerminalIInv, TerminalTypes, CloseInv, Handled

(* One call moves. *)
LEMMA MovedKnown ==
  ASSUME TerminalConstantsOK, TerminalTypes, NEW k \in TerminalCallers \ TerminalClosers, NEW v \in CallStates,
         NEW now \in [TerminalCallers -> CallStates], \A j \in TerminalClosers : now[j] = tCall[j],
         tCall' = [now EXCEPT ![k] = v]
  PROVE  /\ tCall' \in [TerminalCallers -> CallStates]
         /\ \A j \in TerminalClosers : tCall'[j] = tCall[j]
BY ClosersApart

(* So are the calls of read, write and wait. *)
LEMMA CallsHandled ==
  ASSUME TerminalConstantsOK, TerminalIInv,
         \/ ReadCalled \/ ReadResumes \/ Signal
         \/ \E k \in Writers : WriteCalled(k) \/ WriteResumes(k) \/ TerminalWriteCompletes(k)
         \/ \E k \in Waiters : WaitCalled(k) \/ WaitResumes(k)
         \/ \E k \in TerminalCallers \ TerminalClosers : WaitEnds(k)
  PROVE  Handled /\ UNCHANGED <<produced, chunks, charged, arrived, afterEof>>
<1>1. TerminalTypes /\ tCall \in [TerminalCallers -> CallStates]
  BY DEF TerminalIInv, TerminalTypes
<1>2. UNCHANGED <<state, flags, master, slot, tUse, object, produced, chunks, charged, arrived, afterEof>>
  BY DEF ReadCalled, ReadResumes, Signal, WriteCalled, WriteResumes, TerminalWriteCompletes,
         WaitCalled, WaitResumes, WaitEnds, Kept, buffer, script
<1>3. /\ tCall' \in [TerminalCallers -> CallStates]
      /\ \A j \in TerminalClosers : tCall'[j] = tCall[j]
  <2>1. ASSUME NEW k \in TerminalCallers \ TerminalClosers, NEW v \in CallStates, tCall' = [tCall EXCEPT ![k] = v]
        PROVE  /\ tCall' \in [TerminalCallers -> CallStates]
               /\ \A j \in TerminalClosers : tCall'[j] = tCall[j]
    BY <1>1, <2>1, MovedKnown
  <2>2. CASE ReadCalled \/ ReadResumes
    <3>1. \E v \in CallStates : tCall' = [tCall EXCEPT ![Reader] = v]
      BY <2>2 DEF ReadCalled, ReadResumes, ReadsOn, Answers, CallStates
    <3>2. Reader \in TerminalCallers \ TerminalClosers
      BY ClosersApart
    <3>3. QED
      BY <2>1, <3>1, <3>2
  <2>3. CASE Signal
    BY <1>1, <2>3 DEF Signal
  <2>4. ASSUME NEW k \in Writers, WriteCalled(k) \/ WriteResumes(k)
        PROVE  /\ tCall' \in [TerminalCallers -> CallStates]
               /\ \A j \in TerminalClosers : tCall'[j] = tCall[j]
    <3>1. \E v \in CallStates : tCall' = [tCall EXCEPT ![k] = v]
      BY <2>4 DEF WriteCalled, WriteResumes, Writes, Answers, CallStates
    <3>2. k \in TerminalCallers \ TerminalClosers
      BY ClosersApart
    <3>3. QED
      BY <2>1, <3>1, <3>2
  <2>5. ASSUME NEW k \in Writers, TerminalWriteCompletes(k)
        PROVE  /\ tCall' \in [TerminalCallers -> CallStates]
               /\ \A j \in TerminalClosers : tCall'[j] = tCall[j]
    <3> DEFINE now == WokenCalls(Writers)
    <3>1. tCall' = [now EXCEPT ![k] = "done"]
      BY <2>5 DEF TerminalWriteCompletes
    <3>2. k \in TerminalCallers \ TerminalClosers /\ \A j \in TerminalClosers : j \in TerminalCallers /\ j \notin Writers
      BY ClosersApart
    <3>3. /\ now \in [TerminalCallers -> CallStates] /\ \A j \in TerminalClosers : now[j] = tCall[j]
          /\ "done" \in CallStates
      BY <1>1, <3>2, WokenKnown DEF CallStates
    <3> HIDE DEF now
    <3>4. QED
      BY <1>1, <3>1, <3>2, <3>3, MovedKnown
  <2>6. ASSUME NEW k \in Waiters, WaitCalled(k) \/ WaitResumes(k)
        PROVE  /\ tCall' \in [TerminalCallers -> CallStates]
               /\ \A j \in TerminalClosers : tCall'[j] = tCall[j]
    <3>1. \E v \in CallStates : tCall' = [tCall EXCEPT ![k] = v]
      BY <2>6 DEF WaitCalled, WaitResumes, Answers, CallStates
    <3>2. k \in TerminalCallers \ TerminalClosers
      BY ClosersApart
    <3>3. QED
      BY <2>1, <3>1, <3>2
  <2>7. ASSUME NEW k \in TerminalCallers \ TerminalClosers, WaitEnds(k)
        PROVE  /\ tCall' \in [TerminalCallers -> CallStates]
               /\ \A j \in TerminalClosers : tCall'[j] = tCall[j]
    BY <2>1, <2>7 DEF WaitEnds, CallStates
  <2>8. QED
    BY <2>2, <2>3, <2>4, <2>5, <2>6, <2>7
<1>4. Handled
  BY <1>2, <1>3, QuietHandled
<1>5. QED
  BY <1>2, <1>4

(* Where a read leaves the reader. *)
LEMMA ReadsKnown ==
  ASSUME TerminalConstantsOK, TerminalIInv
  PROVE  LET r == CollectBytes(pos.at)
             p == [at |-> r.to, eof |-> r.eof]
         IN  /\ p \in [at : Nat, eof : BOOLEAN] /\ p.at <= produced
             /\ p.eof => flags.finished /\ p.at = produced
<1> DEFINE r == CollectBytes(pos.at)
<1>1. /\ Ordered(chunks, produced) /\ produced \in Nat /\ MaxRead \in Nat \ {0} /\ pos.at \in 0 .. produced
  BY DEF TerminalIInv, TerminalTypes, BufferInv, TerminalConstantsOK
<1>2. r.to \in Nat /\ r.to <= produced /\ r.eof = (flags.finished /\ r.to >= produced)
  BY <1>1, CollectKnown
<1> HIDE DEF r
<1> DEFINE p == [at |-> r.to, eof |-> r.eof]
<1>3. p.at = r.to /\ p.eof = r.eof /\ r.eof \in BOOLEAN
  BY <1>2
<1>4. p \in [at : Nat, eof : BOOLEAN]
  BY <1>2, <1>3
<1> HIDE DEF p
<1>5. p.at <= produced
  BY <1>2, <1>3
<1>6. ASSUME p.eof PROVE flags.finished /\ p.at = produced
  <2>1. flags.finished /\ r.to >= produced
    BY <1>2, <1>3, <1>6
  <2>2. QED
    BY <1>1, <1>2, <1>3, <2>1
<1>7. QED
  BY <1>4, <1>5, <1>6 DEF p, r

(* They keep the invariant, and are steps of the barrier. *)
LEMMA CallsHold ==
  ASSUME TerminalConstantsOK, TerminalIInv,
         \/ ReadCalled \/ ReadResumes \/ Signal
         \/ \E k \in Writers : WriteCalled(k) \/ WriteResumes(k) \/ TerminalWriteCompletes(k)
         \/ \E k \in Waiters : WaitCalled(k) \/ WaitResumes(k)
         \/ \E k \in TerminalCallers \ TerminalClosers : WaitEnds(k)
  PROVE  TerminalIInv' /\ BarrierSteps
<1>1. Handled /\ UNCHANGED <<produced, chunks, charged, arrived, afterEof>>
  BY CallsHandled
<1>2. BarrierSteps
  BY <1>1, HandledSteps
<1>3. CASE pos' = pos
  BY <1>1, <1>2, <1>3, HandledKeeps
<1>4. CASE pos' # pos
  <2> DEFINE r == CollectBytes(pos.at)
             p == [at |-> r.to, eof |-> r.eof]
  <2>1. pos' = p
    BY <1>4 DEF ReadCalled, ReadResumes, ReadsOn, Signal, WriteCalled, WriteResumes, Writes,
                TerminalWriteCompletes, WaitCalled, WaitResumes, WaitEnds, script
  <2>2. /\ p \in [at : Nat, eof : BOOLEAN] /\ p.at <= produced
        /\ p.eof => flags.finished /\ p.at = produced
    BY ReadsKnown
  <2> HIDE DEF p
  <2>3. flags.finished => flags'.finished
    BY <1>1 DEF Handled
  <2>4. Started' = Started /\ slot' = slot /\ flags'.closed = flags.closed
    BY <1>1 DEF Handled, Started
  <2>5. (object' # "gone") = (object # "gone")
    BY <1>1 DEF Handled
  <2>6. BufferInv'
    <3>1. flags.eof => flags'.eof
      BY <1>1 DEF Handled
    <3>2. pos'.eof => EndTold'
      BY <1>1, <2>1, <2>2 DEF EndTold
    <3>3. QED
      BY <1>1, <2>1, <2>2, <2>3, <2>4, <2>5, <3>1, <3>2 DEF TerminalIInv, BufferInv
  <2>7. QED
    BY <1>1, <1>2, <2>1, <2>2, <2>6, HandledHolds
<1>5. QED
  BY <1>3, <1>4

(* A read completes: its handler is queued. *)
LEMMA LoopCompletesHolds ==
  ASSUME TerminalConstantsOK, TerminalIInv, LoopReadCompletes
  PROVE  TerminalIInv' /\ BarrierSteps
<1>1. TerminalTypes /\ CloseInv /\ BufferInv
  BY DEF TerminalIInv
<1>2. /\ UNCHANGED <<state, flags, master, slot, tCall, pos, object, tUse, produced, chunks, charged, afterEof>>
      /\ master = "open" /\ arrived = 0
  BY DEF LoopReadCompletes, script
<1>3. arrived' \in Nat
  <2>1. PICK n \in 1 .. pending : arrived' = n
    BY DEF LoopReadCompletes
  <2>2. QED
    BY <2>1
<1>4. Handled
  BY <1>1, <1>2, QuietHandled DEF TerminalTypes
<1>5. ~flags.eof /\ afterEof = 0
  BY <1>1, <1>2 DEF CloseInv, BufferInv
<1>6. BufferInv'
  <2>1. slot' = (Started' /\ ~flags'.closed /\ object' # "gone")
    BY <1>1, <1>2 DEF BufferInv, Started
  <2>2. pos'.at <= produced' /\ (pos'.eof => flags'.finished /\ EndTold')
    BY <1>1, <1>2 DEF BufferInv, EndTold
  <2>3. arrived' \in Nat /\ afterEof' \in Nat /\ (afterEof' > 0 => flags'.eof /\ arrived' = 0)
    BY <1>2, <1>3, <1>5
  <2>4. produced' \in Nat /\ Ordered(chunks', produced') /\ charged' = Held(chunks') /\ charged' <= Buffer
    BY <1>1, <1>2 DEF BufferInv
  <2>5. QED
    BY <2>1, <2>2, <2>3, <2>4 DEF BufferInv
<1>7. pos' \in [at : Nat, eof : BOOLEAN]
  BY <1>1, <1>2 DEF TerminalTypes
<1>8. QED
  BY <1>4, <1>6, <1>7, HandledHolds, HandledSteps

(* The handler fills the buffer, after the end was told as well. *)
LEMMA LoopAppendsHolds ==
  ASSUME TerminalConstantsOK, TerminalIInv, LoopReadAppends
  PROVE  TerminalIInv' /\ BarrierSteps
<1>1. TerminalTypes /\ CloseInv /\ BufferInv
  BY DEF TerminalIInv
<1>2. /\ UNCHANGED <<state, flags, master, slot, pos, object, tUse>>
      /\ tCall' = WokenCalls({Reader}) /\ arrived > 0 /\ arrived' = 0
      /\ afterEof' = IF flags.eof THEN arrived ELSE 0
  BY DEF LoopReadAppends, script
<1>3. /\ tCall' \in [TerminalCallers -> CallStates]
      /\ \A k \in TerminalClosers : tCall'[k] = tCall[k]
  <2>1. \A k \in TerminalClosers : k \in TerminalCallers /\ k \notin {Reader}
    BY ClosersApart
  <2>2. QED
    BY <1>1, <1>2, <2>1, WokenKnown
<1>4. Handled
  BY <1>2, <1>3, QuietHandled
<1>5. PICK room \in tUse.rooms : Keep(arrived, room)
  BY DEF LoopReadAppends
<1>6. arrived \in Nat \ {0} /\ room \in Nat
  <2>1. tUse \in TerminalUse
    BY <1>1 DEF TerminalTypes, TerminalConstantsOK
  <2>2. tUse.rooms \subseteq Nat
    BY <2>1 DEF TerminalUse
  <2>3. QED
    BY <1>1, <1>2, <1>5, <2>2 DEF BufferInv
<1>7. /\ produced' = produced + arrived /\ Ordered(chunks', produced')
      /\ charged' = Held(chunks') /\ charged' <= Buffer
  <2>1. /\ Buffer \in Nat /\ produced \in Nat /\ Ordered(chunks, produced)
        /\ charged = Held(chunks) /\ charged <= Buffer
    BY <1>1 DEF BufferInv, TerminalConstantsOK
  <2>2. QED
    BY <1>5, <1>6, <2>1, KeepKnown
<1>8. afterEof = 0 /\ produced \in Nat /\ pos.at \in Nat /\ pos.at <= produced
  BY <1>1, <1>2 DEF BufferInv, TerminalTypes
<1>9. pos'.eof => flags'.finished /\ EndTold'
  <2>1. SUFFICES ASSUME pos.eof PROVE flags.finished /\ EndTold'
    BY <1>2
  <2>2. flags.finished /\ pos.at = produced
    BY <1>1, <1>8, <2>1 DEF BufferInv, EndTold
  <2>3. flags.eof
    BY <1>1, <2>2 DEF CloseInv
  <2>4. afterEof' > 0 /\ pos'.at + afterEof' = produced'
    BY <1>2, <1>6, <1>7, <1>8, <2>2, <2>3
  <2>5. QED
    BY <2>2, <2>4 DEF EndTold
<1>10. BufferInv'
  <2>1. produced' \in Nat /\ pos'.at <= produced'
    BY <1>2, <1>6, <1>7, <1>8
  <2>2. slot' = (Started' /\ ~flags'.closed /\ object' # "gone")
    BY <1>1, <1>2 DEF BufferInv, Started
  <2>3. arrived' \in Nat /\ afterEof' \in Nat /\ (afterEof' > 0 => flags'.eof /\ arrived' = 0)
    BY <1>2, <1>6
  <2>4. QED
    BY <1>7, <1>9, <2>1, <2>2, <2>3 DEF BufferInv
<1>11. pos' \in [at : Nat, eof : BOOLEAN]
  BY <1>1, <1>2 DEF TerminalTypes
<1>12. QED
  BY <1>4, <1>10, <1>11, HandledHolds, HandledSteps

(* What does not concern the session, and steps of other modules. *)
LEMMA OthersHold ==
  ASSUME TerminalIInv,
         \/ ObjectLost \/ Outputs \/ RequestStop \/ (\E g \in Groups : Leaves(g))
         \/ (\E t \in DOMAIN timers : Expires(t)) \/ UNCHANGED terminalVars
  PROVE  TerminalIInv' /\ BarrierSteps
<1>1. /\ UNCHANGED <<state, flags, master, slot, tUse, tCall, produced, chunks, charged, arrived, afterEof, pos>>
      /\ object' = object \/ (object = "held" /\ object' = "posted")
  BY DEF ObjectLost, Outputs, RequestStop, Leaves, Expires, terminalVars, buffer, script
<1>2. tCall \in [TerminalCallers -> CallStates]
  BY DEF TerminalIInv, TerminalTypes
<1>3. Handled
  BY <1>1, <1>2, QuietHandled
<1>4. QED
  BY <1>1, <1>3, HandledKeeps, HandledSteps

(* start, and a start that fails. *)
LEMMA StartsHold ==
  ASSUME TerminalConstantsOK, TerminalIInv, StartTerminal \/ StartFails
  PROVE  TerminalIInv' /\ BarrierSteps
<1>1. TerminalTypes /\ CloseInv /\ BufferInv
  BY DEF TerminalIInv
<1>2. /\ UNCHANGED <<flags, tCall, produced, chunks, charged, arrived, afterEof, pos, object, tUse>>
      /\ ~Started /\ ~flags.closed /\ object = "held"
  BY DEF StartTerminal, StartFails, Started, buffer, script
<1>3. ~flags.closing /\ ~flags.finished /\ ~flags.eof
  BY <1>1, <1>2 DEF CloseInv
<1>4. \A k \in TerminalClosers : tCall[k] = "free"
  BY <1>1, <1>2, <1>3, ClosersApart DEF CloseInv, TerminalTypes, CallStates
<1>5. CloseAsked' = CloseAsked /\ CloseReturned' = CloseReturned
  BY <1>2 DEF CloseAsked, CloseReturned
<1>6. CASE StartTerminal
  <2>1. state' = "Running" /\ slot' = TRUE /\ master' = "open" /\ Started'
    BY <1>6 DEF StartTerminal, Started
  <2>2. TerminalTypes'
    BY <1>1, <1>2, <2>1 DEF TerminalTypes
  <2>3. CloseInv'
    BY <1>2, <1>3, <1>4, <2>1 DEF CloseInv
  <2>4. BufferInv'
    <3>1. slot' = (Started' /\ ~flags'.closed /\ object' # "gone")
      BY <1>2, <2>1
    <3>2. QED
      BY <1>1, <1>2, <3>1 DEF BufferInv, EndTold
  <2>5. ClosePhase = "open" /\ ClosePhase' = "open"
    BY <1>2, <1>3 DEF ClosePhase
  <2>6. LiveSession = {} /\ LiveSession' = {"session"}
    BY <1>2, <1>3, <2>1 DEF LiveSession
  <2>7. QED
    BY <1>5, <2>2, <2>3, <2>4, <2>5, <2>6, BarrierStarts DEF TerminalIInv
<1>7. CASE StartFails
  <2>1. state' = "Failed" /\ slot' = slot /\ master' = master /\ ~Started'
    BY <1>7 DEF StartFails, Started
  <2>2. TerminalTypes'
    BY <1>1, <1>2, <2>1 DEF TerminalTypes
  <2>3. CloseInv'
    BY <1>1, <1>2, <1>3, <1>4, <2>1 DEF CloseInv
  <2>4. BufferInv'
    <3>1. slot' = (Started' /\ ~flags'.closed /\ object' # "gone")
      BY <1>1, <1>2, <2>1 DEF BufferInv
    <3>2. QED
      BY <1>1, <1>2, <3>1 DEF BufferInv, EndTold
  <2>5. ClosePhase' = ClosePhase /\ LiveSession' = LiveSession
    BY <1>2, <2>1 DEF ClosePhase, LiveSession
  <2>6. QED
    BY <1>5, <2>2, <2>3, <2>4, <2>5, BarrierStays DEF TerminalIInv
<1>8. QED
  BY <1>6, <1>7

(* finalize_close. *)
LEMMA FinalizeKnown ==
  ASSUME TerminalConstantsOK, TerminalIInv, NEW k \in TerminalClosers, FinalizeClose(k),
         ~Started \/ flags.finished
  PROVE  /\ TerminalIInv' /\ ClosePhase' = "closed" /\ LiveSession = {} /\ LiveSession' = {}
         /\ \A j \in TerminalClosers : j # k => tCall'[j] = tCall[j] \/ (tCall[j] = "waiting" /\ tCall'[j] = "awake")
         /\ tCall'[k] = "done"
<1>1. TerminalTypes /\ CloseInv /\ BufferInv
  BY DEF TerminalIInv
<1>2. /\ UNCHANGED <<state, master, produced, arrived, afterEof, pos, object, tUse>>
      /\ chunks' = <<>> /\ charged' = 0 /\ slot' = FALSE
      /\ flags' = [flags EXCEPT !.closing = @ \/ Started, !.closed = TRUE]
      /\ tCall' = [WokenCalls(TerminalCallers) EXCEPT ![k] = "done"]
  BY DEF FinalizeClose, script
<1>3. /\ flags' \in FlagSet /\ flags'.closed = TRUE /\ flags'.closing = (flags.closing \/ Started)
      /\ flags'.eof = flags.eof /\ flags'.finished = flags.finished
  BY <1>1, <1>2 DEF TerminalTypes, FlagSet
<1>4. Started' = Started
  BY <1>2 DEF Started
<1>5. /\ tCall' \in [TerminalCallers -> CallStates] /\ tCall'[k] = "done"
      /\ \A j \in TerminalClosers : j # k => tCall'[j] = tCall[j] \/ (tCall[j] = "waiting" /\ tCall'[j] = "awake")
  <2> DEFINE now == WokenCalls(TerminalCallers)
  <2>1. /\ now \in [TerminalCallers -> CallStates]
        /\ \A j \in TerminalCallers : now[j] = tCall[j] \/ (tCall[j] = "waiting" /\ now[j] = "awake")
    BY <1>1, WokenKnown
  <2>2. tCall' = [now EXCEPT ![k] = "done"]
    BY <1>2
  <2> HIDE DEF now
  <2>3. QED
    BY <2>1, <2>2, ClosersApart DEF CallStates
<1>6. TerminalTypes'
  BY <1>1, <1>2, <1>3, <1>5 DEF TerminalTypes
<1>7. CloseInv'
  <2>1. ASSUME NEW j \in TerminalClosers
        PROVE  /\ tCall'[j] # "writing"
               /\ tCall'[j] = "waiting" => flags'.closing /\ Started'
               /\ tCall'[j] = "awake" => flags'.closing /\ flags'.finished
               /\ tCall'[j] = "done" => flags'.closed
    BY <1>1, <1>3, <1>4, <1>5 DEF CloseInv
  <2>2. /\ ~Started' => master' = "none" /\ ~flags'.eof /\ ~flags'.finished
        /\ Started' => master' # "none"
        /\ flags'.eof => master' \in {"closed", "done"}
        /\ flags'.finished => state' = "Ended" /\ flags'.eof
        /\ flags'.closed /\ Started' => flags'.finished
    BY <1>1, <1>2, <1>3, <1>4 DEF CloseInv
  <2>3. flags'.closing /\ ~Started' => object' \notin {"held", "posted"}
    BY <1>1, <1>2, <1>3, <1>4 DEF CloseInv
  <2>4. QED
    BY <2>1, <2>2, <2>3 DEF CloseInv
<1>8. BufferInv'
  <2>1. Ordered(<<>>, produced)
    BY DEF Ordered
  <2>2. slot' = (Started' /\ ~flags'.closed /\ object' # "gone")
    BY <1>2, <1>3
  <2>3. 0 <= Buffer
    BY DEF TerminalConstantsOK
  <2>4. pos'.at <= produced' /\ (pos'.eof => flags'.finished /\ EndTold') /\ produced' \in Nat
        /\ arrived' \in Nat /\ afterEof' \in Nat /\ (afterEof' > 0 => flags'.eof /\ arrived' = 0)
    BY <1>1, <1>2, <1>3 DEF BufferInv, EndTold
  <2>5. Ordered(chunks', produced') /\ charged' = Held(chunks') /\ charged' <= Buffer
    BY <1>2, <2>1, <2>3, HeldEmpty
  <2>6. QED
    BY <2>2, <2>4, <2>5 DEF BufferInv
<1>9. ClosePhase' = "closed" /\ LiveSession = {} /\ LiveSession' = {}
  BY <1>3, <1>4 DEF ClosePhase, LiveSession
<1>10. QED
  BY <1>5, <1>6, <1>7, <1>8, <1>9 DEF TerminalIInv

(* A call of close. *)
LEMMA CloseCalledHolds ==
  ASSUME TerminalConstantsOK, TerminalIInv, NEW k \in TerminalClosers, TerminalCloseCalled(k)
  PROVE  TerminalIInv' /\ BarrierSteps
<1>1. TerminalTypes /\ CloseInv /\ BufferInv
  BY DEF TerminalIInv
<1>2. tCall[k] = "free" /\ k \in TerminalCallers /\ k \notin CloseAsked
  BY ClosersApart DEF TerminalCloseCalled, CloseAsked
<1>3. CASE flags.closed
  <2>1. /\ tCall' = [tCall EXCEPT ![k] = "done"]
        /\ UNCHANGED <<state, flags, master, slot, produced, chunks, charged, arrived, afterEof, pos, object, tUse>>
    BY <1>3 DEF TerminalCloseCalled, Answers, buffer, script
  <2>2. /\ tCall' \in [TerminalCallers -> CallStates] /\ tCall'[k] = "done"
        /\ \A j \in TerminalClosers : j # k => tCall'[j] = tCall[j]
    BY <1>1, <1>2, <2>1, ClosersApart DEF TerminalTypes, CallStates
  <2>3. TerminalTypes'
    BY <1>1, <2>1, <2>2 DEF TerminalTypes
  <2>4. Started' = Started
    BY <2>1 DEF Started
  <2>5. CloseInv'
    BY <1>1, <1>3, <2>1, <2>2, <2>4 DEF CloseInv
  <2>6. BufferInv'
    BY <1>1, <2>1, <2>4 DEF BufferInv, EndTold
  <2>7. ClosePhase = "closed" /\ ClosePhase' = "closed" /\ LiveSession' = LiveSession
    BY <1>3, <2>1, <2>4 DEF ClosePhase, LiveSession
  <2>8. CloseAsked' = CloseAsked \cup {k} /\ CloseReturned' = CloseReturned \cup {k}
    BY <2>2 DEF CloseAsked, CloseReturned
  <2>9. QED
    BY <1>2, <2>3, <2>5, <2>6, <2>7, <2>8, BarrierAsks DEF TerminalIInv
<1>4. CASE ~flags.closed /\ (~Started \/ flags.finished)
  <2>1. FinalizeClose(k)
    BY <1>4 DEF TerminalCloseCalled
  <2>2. /\ TerminalIInv' /\ ClosePhase' = "closed" /\ LiveSession = {} /\ LiveSession' = {}
        /\ \A j \in TerminalClosers : j # k => tCall'[j] = tCall[j] \/ (tCall[j] = "waiting" /\ tCall'[j] = "awake")
        /\ tCall'[k] = "done"
    BY <1>4, <2>1, FinalizeKnown
  <2>3. CloseAsked' = CloseAsked \cup {k} /\ CloseReturned' = CloseReturned \cup {k}
    BY <2>2 DEF CloseAsked, CloseReturned
  <2>4. ClosePhase \in {"open", "closed"}
    BY <1>4 DEF ClosePhase
  <2>5. QED
    BY <1>2, <2>2, <2>3, <2>4, BarrierAsks
<1>5. CASE ~flags.closed /\ Started /\ ~flags.finished
  <2>1. /\ tCall' = [tCall EXCEPT ![k] = "waiting"]
        /\ flags' = [flags EXCEPT !.closing = TRUE]
        /\ UNCHANGED <<state, master, slot, produced, chunks, charged, arrived, afterEof, pos, object, tUse>>
    BY <1>5 DEF TerminalCloseCalled, buffer, script
  <2>2. /\ tCall' \in [TerminalCallers -> CallStates] /\ tCall'[k] = "waiting"
        /\ \A j \in TerminalClosers : j # k => tCall'[j] = tCall[j]
    BY <1>1, <1>2, <2>1, ClosersApart DEF TerminalTypes, CallStates
  <2>3. /\ flags' \in FlagSet /\ flags'.closing = TRUE /\ flags'.closed = flags.closed
        /\ flags'.eof = flags.eof /\ flags'.finished = flags.finished
    BY <1>1, <2>1 DEF TerminalTypes, FlagSet
  <2>4. TerminalTypes'
    BY <1>1, <2>1, <2>2, <2>3 DEF TerminalTypes
  <2>5. Started' = Started
    BY <2>1 DEF Started
  <2>6. CloseInv'
    BY <1>1, <1>5, <2>1, <2>2, <2>3, <2>5 DEF CloseInv
  <2>7. BufferInv'
    BY <1>1, <2>1, <2>3, <2>5 DEF BufferInv, EndTold
  <2>8. LiveSession = {"session"} /\ LiveSession' = {"session"}
    BY <1>5, <2>3, <2>5 DEF LiveSession
  <2>9. ClosePhase \in {"open", "closing"} /\ ClosePhase' = "closing"
    BY <1>5, <2>3, <2>5 DEF ClosePhase
  <2>10. CloseAsked' = CloseAsked \cup {k} /\ CloseReturned' = CloseReturned
    BY <1>2, <2>2 DEF CloseAsked, CloseReturned
  <2>11. QED
    BY <1>2, <2>4, <2>6, <2>7, <2>8, <2>9, <2>10, BarrierAsks DEF TerminalIInv
<1>6. QED
  BY <1>3, <1>4, <1>5

LEMMA CloseResumesHolds ==
  ASSUME TerminalConstantsOK, TerminalIInv, NEW k \in TerminalClosers, TerminalCloseResumes(k)
  PROVE  TerminalIInv' /\ BarrierSteps
<1>1. TerminalTypes /\ CloseInv /\ BufferInv
  BY DEF TerminalIInv
<1>2. tCall[k] = "awake" /\ k \in TerminalCallers /\ k \in CloseAsked /\ k \notin CloseReturned
  BY ClosersApart DEF TerminalCloseResumes, CloseAsked, CloseReturned
<1>3. ClosePhase = "closed" /\ flags.finished
  BY <1>1, <1>2 DEF CloseInv, ClosePhase
<1>4. CASE flags.closed
  <2>1. /\ tCall' = [tCall EXCEPT ![k] = "done"]
        /\ UNCHANGED <<state, flags, master, slot, produced, chunks, charged, arrived, afterEof, pos, object, tUse>>
    BY <1>4 DEF TerminalCloseResumes, Answers, buffer, script
  <2>2. /\ tCall' \in [TerminalCallers -> CallStates] /\ tCall'[k] = "done"
        /\ \A j \in TerminalClosers : j # k => tCall'[j] = tCall[j]
    BY <1>1, <1>2, <2>1, ClosersApart DEF TerminalTypes, CallStates
  <2>3. TerminalTypes'
    BY <1>1, <2>1, <2>2 DEF TerminalTypes
  <2>4. Started' = Started
    BY <2>1 DEF Started
  <2>5. CloseInv'
    BY <1>1, <1>4, <2>1, <2>2, <2>4 DEF CloseInv
  <2>6. BufferInv'
    BY <1>1, <2>1, <2>4 DEF BufferInv, EndTold
  <2>7. ClosePhase' = "closed" /\ LiveSession' = LiveSession
    BY <1>4, <2>1, <2>4 DEF ClosePhase, LiveSession
  <2>8. CloseAsked' = CloseAsked /\ CloseReturned' = CloseReturned \cup {k}
    BY <1>2, <2>2 DEF CloseAsked, CloseReturned
  <2>9. QED
    BY <1>2, <1>3, <2>3, <2>5, <2>6, <2>7, <2>8, BarrierReturns DEF TerminalIInv
<1>5. CASE ~flags.closed
  <2>1. FinalizeClose(k)
    BY <1>5 DEF TerminalCloseResumes
  <2>2. /\ TerminalIInv' /\ ClosePhase' = "closed" /\ LiveSession = {} /\ LiveSession' = {}
        /\ \A j \in TerminalClosers : j # k => tCall'[j] = tCall[j] \/ (tCall[j] = "waiting" /\ tCall'[j] = "awake")
        /\ tCall'[k] = "done"
    BY <1>3, <2>1, FinalizeKnown
  <2>3. CloseAsked' = CloseAsked /\ CloseReturned' = CloseReturned \cup {k}
    BY <1>2, <2>2 DEF CloseAsked, CloseReturned
  <2>4. QED
    BY <1>2, <1>3, <2>2, <2>3, BarrierReturns
<1>6. QED
  BY <1>4, <1>5

LEMMA StateDiesHolds ==
  ASSUME TerminalConstantsOK, TerminalIInv, StateDies
  PROVE  TerminalIInv' /\ BarrierSteps
<1>1. TerminalTypes /\ CloseInv /\ BufferInv
  BY DEF TerminalIInv
<1>2. /\ UNCHANGED <<state, flags, master, produced, arrived, afterEof, tCall, pos, tUse>> /\ object' = "gone"
      /\ chunks' = <<>> /\ charged' = 0 /\ slot' = FALSE
  BY DEF StateDies
<1>3. Started' = Started
  BY <1>2 DEF Started
<1>4. TerminalTypes'
  BY <1>1, <1>2 DEF TerminalTypes
<1>5. CloseInv'
  BY <1>1, <1>2, <1>3 DEF CloseInv
<1>6. BufferInv'
  <2>1. Ordered(<<>>, produced)
    BY DEF Ordered
  <2>2. slot' = (Started' /\ ~flags'.closed /\ object' # "gone") /\ 0 <= Buffer
    <3>1. 0 <= Buffer
      BY DEF TerminalConstantsOK
    <3>2. QED
      BY <1>2, <3>1
  <2>3. Ordered(chunks', produced') /\ charged' = Held(chunks') /\ charged' <= Buffer
    BY <1>2, <2>1, <2>2, HeldEmpty
  <2>4. pos'.at <= produced' /\ (pos'.eof => flags'.finished /\ EndTold') /\ produced' \in Nat
        /\ arrived' \in Nat /\ afterEof' \in Nat /\ (afterEof' > 0 => flags'.eof /\ arrived' = 0)
    BY <1>1, <1>2 DEF BufferInv, EndTold
  <2>5. QED
    BY <2>2, <2>3, <2>4 DEF BufferInv
<1>7. /\ ClosePhase' = ClosePhase /\ LiveSession' = LiveSession
      /\ CloseAsked' = CloseAsked /\ CloseReturned' = CloseReturned
  BY <1>2, <1>3 DEF ClosePhase, LiveSession, CloseAsked, CloseReturned
<1>8. QED
  BY <1>4, <1>5, <1>6, <1>7, BarrierStays DEF TerminalIInv

LEMMA TerminalStarts ==
  ASSUME TerminalConstantsOK, TerminalInit
  PROVE  TerminalIInv /\ TerminalBarrier!Init
<1>1. TerminalTypes
  BY DEF TerminalInit, TerminalTypes, FlagSet, CallStates
<1>2. CloseInv
  BY ClosersApart DEF TerminalInit, CloseInv, Started
<1>3. BufferInv
  <2>1. Ordered(<<>>, 0)
    BY DEF Ordered
  <2>2. 0 <= Buffer /\ slot = (Started /\ ~flags.closed /\ object # "gone")
    <3>1. 0 <= Buffer
      BY DEF TerminalConstantsOK
    <3>2. QED
      BY <3>1 DEF TerminalInit, Started
  <2>3. QED
    BY <2>1, <2>2, HeldEmpty DEF BufferInv, EndTold, TerminalInit
<1>4. TerminalBarrier!Init
  BY ClosersApart DEF TerminalBarrier!Init, TerminalInit, ClosePhase, Started
<1>5. QED
  BY <1>1, <1>2, <1>3, <1>4 DEF TerminalIInv

LEMMA TerminalStepsHold ==
  ASSUME TerminalConstantsOK, TerminalIInv, [TerminalNext]_terminalVars
  PROVE  TerminalIInv' /\ BarrierSteps
<1>1. CASE StartTerminal \/ StartFails
  BY <1>1, StartsHold
<1>2. CASE Called
  <2>1. CASE \E k \in TerminalClosers : TerminalCloseCalled(k)
    BY <2>1, CloseCalledHolds
  <2>2. CASE ~ \E k \in TerminalClosers : TerminalCloseCalled(k)
    BY <1>2, <2>2, CallsHold DEF Called
  <2>3. QED
    BY <2>1, <2>2
<1>3. CASE TerminalResumes
  <2>1. CASE \E k \in TerminalClosers : TerminalCloseResumes(k)
    BY <2>1, CloseResumesHolds
  <2>2. CASE ~ \E k \in TerminalClosers : TerminalCloseResumes(k)
    BY <1>3, <2>2, CallsHold DEF TerminalResumes
  <2>3. QED
    BY <2>1, <2>2
<1>4. CASE LoopReadCompletes \/ LoopReadAppends
  BY <1>4, LoopCompletesHolds, LoopAppendsHolds
<1>5. CASE ReadLoopEnds \/ ChildReaped \/ TerminalTimeoutFires \/ GraceEnds \/ DisposesTerminal
  BY <1>5, HandlersHandled, HandlersKeep, HandledKeeps, HandledSteps
<1>6. CASE StateDies
  BY <1>6, StateDiesHolds
<1>7. CASE \/ \E k \in Writers : TerminalWriteCompletes(k)
           \/ \E k \in TerminalCallers \ TerminalClosers : WaitEnds(k)
  BY <1>7, CallsHold
<1>8. CASE \/ ObjectLost \/ Outputs \/ RequestStop \/ (\E g \in Groups : Leaves(g))
           \/ (\E t \in DOMAIN timers : Expires(t)) \/ UNCHANGED terminalVars
  BY <1>8, OthersHold
<1>9. QED
  BY <1>1, <1>2, <1>3, <1>4, <1>5, <1>6, <1>7, <1>8 DEF TerminalNext, Handlers

(* The reads and the budget follow. *)
LEMMA BufferIsExact ==
  ASSUME TerminalConstantsOK, TerminalIInv
  PROVE  BufferExact
<1>1. BufferInv /\ MaxRead \in Nat \ {0} /\ Ordered(chunks, produced) /\ produced \in Nat
  BY DEF TerminalIInv, TerminalConstantsOK, BufferInv
<1>2. TerminalBudget
  BY <1>1 DEF BufferInv, TerminalBudget
<1>3. pos.eof => pos.at = produced \/ (afterEof > 0 /\ pos.at + afterEof = produced)
  BY <1>1 DEF BufferInv, EndTold
<1>4. chunks \in Seq(Chunk) /\ DOMAIN chunks = 1 .. Len(chunks)
  BY <1>1 DEF Ordered
<1>5. ASSUME NEW o \in 0 .. produced
      PROVE  LET r == CollectBytes(o)
                 ahead == {c \in {chunks[k] : k \in DOMAIN chunks} : End(c) > o}
             IN  /\ r.from >= o /\ r.to - r.from \in 0 .. MaxRead /\ (r.to = o => o = produced)
                 /\ \A x \in r.from .. r.to - 1 :
                      \E c \in ahead : x \in c.from .. End(c) - 1 /\ c.data[x - c.from + 1] = x
                 /\ \A c \in ahead : Most(c.from, o) >= r.from
  <2> DEFINE r == CollectBytes(o)
             ahead == {c \in {chunks[k] : k \in DOMAIN chunks} : End(c) > o}
  <2>1. /\ r.from \in Nat /\ r.to \in Nat /\ o <= r.from /\ r.from <= r.to
        /\ r.to <= r.from + MaxRead
        /\ r.to = o => o = produced
        /\ \A x \in r.from .. r.to - 1 : Carried(x, o)
        /\ \A k \in 1 .. Len(chunks) : End(chunks[k]) > o => r.from <= Most(chunks[k].from, o)
    BY <1>1, CollectKnown
  <2> HIDE DEF r
  <2>2. r.from >= o /\ r.to - r.from \in 0 .. MaxRead
    BY <1>1, <2>1
  <2>3. \A x \in r.from .. r.to - 1 :
           \E c \in ahead : x \in c.from .. End(c) - 1 /\ c.data[x - c.from + 1] = x
    BY <1>4, <2>1 DEF Carried
  <2>4. ASSUME NEW c \in ahead PROVE Most(c.from, o) >= r.from
    <3>1. PICK k \in 1 .. Len(chunks) : c = chunks[k] /\ End(chunks[k]) > o
      BY <1>4
    <3>2. r.from <= Most(c.from, o)
      BY <2>1, <3>1
    <3>3. Most(c.from, o) \in Nat
      <4>1. c.from \in Nat
        BY <1>4, <3>1, ChunkKnown
      <4>2. QED
        BY <4>1 DEF Most
    <3>4. QED
      BY <2>1, <3>2, <3>3
  <2>5. QED
    BY <2>1, <2>2, <2>3, <2>4 DEF r
<1>6. QED
  BY <1>2, <1>3, <1>5 DEF BufferExact, FaithfulReads

(* Readers get the bytes of the offsets they are told, and learn of what   *)
(* was lost; a read with nothing to return is at the end of the output;    *)
(* the budget is charged with the bytes the buffer holds and the slot is   *)
(* held while the session lives (append, evict, collect, finalize_close).  *)
THEOREM BufferStaysExact ==
  ASSUME TerminalConstantsOK
  PROVE  TerminalSpec => []BufferExact
<1>1. TerminalInit => TerminalIInv
  BY TerminalStarts
<1>2. TerminalIInv /\ [TerminalNext]_terminalVars => TerminalIInv'
  BY TerminalStepsHold
<1>3. TerminalIInv => BufferExact
  BY BufferIsExact
<1>4. QED
  BY <1>1, <1>2, <1>3, PTL DEF TerminalSpec

(* A terminal is a resource with a close barrier: no call of close returns *)
(* before the child is reaped and the PTY at its end, however the session  *)
(* came to its end and whoever else closes (async_close, try_finish).      *)
THEOREM TerminalBehindBarrier ==
  ASSUME TerminalConstantsOK
  PROVE  TerminalSpec => TerminalImplementsBarrier
<1>1. TerminalInit => TerminalIInv /\ TerminalBarrier!Init
  BY TerminalStarts
<1>2. TerminalIInv /\ [TerminalNext]_terminalVars
      => TerminalIInv' /\ [TerminalBarrier!Next]_(TerminalBarrier!vars)
  BY TerminalStepsHold DEF BarrierSteps
<1>3. QED
  BY <1>1, <1>2, PTL DEF TerminalSpec, TerminalImplementsBarrier, TerminalBarrier!Safety
=============================================================================
