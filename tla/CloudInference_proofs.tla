----------------------- MODULE CloudInference_proofs -----------------------
(***************************************************************************)
(* Proofs about cloud inference. First the rows of inference_sessions and  *)
(* their run log, for any number of rows, students, connections and API    *)
(* processes, every value of the caps and every lag between a call's clock *)
(* and its commit: SInv is the invariant of the rows and the log;          *)
(* WithinCap, that a student's rows of a day may all run to their limits,  *)
(* is the one of the daily cap. Then a run on the robot, for any length of *)
(* a chunk, any cadence, lag of the timer and limit: CloudInv, what the    *)
(* schedule holds between two ticks and where its observation is. Last the *)
(* inference server, for any threads, tokens, connections, models and      *)
(* times: ServerInv, where the requests of the GPU thread are, and since   *)
(* when a session that is over may still be served; CacheInv, who uses the *)
(* engines of the cache, who loads one and who waits in the queues.        *)
(***************************************************************************)
EXTENDS InferenceSession, CloudRun, InferenceServer, FiniteSetTheorems, WellFoundedInduction, TLAPS

-----------------------------------------------------------------------------
(* Sums over finite sets: the facts about SumFunctionOnSet that the cap    *)
(* needs, proved as for the hours of the ledger.                           *)

(* Every set of natural numbers has a least one.                           *)
LEMMA LeastNumber ==
    ASSUME NEW T, T \subseteq Nat, T # {}
    PROVE  \E n \in T : \A m \in T : n <= m
<1> DEFINE less == OpToRel(<, Nat)
<1>1. IsWellFoundedOn(less, Nat)
  BY NatLessThanWellFounded
<1>2. \E n \in T : \A m \in T : ~ (<<m, n>> \in less)
  <2> HIDE DEF less
  <2> QED
    BY <1>1, WFMin
<1>3. PICK n \in T : \A m \in T : <<m, n>> \notin less
  BY <1>2, Zenon
<1>4. ASSUME NEW m \in T PROVE n <= m
  <2>1. m \in Nat /\ n \in Nat
    BY Zenon
  <2>2. ~ (m < n)
    BY <1>3, <2>1, Zenon DEF OpToRel
  <2> QED
    BY <2>1, <2>2
<1> QED
  BY <1>4

(* Induction over the subsets of a finite set, with the property as a set. *)
LEMMA SubsetInduction ==
    ASSUME NEW S, IsFiniteSet(S), NEW P \in SUBSET SUBSET S,
           \A U \in SUBSET S : (\A V \in SUBSET U : V # U => V \in P) => U \in P
    PROVE  S \in P
<1> DEFINE bad == (SUBSET S) \ P
<1> DEFINE sizes == {Cardinality(U) : U \in bad}
<1> SUFFICES ASSUME bad # {} PROVE FALSE
  OBVIOUS
<1>1. \A U \in SUBSET S : IsFiniteSet(U) /\ Cardinality(U) \in Nat
  BY FS_Subset, FS_CardinalityType
<1>2. sizes \subseteq Nat /\ sizes # {}
  BY <1>1
<1>3. PICK n \in sizes : \A m \in sizes : n <= m
  <2> HIDE DEF sizes
  <2> QED
    BY <1>2, LeastNumber
<1>4. PICK U \in SUBSET S : U \notin P /\ n = Cardinality(U)
  OBVIOUS
<1>5. ASSUME NEW V \in SUBSET U, V # U PROVE V \in P
  <2>1. Cardinality(V) < Cardinality(U)
    BY <1>1, <1>5, FS_Subset
  <2>2. V \notin bad
    BY <1>1, <1>3, <1>4, <2>1
  <2> QED
    BY <2>2
<1> QED
  BY <1>4, <1>5

Total(f, S) == SumFunctionOnSet(f, S)

(* A sum as the recursive function the library defines it by.              *)
Pick(s) == CHOOSE x \in s : TRUE
Term(f, g, s) == IF s = {} THEN 0 ELSE f[Pick(s)] + g[s \ {Pick(s)}]
Adds(f, g, S) == g = [s \in SUBSET S |-> Term(f, g, s)]
Adder(f, S) == CHOOSE g : Adds(f, g, S)

LEMMA PickIn == ASSUME NEW s, s # {} PROVE Pick(s) \in s
BY DEF Pick

LEMMA TotalAdds == ASSUME NEW f, NEW S PROVE Total(f, S) = Adder(f, S)[S]
BY DEF Total, SumFunctionOnSet, FoldFunctionOnSet, MapThenFoldSet, Adder, Adds, Term, Pick

(* Two such functions agree where both are defined.                        *)
LEMMA AddsAgree ==
    ASSUME NEW f, NEW S, NEW T, NEW g, NEW h, Adds(f, g, S), Adds(f, h, T),
           NEW U \in (SUBSET S) \cap (SUBSET T), IsFiniteSet(U)
    PROVE  g[U] = h[U]
<1> DEFINE P == {V \in SUBSET U : g[V] = h[V]}
<1>1. ASSUME NEW V \in SUBSET U, \A W \in SUBSET V : W # V => W \in P
      PROVE  V \in P
  <2>0. V \in SUBSET S /\ V \in SUBSET T
    OBVIOUS
  <2>1. g[V] = Term(f, g, V) /\ h[V] = Term(f, h, V)
    BY <2>0, Zenon DEF Adds
  <2>2. CASE V = {}
    BY <2>1, <2>2 DEF Term
  <2>3. CASE V # {}
    <3>1. V \ {Pick(V)} \in P
      BY <1>1, <2>3, PickIn
    <3> QED
      BY <2>1, <2>3, <3>1 DEF Term
  <2> QED
    BY <2>2, <2>3
<1>2. U \in P
  <2> HIDE DEF P
  <2>1. P \in SUBSET SUBSET U
    BY DEF P
  <2> QED
    BY <1>1, <2>1, SubsetInduction
<1> QED
  BY <1>2

(* For a finite set there is one.                                          *)
LEMMA AddsExists ==
    ASSUME NEW f, NEW S, IsFiniteSet(S)
    PROVE  Adds(f, Adder(f, S), S)
<1> DEFINE P == {U \in SUBSET S : Adds(f, Adder(f, U), U)}
<1>1. ASSUME NEW U \in SUBSET S, \A V \in SUBSET U : V # U => V \in P
      PROVE  U \in P
  <2> DEFINE below == [V \in SUBSET U |-> Adder(f, V)[V]]
  <2> DEFINE g == [V \in SUBSET U |-> Term(f, below, V)]
  <2>1. ASSUME NEW V \in SUBSET U, V # U PROVE below[V] = g[V]
    <3>1. Adds(f, Adder(f, V), V)
      BY <1>1, <2>1
    <3>2. Adder(f, V)[V] = Term(f, Adder(f, V), V)
      BY <3>1 DEF Adds
    <3>3. CASE V = {}
      BY <3>2, <3>3 DEF Term
    <3>4. CASE V # {}
      <4> DEFINE W == V \ {Pick(V)}
      <4>1. W \in SUBSET V /\ W \in SUBSET U /\ W # U /\ W \in SUBSET S /\ IsFiniteSet(W)
        BY <2>1, <3>4, PickIn, FS_Subset
      <4>2. Adds(f, Adder(f, W), W)
        BY <1>1, <4>1
      <4>3. Adder(f, V)[W] = Adder(f, W)[W]
        <5>1. W \in (SUBSET V) \cap (SUBSET W)
          BY <4>1
        <5> HIDE DEF W
        <5> QED
          BY <3>1, <4>1, <4>2, <5>1, AddsAgree
      <4> QED
        BY <3>2, <3>4, <4>1, <4>3 DEF Term
    <3> QED
      BY <3>3, <3>4
  <2>2. ASSUME NEW V \in SUBSET U PROVE Term(f, below, V) = Term(f, g, V)
    <3>1. CASE V = {}
      BY <3>1 DEF Term
    <3>2. CASE V # {}
      <4>1. V \ {Pick(V)} \in SUBSET U /\ V \ {Pick(V)} # U
        BY <3>2, PickIn
      <4>2. below[V \ {Pick(V)}] = g[V \ {Pick(V)}]
        BY <2>1, <4>1
      <4> QED
        BY <3>2, <4>2 DEF Term
    <3> QED
      BY <3>1, <3>2
  <2>3. Adds(f, g, U)
    BY <2>2 DEF Adds
  <2>4. Adds(f, Adder(f, U), U)
    <3> HIDE DEF g
    <3> QED
      BY <2>3 DEF Adder
  <2> QED
    BY <2>4
<1>2. S \in P
  <2> HIDE DEF P
  <2>1. P \in SUBSET SUBSET S
    BY DEF P
  <2> QED
    BY <1>1, <2>1, SubsetInduction
<1> QED
  BY <1>2

LEMMA SumUnfold ==
    ASSUME NEW f, NEW S, IsFiniteSet(S)
    PROVE  /\ S = {} => Total(f, S) = 0
           /\ S # {} => Total(f, S) = f[Pick(S)] + Total(f, S \ {Pick(S)})
<1> DEFINE T == S \ {Pick(S)}
<1>0. Adds(f, Adder(f, S), S) /\ S \in SUBSET S
  BY AddsExists
<1>1. Total(f, S) = Term(f, Adder(f, S), S)
  BY <1>0, TotalAdds, Zenon DEF Adds
<1>2. IsFiniteSet(T) /\ T \in SUBSET S
  BY FS_Subset
<1>3. Adder(f, S)[T] = Adder(f, T)[T]
  <2> HIDE DEF T
  <2>1. T \in (SUBSET S) \cap (SUBSET T)
    BY <1>2, Zenon
  <2>2. Adds(f, Adder(f, T), T)
    BY <1>2, AddsExists
  <2> QED
    BY <1>0, <1>2, <2>1, <2>2, AddsAgree
<1>4. Adder(f, S)[T] = Total(f, T)
  BY <1>3, TotalAdds
<1> QED
  BY <1>1, <1>4 DEF Term

(* The sum over nothing is 0, one over integers an integer.                *)
LEMMA SumOfNone == ASSUME NEW f PROVE Total(f, {}) = 0
BY SumUnfold, FS_EmptySet

LEMMA SumType ==
    ASSUME NEW f, NEW S, IsFiniteSet(S), \A x \in S : f[x] \in Int
    PROVE  Total(f, S) \in Int
<1> DEFINE P == {U \in SUBSET S : Total(f, U) \in Int}
<1>1. ASSUME NEW U \in SUBSET S, \A V \in SUBSET U : V # U => V \in P
      PROVE  U \in P
  <2>1. IsFiniteSet(U)
    BY FS_Subset
  <2>2. CASE U = {}
    BY <2>2, SumOfNone
  <2>3. CASE U # {}
    <3>1. Pick(U) \in S /\ U \ {Pick(U)} \in P
      BY <1>1, <2>3, PickIn
    <3>2. f[Pick(U)] \in Int /\ Total(f, U \ {Pick(U)}) \in Int
      BY <3>1
    <3> QED
      BY <2>1, <2>3, <3>2, SumUnfold
  <2> QED
    BY <2>2, <2>3
<1>2. S \in P
  <2> HIDE DEF P
  <2>1. P \in SUBSET SUBSET S
    BY DEF P
  <2> QED
    BY <1>1, <2>1, SubsetInduction
<1> QED
  BY <1>2

(* Any element may be taken out of a sum first.                            *)
LEMMA SumRemove ==
    ASSUME NEW f, NEW S, IsFiniteSet(S), \A y \in S : f[y] \in Int, NEW x \in S
    PROVE  Total(f, S) = f[x] + Total(f, S \ {x})
<1> DEFINE P == {U \in SUBSET S : \A y \in U : Total(f, U) = f[y] + Total(f, U \ {y})}
<1>1. ASSUME NEW U \in SUBSET S, \A V \in SUBSET U : V # U => V \in P
      PROVE  U \in P
  <2>1. ASSUME NEW y \in U PROVE Total(f, U) = f[y] + Total(f, U \ {y})
    <3> DEFINE c == Pick(U)
    <3>1. c \in U /\ IsFiniteSet(U) /\ IsFiniteSet(U \ {c}) /\ IsFiniteSet(U \ {y})
      BY PickIn, FS_Subset
    <3>2. Total(f, U) = f[c] + Total(f, U \ {c})
      BY <3>1, SumUnfold
    <3>3. CASE y = c
      BY <3>2, <3>3
    <3>4. CASE y # c
      <4> DEFINE rest == (U \ {c}) \ {y}
      <4>1. U \ {c} \in P /\ U \ {y} \in P /\ y \in U \ {c} /\ c \in U \ {y}
        BY <1>1, <3>1, <3>4
      <4>2. Total(f, U \ {c}) = f[y] + Total(f, rest)
        BY <4>1
      <4>3. Total(f, U \ {y}) = f[c] + Total(f, (U \ {y}) \ {c})
        BY <4>1
      <4>4. (U \ {y}) \ {c} = rest
        OBVIOUS
      <4>5. f[c] \in Int /\ f[y] \in Int /\ Total(f, rest) \in Int
        <5>1. IsFiniteSet(rest) /\ rest \subseteq S
          BY <3>1, FS_Subset
        <5> QED
          BY <3>1, <5>1, SumType
      <4>6. Total(f, U \ {y}) = f[c] + Total(f, rest)
        BY <4>3, <4>4, Zenon
      <4> HIDE DEF rest, c
      <4> QED
        BY <3>2, <4>2, <4>5, <4>6
    <3> QED
      BY <3>3, <3>4
  <2> QED
    BY <2>1
<1>2. S \in P
  <2> HIDE DEF P
  <2>1. P \in SUBSET SUBSET S
    BY DEF P
  <2> QED
    BY <1>1, <2>1, SubsetInduction
<1> QED
  BY <1>2

LEMMA SumAdd ==
    ASSUME NEW f, NEW S, IsFiniteSet(S), NEW x, x \notin S, \A y \in S \cup {x} : f[y] \in Int
    PROVE  Total(f, S \cup {x}) = Total(f, S) + f[x]
<1>1. IsFiniteSet(S \cup {x}) /\ (S \cup {x}) \ {x} = S
  BY FS_AddElement
<1>2. Total(f, S \cup {x}) = f[x] + Total(f, S)
  BY <1>1, SumRemove
<1>3. f[x] \in Int /\ Total(f, S) \in Int
  BY SumType
<1> QED
  BY <1>2, <1>3

(* Smaller terms, a smaller sum.                                           *)
LEMMA SumAtMost ==
    ASSUME NEW f, NEW g, NEW S, IsFiniteSet(S),
           \A x \in S : f[x] \in Int /\ g[x] \in Int /\ f[x] <= g[x]
    PROVE  Total(f, S) <= Total(g, S)
<1> DEFINE P == {U \in SUBSET S : Total(f, U) <= Total(g, U)}
<1>1. ASSUME NEW U \in SUBSET S, \A V \in SUBSET U : V # U => V \in P
      PROVE  U \in P
  <2>1. IsFiniteSet(U)
    BY FS_Subset
  <2>2. CASE U = {}
    BY <2>2, SumOfNone
  <2>3. CASE U # {}
    <3>1. Pick(U) \in S /\ U \ {Pick(U)} \in P /\ IsFiniteSet(U \ {Pick(U)})
      BY <1>1, <2>1, <2>3, PickIn, FS_Subset
    <3>2. /\ Total(f, U \ {Pick(U)}) \in Int /\ Total(g, U \ {Pick(U)}) \in Int
      BY <3>1, SumType
    <3>3. /\ Total(f, U) = f[Pick(U)] + Total(f, U \ {Pick(U)})
          /\ Total(g, U) = g[Pick(U)] + Total(g, U \ {Pick(U)})
      BY <2>1, <2>3, SumUnfold
    <3> QED
      BY <3>1, <3>2, <3>3
  <2> QED
    BY <2>2, <2>3
<1>2. S \in P
  <2> HIDE DEF P
  <2>1. P \in SUBSET SUBSET S
    BY DEF P
  <2> QED
    BY <1>1, <2>1, SubsetInduction
<1> QED
  BY <1>2

-----------------------------------------------------------------------------
(* One row.                                                                *)

(* A row of the table: its types and CHECKs, the clock that started once,  *)
(* and the minute an armed row has left.                                   *)
RowOK(v) ==
    /\ v \in Row
    /\ Consistent(v)
    /\ v.connected # Never => v.maxEnd = v.connected + v.len
    /\ v.status = "reserved" /\ v.armed # Never => v.until >= v.armed + ArmS
    /\ v.reason = "never_connected" /\ v.armed # Never => v.ended >= v.armed + ArmS
    /\ v.status = "ended" <=> v.reason # ""
    /\ v.status = "none" => v.student = Nobody

(* What an end leaves as it is.                                            *)
SameEnd(v, n) ==
    v.status = "ended" =>
        /\ n.status = "ended" /\ n.ended = v.ended
        /\ n.reason = v.reason /\ n.active = v.active

(* A call on the row of v may end it and bill it, and no more than that    *)
(* matters for its student and its log.                                    *)
KeepsRow(v, n) ==
    /\ RowOK(n) /\ SameEnd(v, n)
    /\ n.student = v.student /\ n.logged = v.logged
    /\ n.created = v.created /\ n.len = v.len
    /\ v.status \notin Live => n.status \notin Live
    /\ v.status = "ended" => n.connected = v.connected

(* The parameters are natural numbers.                                     *)
LEMMA Params ==
    /\ SessionMax \in Nat /\ DailyCap \in Nat /\ MinLeft \in Nat \ {0}
    /\ ReserveS \in Nat /\ ArmS \in Nat /\ MaxTime \in Nat /\ Lag \in Nat /\ PageQuiet \in Nat
    /\ MinLeft <= SessionMax /\ Nobody \notin Students /\ Nobody \notin Conns
BY SessionAssumption

(* The instants of the rows, and the sums the calls store.                 *)
LEMMA TimesFacts ==
    /\ Times \subseteq Int /\ Never \in Times /\ Never \notin 0..MaxTime
    /\ \A t \in 0..MaxTime :
         /\ t \in Times /\ t + ReserveS \in Times /\ t + ArmS \in Times
         /\ \A l \in 0..SessionMax : t + l \in Times /\ t + l # Never
BY Params DEF Times, Never

(* The columns the clock is made of.                                       *)
LEMMA Fields ==
    ASSUME NEW v \in Row
    PROVE  /\ v.connected \in Int /\ v.maxEnd \in Int /\ v.armed \in Int /\ v.until \in Int
           /\ v.len \in 0..SessionMax /\ v.status \in Live \cup {"none", "ended"}
           /\ v.student \in Students \cup {Nobody}
<1>1. /\ v.connected \in Times /\ v.maxEnd \in Times /\ v.armed \in Times /\ v.until \in Times
      /\ v.len \in 0..SessionMax /\ v.status \in Live \cup {"none", "ended"}
      /\ v.student \in Students \cup {Nobody}
  BY DEF Row
<1> QED
  BY <1>1, TimesFacts

(* A run is billed at most its length.                                     *)
LEMMA RunToType ==
    ASSUME NEW v, RowOK(v), NEW t \in 0..MaxTime PROVE RunTo(v, t) \in 0..SessionMax
<1>1. v \in Row /\ (v.connected # Never => v.maxEnd = v.connected + v.len)
  BY DEF RowOK
<1>2. v.connected \in Int /\ v.maxEnd \in Int /\ v.len \in 0..SessionMax
  BY <1>1, Fields
<1> QED
  BY <1>1, <1>2, Params DEF RunTo, Least, Greatest

Reasons == {"never_connected", "expired", "client_gone", "superseded", "server_gone", "robot", "stop"}

(* An end writes a legal row and is the only end the row gets.             *)
LEMMA FinishedKeeps ==
    ASSUME NEW v, RowOK(v), NEW t \in 0..MaxTime, NEW why \in Reasons,
           why = "never_connected" => v.status = "reserved" /\ t >= v.until
    PROVE  KeepsRow(v, Finished(v, why, t)) /\ Finished(v, why, t).status \notin Live
<1> DEFINE n == Finished(v, why, t)
<1>0. v \in Row
  BY DEF RowOK
<1>1. CASE v.status \notin Live
  BY <1>1 DEF Finished, KeepsRow, SameEnd
<1>2. CASE v.status \in Live
  <2>1. n = [v EXCEPT !.status = "ended", !.ended = t, !.reason = why, !.active = RunTo(v, t),
                      !.conn = Nobody, !.until = Never, !.serverBeat = Never, !.pageBeat = Never]
    BY <1>2 DEF Finished
  <2>2. t \in Times /\ Never \in Times /\ RunTo(v, t) \in 0..SessionMax
    BY RunToType, TimesFacts
  <2> HIDE DEF n
  <2>3. n \in Row
    BY <1>0, <2>1, <2>2 DEF Row, Reasons
  <2>4. /\ n.status = "ended" /\ n.ended = t /\ n.reason = why
        /\ n.connected = v.connected /\ n.maxEnd = v.maxEnd /\ n.len = v.len
        /\ n.armed = v.armed /\ n.student = v.student /\ n.logged = v.logged
        /\ n.created = v.created
    BY <1>0, <2>1 DEF Row
  <2>5. Consistent(n)
    <3>1. t # Never /\ why # ""
      BY TimesFacts DEF Reasons
    <3>2. v.connected = Never <=> v.maxEnd = Never
      BY DEF RowOK, Consistent
    <3> QED
      BY <2>4, <3>1, <3>2 DEF Consistent
  <2>6. why = "never_connected" /\ v.armed # Never => t >= v.armed + ArmS
    <3>1. v.until \in Int /\ v.armed \in Int
      BY <1>0, Fields
    <3>2. v.status = "reserved" /\ v.armed # Never => v.until >= v.armed + ArmS
      BY DEF RowOK
    <3> QED
      BY <3>1, <3>2, Params
  <2>7. n.connected # Never => n.maxEnd = n.connected + n.len
    BY <2>4 DEF RowOK
  <2>8. RowOK(n)
    BY <2>3, <2>4, <2>5, <2>6, <2>7 DEF RowOK, Reasons
  <2>9. v.status # "ended" /\ n.status \notin Live
    BY <1>2, <2>4 DEF Live
  <2> QED
    BY <1>2, <2>4, <2>8, <2>9 DEF KeepsRow, SameEnd, n
<1> QED
  BY <1>1, <1>2

(* So does a limit, when the row is past one.                              *)
LEMMA ExpiredKeeps ==
    ASSUME NEW v, RowOK(v), NEW t \in 0..MaxTime
    PROVE  /\ KeepsRow(v, Expired(v, t))
           /\ Due(v, t) => Expired(v, t).status \notin Live
<1>1. CASE ~Due(v, t)
  BY <1>1 DEF Expired, KeepsRow, SameEnd
<1>2. CASE Due(v, t)
  <2>1. /\ Limit(v, t) \in Reasons
        /\ Limit(v, t) = "never_connected" => v.status = "reserved" /\ t >= v.until
    BY <1>2 DEF Due, Limit, Reasons
  <2> QED
    BY <1>2, <2>1, FinishedKeeps DEF Expired
<1> QED
  BY <1>1, <1>2

LEMMA NoRowOK == RowOK(NoRow)
<1>1. NoRow \in Row
  BY TimesFacts, Params DEF NoRow, Row
<1> QED
  BY <1>1 DEF RowOK, NoRow, Consistent, Live

-----------------------------------------------------------------------------
(* The calls on one row.                                                   *)

LEMMA KeepsTrans ==
    ASSUME NEW v, NEW m, NEW n, KeepsRow(v, m), KeepsRow(m, n) PROVE KeepsRow(v, n)
BY DEF KeepsRow, SameEnd

LEMMA AttachKeeps ==
    ASSUME NEW v, RowOK(v), NEW t \in 0..MaxTime
    PROVE  KeepsRow(v, Expired([v EXCEPT !.attached = t], t))
<1> DEFINE n == [v EXCEPT !.attached = t]
<1>1. v \in Row /\ t \in Times /\ t # Never
  BY TimesFacts DEF RowOK
<1>2. n \in Row
  BY <1>1 DEF Row
<1>3. /\ n.status = v.status /\ n.student = v.student /\ n.len = v.len /\ n.attached = t
      /\ n.armed = v.armed /\ n.until = v.until /\ n.connected = v.connected
      /\ n.maxEnd = v.maxEnd /\ n.ended = v.ended /\ n.reason = v.reason
      /\ n.active = v.active /\ n.logged = v.logged /\ n.created = v.created
  BY <1>1 DEF Row
<1> HIDE DEF n
<1>4. RowOK(n)
  BY <1>1, <1>2, <1>3 DEF RowOK, Consistent
<1>5. KeepsRow(v, n)
  BY <1>3, <1>4 DEF KeepsRow, SameEnd
<1> QED
  BY <1>4, <1>5, ExpiredKeeps, KeepsTrans DEF n

LEMMA ArmKeeps ==
    ASSUME NEW v, RowOK(v), NEW t \in 0..MaxTime, v.status = "reserved"
    PROVE  KeepsRow(v, [v EXCEPT !.armed = t, !.pageBeat = t, !.until = ArmUntil(v, t)])
<1> DEFINE n == [v EXCEPT !.armed = t, !.pageBeat = t, !.until = ArmUntil(v, t)]
<1>1. v \in Row /\ v.until \in Times
  BY DEF RowOK, Row
<1>2. /\ ArmUntil(v, t) \in Times /\ ArmUntil(v, t) >= t + ArmS
      /\ t \in Times
  <2>1. /\ v.until \in Int /\ t + ArmS \in Int
        /\ t \in Times /\ t + ArmS \in Times
    BY <1>1, TimesFacts
  <2> QED
    BY <1>1, <2>1 DEF ArmUntil, Greatest
<1>3. n \in Row
  BY <1>1, <1>2 DEF Row
<1>4. /\ n.status = v.status /\ n.student = v.student /\ n.len = v.len /\ n.attached = v.attached
      /\ n.armed = t /\ n.until = ArmUntil(v, t) /\ n.connected = v.connected
      /\ n.maxEnd = v.maxEnd /\ n.ended = v.ended /\ n.reason = v.reason
      /\ n.active = v.active /\ n.logged = v.logged /\ n.created = v.created
  BY <1>1 DEF Row
<1> HIDE DEF n
<1>5. RowOK(n)
  BY <1>2, <1>3, <1>4 DEF RowOK, Consistent
<1>6. v.status \in Live /\ v.status # "ended"
  BY DEF Live
<1> QED
  BY <1>4, <1>5, <1>6 DEF KeepsRow, SameEnd, n

LEMMA ConnectKeeps ==
    ASSUME NEW v, RowOK(v), NEW t \in 0..MaxTime, NEW c \in Conns, Connectable(v, t)
    PROVE  KeepsRow(v, [v EXCEPT !.status = "active", !.conn = c, !.serverBeat = t,
                                 !.connected = IF @ = Never THEN t ELSE @, !.maxEnd = Clock(v, t)])
<1> DEFINE start == IF v.connected = Never THEN t ELSE v.connected
           n == [v EXCEPT !.status = "active", !.conn = c, !.serverBeat = t,
                          !.connected = IF @ = Never THEN t ELSE @, !.maxEnd = Clock(v, t)]
<1>1. /\ v \in Row /\ v.connected \in Times /\ v.maxEnd \in Times /\ v.len \in 0..SessionMax
      /\ v.attached # Never /\ v.status \in Live
  BY DEF RowOK, Row, Connectable
<1>2. /\ t \in Times /\ t # Never /\ start \in Times /\ start # Never
      /\ Clock(v, t) \in Times /\ Clock(v, t) # Never
  BY <1>1, TimesFacts DEF Clock
<1>3. Clock(v, t) = start + v.len
  BY <1>1 DEF Clock, RowOK, Consistent
<1>4. n = [v EXCEPT !.status = "active", !.conn = c, !.serverBeat = t,
                    !.connected = start, !.maxEnd = Clock(v, t)]
  OBVIOUS
<1> HIDE DEF start, n
<1>5. n \in Row
  BY <1>1, <1>2, <1>4 DEF Row, Live
<1>6. /\ n.status = "active" /\ n.student = v.student /\ n.len = v.len /\ n.attached = v.attached
      /\ n.armed = v.armed /\ n.until = v.until /\ n.connected = start
      /\ n.maxEnd = Clock(v, t) /\ n.ended = v.ended /\ n.reason = v.reason
      /\ n.active = v.active /\ n.logged = v.logged /\ n.created = v.created
  BY <1>1, <1>4 DEF Row
<1>7. v.status # "ended" /\ v.reason = ""
  BY <1>1 DEF RowOK, Live
<1>8. RowOK(n)
  BY <1>1, <1>2, <1>3, <1>5, <1>6, <1>7 DEF RowOK, Consistent
<1> QED
  BY <1>1, <1>6, <1>7, <1>8 DEF KeepsRow, SameEnd, n

(* A heartbeat writes one time stamp.                                      *)
LEMMA BeatKeeps ==
    ASSUME NEW v, RowOK(v), NEW t \in 0..MaxTime
    PROVE  /\ KeepsRow(v, [v EXCEPT !.serverBeat = t])
           /\ KeepsRow(v, [v EXCEPT !.pageBeat = t])
<1> SUFFICES ASSUME NEW n, n = [v EXCEPT !.serverBeat = t] \/ n = [v EXCEPT !.pageBeat = t]
             PROVE  KeepsRow(v, n)
  OBVIOUS
<1>1. v \in Row /\ t \in Times
  BY TimesFacts DEF RowOK
<1>2. n \in Row
  BY <1>1 DEF Row
<1>3. /\ n.status = v.status /\ n.student = v.student /\ n.len = v.len /\ n.attached = v.attached
      /\ n.armed = v.armed /\ n.until = v.until /\ n.connected = v.connected
      /\ n.maxEnd = v.maxEnd /\ n.ended = v.ended /\ n.reason = v.reason
      /\ n.active = v.active /\ n.logged = v.logged /\ n.created = v.created
  BY <1>1 DEF Row
<1>4. RowOK(n)
  BY <1>2, <1>3 DEF RowOK, Consistent
<1> QED
  BY <1>3, <1>4 DEF KeepsRow, SameEnd

-----------------------------------------------------------------------------
(* The invariant.                                                          *)

(* What a logger holds: rows it read as ended; rows it marked itself, so   *)
(* that no other logger has them, and has not yet inserted.                *)
LogOK ==
    /\ \A s \in Sessions : runs[s] \in 0..1
    /\ \A s \in Sessions : runs[s] # 0 =>
         row[s].logged /\ row[s].status = "ended" /\ row[s].connected # Never
    /\ \A w \in Loggers : \A s \in pass[w].ids : row[s].status = "ended"
    /\ \A w \in Loggers : \A s \in pass[w].marked :
         /\ row[s].status = "ended" /\ row[s].logged /\ runs[s] = 0
         /\ \A x \in Loggers \ {w} : s \notin pass[x].marked

Typed ==
    /\ now \in 0..MaxTime
    /\ row \in [Sessions -> Row]
    /\ pass \in [Loggers -> [ids : SUBSET Sessions, marked : SUBSET Sessions]]
    /\ runs \in [Sessions -> Nat]

RowsOK == \A s \in Sessions : RowOK(row[s])

SInv == Typed /\ RowsOK /\ OneLivePerStudent /\ LogOK

(* No step changes an end.                                                 *)
KeepsEnds == \A s \in Sessions : SameEnd(row[s], row'[s])

LEMMA StartsType == ASSUME SInv, NEW t \in Starts PROVE t \in 0..MaxTime
<1>1. now \in 0..MaxTime
  BY DEF SInv, Typed
<1> QED
  BY <1>1, Params DEF Starts, Greatest

LEMMA InitInv == Init => SInv
<1> SUFFICES ASSUME Init PROVE SInv
  OBVIOUS
<1>1. NoRow \in Row /\ NoRow.status \notin Live
  BY NoRowOK DEF RowOK, NoRow, Live
<1>2. Typed
  BY <1>1, Params DEF Init, Typed
<1>3. RowsOK /\ OneLivePerStudent
  BY <1>1, NoRowOK DEF Init, RowsOK, OneLivePerStudent
<1>4. LogOK
  BY DEF Init, LogOK
<1> QED
  BY <1>2, <1>3, <1>4 DEF SInv

(* A call that keeps its row keeps the invariant.                          *)
LEMMA WriteKeeps ==
    ASSUME SInv, NEW s \in Sessions, NEW n, KeepsRow(row[s], n), Writes(s, n)
    PROVE  SInv' /\ KeepsEnds
<1>1. /\ row \in [Sessions -> Row] /\ n \in Row
      /\ row' = [row EXCEPT ![s] = n] /\ UNCHANGED <<now, pass, runs>>
  BY DEF SInv, Typed, Writes, KeepsRow, RowOK
<1>2. row'[s] = n /\ \A q \in Sessions \ {s} : row'[q] = row[q]
  BY <1>1
<1>3. Typed'
  BY <1>1 DEF SInv, Typed
<1>4. RowsOK'
  BY <1>2 DEF SInv, RowsOK, KeepsRow
<1>5. OneLivePerStudent'
  BY <1>2 DEF SInv, OneLivePerStudent, KeepsRow
<1>6. \A q \in Sessions :
        /\ row'[q].logged = row[q].logged
        /\ row[q].status = "ended" => row'[q].status = "ended" /\ row'[q].connected = row[q].connected
  BY <1>2 DEF KeepsRow, SameEnd
<1>7. LogOK'
  <2>1. LogOK /\ Typed
    BY DEF SInv
  <2> QED
    BY <1>1, <1>6, <2>1 DEF LogOK, Typed
<1>8. KeepsEnds
  BY <1>2 DEF KeepsEnds, KeepsRow, SameEnd
<1> QED
  BY <1>3, <1>4, <1>5, <1>7, <1>8 DEF SInv

(* A call on a known row.                                                  *)
CallOn(s, t) ==
    \/ Attach(s, t) \/ Arm(s, t) \/ Peek(s, t)
    \/ PageHeartbeat(s, t) \/ PageEnds(s, t) \/ Sweep(s, t)
    \/ \E c \in Conns : Connect(s, c, t) \/ ServerHeartbeat(s, c, t) \/ RobotEnds(s, c, t)

(* Every such call keeps its row.                                          *)
LEMMA CallWrites ==
    ASSUME SInv, NEW t \in Starts, NEW s \in Sessions, CallOn(s, t)
    PROVE  \E n : KeepsRow(row[s], n) /\ Writes(s, n)
<1> DEFINE v == row[s]
<1>1. RowOK(v) /\ t \in 0..MaxTime
  BY StartsType DEF SInv, RowsOK
<1>2. \A why \in Reasons \ {"never_connected"} : KeepsRow(v, Finished(v, why, t))
  BY <1>1, FinishedKeeps
<1>3. KeepsRow(v, Expired(v, t))
  BY <1>1, ExpiredKeeps
<1>4. CASE Attach(s, t)
  BY <1>1, <1>4, AttachKeeps DEF Attach
<1>5. CASE Arm(s, t)
  BY <1>1, <1>3, <1>5, ArmKeeps DEF Arm
<1>6. CASE Peek(s, t)
  BY <1>3, <1>6 DEF Peek
<1>7. CASE PageHeartbeat(s, t)
  BY <1>1, <1>3, <1>7, BeatKeeps DEF PageHeartbeat
<1>8. CASE PageEnds(s, t)
  BY <1>2, <1>8 DEF PageEnds, Reasons
<1>9. CASE Sweep(s, t)
  BY <1>2, <1>3, <1>9 DEF Sweep, Reasons
<1>10. ASSUME NEW c \in Conns, Connect(s, c, t) \/ ServerHeartbeat(s, c, t) \/ RobotEnds(s, c, t)
       PROVE  \E n : KeepsRow(v, n) /\ Writes(s, n)
  <2>1. CASE Connect(s, c, t)
    BY <1>1, <1>3, <2>1, ConnectKeeps DEF Connect
  <2>2. CASE ServerHeartbeat(s, c, t)
    BY <1>1, <2>2, BeatKeeps DEF ServerHeartbeat
  <2>3. CASE RobotEnds(s, c, t)
    BY <1>2, <2>3 DEF RobotEnds, Reasons
  <2> QED
    BY <1>10, <2>1, <2>2, <2>3
<1> QED
  BY <1>4, <1>5, <1>6, <1>7, <1>8, <1>9, <1>10 DEF CallOn

LEMMA CallKeeps ==
    ASSUME SInv, NEW t \in Starts, NEW s \in Sessions, CallOn(s, t)
    PROVE  SInv' /\ KeepsEnds
BY CallWrites, WriteKeeps

(* A student's new row ends the old one first.                             *)
LEMMA CreateKeeps ==
    ASSUME SInv, NEW t \in Starts, NEW s \in Sessions, NEW u \in Students, Create(u, s, t)
    PROVE  SInv' /\ KeepsEnds
<1> DEFINE new == [NoRow EXCEPT !.status = "reserved", !.student = u, !.created = t,
                                !.until = t + ReserveS, !.pageBeat = t,
                                !.len = Least(SessionMax, Remaining(u, t))]
<1>1. t \in 0..MaxTime /\ row[s].status = "none"
  BY StartsType DEF Create
<1>2. Least(SessionMax, Remaining(u, t)) \in 0..SessionMax
  BY Params DEF Create, Least
<1>3. NoRow \in Row /\ t \in Times /\ t + ReserveS \in Times
  BY <1>1, NoRowOK, TimesFacts DEF RowOK
<1>4. new \in Row
  BY <1>2, <1>3 DEF Row, Live
<1>5. /\ new.status = "reserved" /\ new.student = u /\ new.logged = FALSE
      /\ new.connected = Never /\ new.maxEnd = Never /\ new.armed = Never
      /\ new.ended = Never /\ new.reason = ""
  BY DEF NoRow
<1> HIDE DEF new
<1>6. RowOK(new)
  BY <1>4, <1>5 DEF RowOK, Consistent
<1>7. /\ row' = [q \in Sessions |->
             CASE q = s -> new
               [] Supersedes(u, row[q]) -> Finished(row[q], "superseded", t)
               [] OTHER -> row[q]]
      /\ UNCHANGED <<now, pass, runs>>
  BY DEF Create, new
<1>8. row'[s] = new
  <2>1. row[s].student # u
    BY <1>1, Params DEF SInv, RowsOK, RowOK
  <2> QED
    BY <1>7, <2>1 DEF Supersedes
<1>9. ASSUME NEW q \in Sessions \ {s}
      PROVE  /\ KeepsRow(row[q], row'[q])
             /\ row'[q].status \in Live => row'[q].student # u
  <2>1. RowOK(row[q])
    BY DEF SInv, RowsOK
  <2>2. CASE row[q].student = u
    <3>1. row'[q] = Finished(row[q], "superseded", t)
      BY <1>7, <2>2 DEF Supersedes
    <3> QED
      BY <1>1, <2>1, <3>1, FinishedKeeps DEF Reasons
  <2>3. CASE row[q].student # u
    <3>1. row'[q] = row[q]
      BY <1>7, <2>3 DEF Supersedes
    <3> QED
      BY <2>1, <2>3, <3>1 DEF KeepsRow, SameEnd
  <2> QED
    BY <2>2, <2>3
<1>10. \A q \in Sessions : RowOK(row'[q])
  BY <1>6, <1>8, <1>9 DEF KeepsRow
<1>11. RowsOK'
  BY <1>10 DEF RowsOK
<1>12. Typed'
  <2>1. row' \in [Sessions -> Row]
    BY <1>7, <1>10 DEF RowOK
  <2> QED
    BY <1>7, <2>1 DEF SInv, Typed
<1>13. OneLivePerStudent'
  <2>1. \A q, r \in Sessions \ {s} :
          q # r /\ row'[q].status \in Live /\ row'[r].status \in Live
            => row'[q].student # row'[r].student
    BY <1>9 DEF SInv, OneLivePerStudent, KeepsRow
  <2> QED
    BY <1>5, <1>8, <1>9, <2>1 DEF OneLivePerStudent
<1>14. LogOK'
  <2>1. LogOK /\ Typed
    BY DEF SInv
  <2>2. runs[s] = 0 /\ \A w \in Loggers : s \notin pass[w].ids /\ s \notin pass[w].marked
    BY <1>1, <2>1 DEF LogOK, Typed
  <2>3. \A q \in Sessions \ {s} :
          /\ row'[q].logged = row[q].logged
          /\ row[q].status = "ended" => row'[q].status = "ended" /\ row'[q].connected = row[q].connected
    BY <1>9 DEF KeepsRow, SameEnd
  <2> QED
    BY <1>7, <2>1, <2>2, <2>3 DEF LogOK, Typed
<1>15. KeepsEnds
  BY <1>1, <1>9 DEF KeepsEnds, KeepsRow, SameEnd
<1> QED
  BY <1>11, <1>12, <1>13, <1>14, <1>15 DEF SInv

(* Reading, marking and inserting, with what is lost between them.         *)
LEMMA LoggerKeeps ==
    ASSUME SInv, NEW w \in Loggers, LogRead(w) \/ LogMark(w) \/ LogInsert(w) \/ LogLost(w)
    PROVE  SInv' /\ KeepsEnds
<1>1. Typed /\ LogOK /\ RowsOK /\ OneLivePerStudent
  BY DEF SInv
<1>2. CASE LogRead(w)
  <2>1. /\ pass' = [pass EXCEPT ![w].ids = {s \in Sessions : Unlogged(s)}]
        /\ UNCHANGED <<now, row, runs>>
    BY <1>2 DEF LogRead
  <2>2. Typed'
    BY <1>1, <2>1 DEF Typed
  <2>3. /\ pass'[w].ids = {s \in Sessions : Unlogged(s)}
        /\ \A x \in Loggers : pass'[x].marked = pass[x].marked
        /\ \A x \in Loggers \ {w} : pass'[x].ids = pass[x].ids
    BY <1>1, <2>1 DEF Typed
  <2>4. LogOK'
    BY <1>1, <2>1, <2>3 DEF LogOK, Unlogged
  <2> QED
    BY <1>1, <2>1, <2>2, <2>4 DEF SInv, RowsOK, OneLivePerStudent, KeepsEnds, SameEnd
<1>3. CASE LogMark(w)
  <2>1. /\ pass' = [pass EXCEPT ![w] = [ids |-> {}, marked |-> Marks(w)]]
        /\ row' = [s \in Sessions |-> IF s \in Marks(w) THEN [row[s] EXCEPT !.logged = TRUE]
                                       ELSE row[s]]
        /\ UNCHANGED <<now, runs>>
    BY <1>3 DEF LogMark
  <2>2. \A s \in Marks(w) : s \in Sessions /\ ~row[s].logged /\ row[s].status = "ended"
    BY <1>1 DEF Marks, Typed, LogOK
  <2>3. ASSUME NEW s \in Sessions
        PROVE  /\ RowOK(row'[s]) /\ SameEnd(row[s], row'[s])
               /\ row'[s].status = row[s].status /\ row'[s].student = row[s].student
               /\ row'[s].connected = row[s].connected
               /\ row'[s].logged = (s \in Marks(w) \/ row[s].logged)
    <3>1. RowOK(row[s]) /\ row[s] \in Row
      BY <1>1 DEF RowsOK, RowOK
    <3>2. CASE s \notin Marks(w)
      <4>1. row'[s] = row[s]
        BY <2>1, <3>2
      <4>2. row[s].logged \in BOOLEAN
        BY <3>1 DEF Row
      <4> QED
        BY <3>1, <3>2, <4>1, <4>2 DEF SameEnd
    <3>3. CASE s \in Marks(w)
      <4> DEFINE v == row[s]
                 n == [v EXCEPT !.logged = TRUE]
      <4>1. row'[s] = n
        BY <2>1, <3>3
      <4>2. n \in Row
        BY <3>1 DEF Row
      <4>3. /\ n.status = v.status /\ n.student = v.student /\ n.len = v.len
            /\ n.attached = v.attached /\ n.armed = v.armed /\ n.until = v.until
            /\ n.connected = v.connected /\ n.maxEnd = v.maxEnd /\ n.ended = v.ended
            /\ n.reason = v.reason /\ n.active = v.active /\ n.logged = TRUE
        BY <3>1 DEF Row
      <4> HIDE DEF n
      <4>4. RowOK(n)
        BY <3>1, <4>2, <4>3 DEF RowOK, Consistent
      <4> QED
        BY <3>3, <4>1, <4>3, <4>4 DEF SameEnd
    <3> QED
      BY <3>2, <3>3
  <2>4. Typed'
    <3>1. row' \in [Sessions -> Row]
      BY <2>1, <2>3 DEF RowOK
    <3>2. pass' \in [Loggers -> [ids : SUBSET Sessions, marked : SUBSET Sessions]]
      BY <1>1, <2>1, <2>2 DEF Typed
    <3> QED
      BY <1>1, <2>1, <3>1, <3>2 DEF Typed
  <2>5. /\ pass'[w].ids = {} /\ pass'[w].marked = Marks(w)
        /\ \A x \in Loggers \ {w} : pass'[x] = pass[x]
    BY <1>1, <2>1 DEF Typed
  <2>6. \A s \in Marks(w) : runs[s] = 0 /\ \A x \in Loggers : s \notin pass[x].marked
    BY <1>1, <2>2 DEF LogOK
  <2>7. LogOK'
    <3>1. \A x \in Loggers : \A s \in pass[x].ids \cup pass[x].marked : s \in Sessions
      BY <1>1 DEF Typed
    <3>2. \A s \in Sessions : runs'[s] # 0 =>
            row'[s].logged /\ row'[s].status = "ended" /\ row'[s].connected # Never
      BY <1>1, <2>1, <2>3 DEF LogOK
    <3>3. \A x \in Loggers : \A s \in pass'[x].ids : row'[s].status = "ended"
      BY <1>1, <2>3, <2>5, <3>1 DEF LogOK
    <3>4. ASSUME NEW x \in Loggers, NEW s \in pass'[x].marked
          PROVE  /\ row'[s].status = "ended" /\ row'[s].logged /\ runs'[s] = 0
                 /\ \A y \in Loggers \ {x} : s \notin pass'[y].marked
      <4>1. CASE x = w
        BY <2>1, <2>2, <2>3, <2>5, <2>6, <4>1
      <4>2. CASE x # w
        <5>1. /\ s \in pass[x].marked /\ s \in Sessions
              /\ row[s].status = "ended" /\ row[s].logged /\ runs[s] = 0
              /\ \A y \in Loggers \ {x} : s \notin pass[y].marked
          BY <1>1, <2>5, <3>1, <3>4, <4>2 DEF LogOK
        <5> QED
          BY <2>1, <2>2, <2>3, <2>5, <5>1
      <4> QED
        BY <4>1, <4>2
    <3> QED
      BY <1>1, <2>1, <3>2, <3>3, <3>4 DEF LogOK
  <2> QED
    BY <1>1, <2>3, <2>4, <2>7 DEF SInv, RowsOK, OneLivePerStudent, KeepsEnds
<1>4. CASE LogInsert(w)
  <2>1. /\ runs' = [s \in Sessions |-> IF s \in pass[w].marked /\ row[s].connected # Never
                                       THEN runs[s] + 1 ELSE runs[s]]
        /\ pass' = [pass EXCEPT ![w].marked = {}]
        /\ UNCHANGED <<now, row>>
    BY <1>4 DEF LogInsert
  <2>2. /\ pass'[w].marked = {} /\ \A x \in Loggers : pass'[x].ids = pass[x].ids
        /\ \A x \in Loggers \ {w} : pass'[x].marked = pass[x].marked
    BY <1>1, <2>1 DEF Typed
  <2>3. \A s \in pass[w].marked :
          /\ s \in Sessions /\ runs[s] = 0 /\ row[s].status = "ended" /\ row[s].logged
          /\ \A x \in Loggers \ {w} : s \notin pass[x].marked
    BY <1>1 DEF Typed, LogOK
  <2>4. \A s \in Sessions :
          /\ s \notin pass[w].marked => runs'[s] = runs[s]
          /\ s \in pass[w].marked => runs'[s] \in 0..1 /\ (runs'[s] # 0 => row[s].connected # Never)
    BY <2>1, <2>3
  <2>5. Typed'
    <3>1. \A s \in Sessions : runs'[s] \in Nat
      BY <1>1, <2>4 DEF Typed
    <3> QED
      BY <1>1, <2>1, <3>1 DEF Typed
  <2>6. \A x \in Loggers : \A s \in pass[x].marked : s \in Sessions
    BY <1>1 DEF Typed
  <2>7. LogOK'
    BY <1>1, <2>1, <2>2, <2>3, <2>4, <2>6 DEF LogOK
  <2> QED
    BY <1>1, <2>1, <2>5, <2>7 DEF SInv, RowsOK, OneLivePerStudent, KeepsEnds, SameEnd
<1>5. CASE LogLost(w)
  <2>1. pass' = [pass EXCEPT ![w] = [ids |-> {}, marked |-> {}]] /\ UNCHANGED <<now, row, runs>>
    BY <1>5 DEF LogLost
  <2>2. Typed'
    BY <1>1, <2>1 DEF Typed
  <2>3. /\ pass'[w].ids = {} /\ pass'[w].marked = {}
        /\ \A x \in Loggers \ {w} : pass'[x] = pass[x]
    BY <1>1, <2>1 DEF Typed
  <2>4. LogOK'
    BY <1>1, <2>1, <2>3 DEF LogOK
  <2> QED
    BY <1>1, <2>1, <2>2, <2>4 DEF SInv, RowsOK, OneLivePerStudent, KeepsEnds, SameEnd
<1> QED
  BY <1>2, <1>3, <1>4, <1>5

(* Every step of the database and of the loggers.                          *)
LEMMA StepKeeps == ASSUME SInv, [Next]_vars PROVE SInv' /\ KeepsEnds
<1>1. CASE UNCHANGED vars
  BY <1>1 DEF vars, SInv, Typed, RowsOK, OneLivePerStudent, LogOK, KeepsEnds, SameEnd
<1>2. CASE Tick
  <2>1. now' \in 0..MaxTime /\ UNCHANGED <<row, pass, runs>>
    BY <1>2, Params DEF Tick, SInv, Typed
  <2> QED
    BY <2>1 DEF SInv, Typed, RowsOK, OneLivePerStudent, LogOK, KeepsEnds, SameEnd
<1> QED
  BY <1>1, <1>2, CallKeeps, CreateKeeps, LoggerKeeps DEF Next, CallOn

-----------------------------------------------------------------------------
(* The daily cap.                                                          *)

(* What a row may still come to: its length, once it ended what it ran.    *)
Cost(v) == IF v.status = "ended" THEN RunTo(v, v.ended) ELSE v.len
Costs == [s \in Sessions |-> Cost(row[s])]

(* A student's rows of a day may all run to their limits.                  *)
WithinCap == \A u \in Students, d \in Nat : Total(Costs, CreatedOn(u, d)) <= DailyCap

LEMMA RunAtMost ==
    ASSUME NEW v, RowOK(v), NEW t \in Int
    PROVE  RunTo(v, t) \in Int /\ 0 <= RunTo(v, t) /\ RunTo(v, t) <= v.len /\ v.len \in Nat
<1>1. v \in Row /\ (v.connected # Never => v.maxEnd = v.connected + v.len)
  BY DEF RowOK
<1>2. v.connected \in Int /\ v.maxEnd \in Int /\ v.len \in 0..SessionMax
  BY <1>1, Fields
<1> QED
  BY <1>1, <1>2, Params DEF RunTo, Least, Greatest

LEMMA CostType == ASSUME NEW v, RowOK(v) PROVE Cost(v) \in Nat /\ Cost(v) <= v.len
<1>1. v.ended \in Int
  BY TimesFacts DEF RowOK, Row
<1> QED
  BY <1>1, RunAtMost DEF Cost

(* No call makes a row dearer.                                             *)
LEMMA KeepsCost ==
    ASSUME NEW v, NEW n, RowOK(v), KeepsRow(v, n)
    PROVE  Cost(n) <= Cost(v)
<1>1. RowOK(n) /\ n.len = v.len
  BY DEF KeepsRow
<1>2. CASE v.status # "ended"
  BY <1>1, <1>2, CostType DEF Cost
<1>3. CASE v.status = "ended"
  <2>1. n.status = "ended" /\ n.ended = v.ended /\ n.connected = v.connected
    BY <1>3 DEF KeepsRow, SameEnd
  <2>2. v.connected # Never => n.maxEnd = v.maxEnd
    BY <1>1, <2>1 DEF RowOK
  <2>3. Cost(n) = Cost(v)
    BY <1>3, <2>1, <2>2 DEF Cost, RunTo
  <2> QED
    BY <2>3, CostType
<1> QED
  BY <1>2, <1>3

LEMMA DaysFinite ==
    ASSUME NEW u, NEW d PROVE IsFiniteSet(CreatedOn(u, d)) /\ CreatedOn(u, d) \subseteq Sessions
BY SessionAssumption, FS_Subset DEF CreatedOn

(* Steps that create no row.                                               *)
LEMMA CapKept ==
    ASSUME SInv, SInv', WithinCap,
           \A s \in Sessions : /\ row'[s].student = row[s].student /\ row'[s].created = row[s].created
                               /\ Cost(row'[s]) <= Cost(row[s])
    PROVE  WithinCap'
<1> SUFFICES ASSUME NEW u \in Students, NEW d \in Nat
             PROVE  Total(Costs', CreatedOn(u, d)') <= DailyCap
  BY DEF WithinCap, Total
<1>1. CreatedOn(u, d)' = CreatedOn(u, d)
  BY DEF CreatedOn
<1>2. \A s \in CreatedOn(u, d) : Costs[s] \in Int /\ Costs'[s] \in Int /\ Costs'[s] <= Costs[s]
  <2>1. ASSUME NEW s \in Sessions
        PROVE  /\ Costs[s] = Cost(row[s]) /\ Cost(row[s]) \in Nat
               /\ Costs'[s] = Cost(row'[s]) /\ Cost(row'[s]) \in Nat
    <3>1. RowOK(row[s]) /\ RowOK(row'[s])
      BY DEF SInv, RowsOK
    <3> QED
      BY <3>1, CostType DEF Costs
  <2> QED
    BY <2>1, DaysFinite
<1>3. Total(Costs', CreatedOn(u, d)) <= Total(Costs, CreatedOn(u, d))
  BY <1>2, DaysFinite, SumAtMost
<1>4. Total(Costs, CreatedOn(u, d)) \in Int /\ Total(Costs', CreatedOn(u, d)) \in Int
  BY <1>2, DaysFinite, SumType
<1>5. Total(Costs', CreatedOn(u, d)) <= DailyCap
  BY <1>3, <1>4, Params DEF WithinCap
<1> QED
  BY <1>1, <1>5

(* A new row: what its student ran that day, and what is left of the cap.  *)
LEMMA CapCreate ==
    ASSUME SInv, SInv', WithinCap,
           NEW t \in Starts, NEW s \in Sessions, NEW u \in Students, Create(u, s, t)
    PROVE  WithinCap'
<1> DEFINE D == t \div DayLen
<1>0. t \in 0..MaxTime /\ D \in Nat
  <2>1. t \in 0..MaxTime
    BY StartsType
  <2> QED
    BY <2>1, SessionAssumption
<1>1. /\ row[s].status = "none" /\ row[s].student = Nobody /\ Nobody # u
      /\ Remaining(u, t) \in MinLeft..DailyCap
  BY Params DEF Create, SInv, RowsOK, RowOK
<1>2. /\ row'[s].status = "reserved" /\ row'[s].student = u /\ row'[s].created = t
      /\ row'[s].len = Least(SessionMax, Remaining(u, t))
  BY <1>1 DEF Create, Supersedes, NoRow
<1>3. ASSUME NEW q \in Sessions \ {s}
      PROVE  /\ row'[q].student = row[q].student /\ row'[q].created = row[q].created
             /\ Cost(row'[q]) <= Cost(row[q])
             /\ row[q].student = u => Cost(row'[q]) = RunAt(t)[q]
  <2>1. RowOK(row[q])
    BY DEF SInv, RowsOK
  <2>2. CASE row[q].student # u
    <3>1. row'[q] = row[q]
      BY <2>2 DEF Create, Supersedes
    <3> QED
      BY <2>1, <2>2, <3>1, CostType
  <2>3. CASE row[q].student = u
    <3>1. row'[q] = Finished(row[q], "superseded", t)
      BY <2>3 DEF Create, Supersedes
    <3>2. KeepsRow(row[q], row'[q])
      BY <1>0, <2>1, <3>1, FinishedKeeps DEF Reasons
    <3>3. Cost(row'[q]) <= Cost(row[q])
      BY <2>1, <3>2, KeepsCost
    <3>4. row[q].status # "none"
      BY <1>1, <2>1, <2>3 DEF RowOK
    <3>5. ASSUME row[q].status = "ended" PROVE Cost(row'[q]) = RunAt(t)[q]
      <4>1. RunAt(t)[q] = RunTo(row[q], row[q].ended)
        BY <3>5, Zenon DEF RunAt
      <4>2. row'[q] = row[q]
        BY <3>1, <3>5 DEF Finished, Live
      <4> QED
        BY <3>5, <4>1, <4>2 DEF Cost
    <3>6. ASSUME row[q].status \in Live PROVE Cost(row'[q]) = RunAt(t)[q]
      <4>1. /\ row'[q].status = "ended" /\ row'[q].ended = t
            /\ row'[q].connected = row[q].connected /\ row'[q].maxEnd = row[q].maxEnd
        BY <2>1, <3>1, <3>6 DEF Finished, RowOK, Row
      <4>2. Cost(row'[q]) = RunTo(row[q], t)
        BY <4>1 DEF Cost, RunTo
      <4>3. row[q].status # "ended"
        BY <3>6 DEF Live
      <4>4. RunAt(t)[q] = RunTo(row[q], t)
        BY <4>3, Zenon DEF RunAt
      <4> QED
        BY <4>2, <4>4
    <3>7. row[q].status \in Live \cup {"none", "ended"}
      BY <2>1, Fields DEF RowOK
    <3> QED
      BY <2>3, <3>2, <3>3, <3>4, <3>5, <3>6, <3>7 DEF KeepsRow
  <2> QED
    BY <2>2, <2>3
<1>4. \A q \in Sessions : Costs[q] = Cost(row[q]) /\ Costs'[q] = Cost(row'[q])
  BY DEF Costs
<1>5. \A q \in Sessions : Costs[q] \in Nat /\ Costs'[q] \in Nat
  <2>1. \A q \in Sessions : RowOK(row[q]) /\ RowOK(row'[q])
    BY DEF SInv, RowsOK
  <2> QED
    BY <1>4, <2>1, CostType
<1> SUFFICES ASSUME NEW v \in Students, NEW d \in Nat
             PROVE  Total(Costs', CreatedOn(v, d)') <= DailyCap
  BY DEF WithinCap, Total
<1>6. s \notin CreatedOn(v, d)
  BY <1>1, Params DEF CreatedOn
<1>7. Total(Costs', CreatedOn(v, d)) \in Int
  BY <1>5, DaysFinite, SumType
<1>8. CASE v = u /\ d = D
  <2>1. CreatedOn(v, d)' = CreatedOn(v, d) \cup {s}
    BY <1>2, <1>3, <1>8 DEF CreatedOn
  <2>2. Total(Costs', CreatedOn(v, d) \cup {s}) = Total(Costs', CreatedOn(v, d)) + Costs'[s]
    <3>1. \A q \in CreatedOn(v, d) \cup {s} : Costs'[q] \in Int
      BY <1>5, DaysFinite
    <3> QED
      BY <1>6, <3>1, DaysFinite, SumAdd
  <2>3. \A q \in CreatedOn(v, d) : q \in Sessions \ {s} /\ row[q].student = u
    BY <1>6, <1>8 DEF CreatedOn
  <2>4. \A q \in CreatedOn(v, d) : /\ Costs'[q] \in Int /\ RunAt(t)[q] \in Int
                                   /\ Costs'[q] <= RunAt(t)[q]
    BY <1>3, <1>4, <1>5, <2>3
  <2>5. Total(Costs', CreatedOn(v, d)) <= UsedToday(u, t)
    BY <1>8, <2>4, DaysFinite, SumAtMost, Zenon DEF UsedToday, Total
  <2>6. UsedToday(u, t) \in Int
    <3>1. Total(RunAt(t), CreatedOn(v, d)) \in Int
      BY <2>4, DaysFinite, SumType
    <3> QED
      BY <1>8, <3>1, Zenon DEF UsedToday, Total
  <2>7. Costs'[s] <= DailyCap - UsedToday(u, t)
    <3>1. Costs'[s] = Least(SessionMax, Remaining(u, t))
      BY <1>2, <1>4 DEF Cost
    <3>2. Remaining(u, t) = DailyCap - UsedToday(u, t)
      BY Zenon DEF Remaining
    <3> QED
      BY <1>1, <3>1, <3>2, Params DEF Least
  <2>8. Total(Costs', CreatedOn(v, d) \cup {s}) <= DailyCap
    BY <1>5, <1>7, <2>2, <2>5, <2>6, <2>7, Params
  <2> QED
    BY <2>1, <2>8
<1>9. CASE ~(v = u /\ d = D)
  <2>1. CreatedOn(v, d)' = CreatedOn(v, d)
    BY <1>1, <1>2, <1>3, <1>9, Params DEF CreatedOn
  <2>2. \A q \in CreatedOn(v, d) : Costs[q] \in Int /\ Costs'[q] \in Int /\ Costs'[q] <= Costs[q]
    BY <1>3, <1>4, <1>5, <1>6, DaysFinite
  <2>3. Total(Costs', CreatedOn(v, d)) <= Total(Costs, CreatedOn(v, d))
    BY <2>2, DaysFinite, SumAtMost
  <2>4. Total(Costs, CreatedOn(v, d)) \in Int
    BY <2>2, DaysFinite, SumType
  <2>5. Total(Costs', CreatedOn(v, d)) <= DailyCap
    BY <1>7, <2>3, <2>4, Params DEF WithinCap
  <2> QED
    BY <2>1, <2>5
<1> QED
  BY <1>8, <1>9

LEMMA CapStep == ASSUME SInv, SInv', WithinCap, [Next]_vars PROVE WithinCap'
<1>1. ASSUME UNCHANGED row PROVE WithinCap'
  <2>1. \A s \in Sessions : RowOK(row[s]) /\ row'[s] = row[s]
    BY <1>1 DEF SInv, RowsOK
  <2> QED
    BY <2>1, CostType, CapKept
<1>2. ASSUME NEW t \in Starts, NEW s \in Sessions, CallOn(s, t) PROVE WithinCap'
  <2>1. PICK n : KeepsRow(row[s], n) /\ Writes(s, n)
    BY <1>2, CallWrites
  <2>2. row'[s] = n /\ \A q \in Sessions \ {s} : row'[q] = row[q]
    BY <2>1 DEF Writes, SInv, Typed
  <2>3. \A q \in Sessions : RowOK(row[q])
    BY DEF SInv, RowsOK
  <2>4. Cost(n) <= Cost(row[s])
    BY <2>1, <2>3, KeepsCost
  <2>5. \A q \in Sessions : /\ row'[q].student = row[q].student /\ row'[q].created = row[q].created
                            /\ Cost(row'[q]) <= Cost(row[q])
    BY <2>1, <2>2, <2>3, <2>4, CostType DEF KeepsRow
  <2> QED
    BY <2>5, CapKept
<1>3. ASSUME NEW w \in Loggers, LogMark(w) PROVE WithinCap'
  <2>1. ASSUME NEW s \in Sessions
        PROVE  /\ row'[s].student = row[s].student /\ row'[s].created = row[s].created
               /\ Cost(row'[s]) <= Cost(row[s])
    <3>1. RowOK(row[s]) /\ row[s] \in Row
      BY DEF SInv, RowsOK, RowOK
    <3>2. row'[s] = row[s] \/ row'[s] = [row[s] EXCEPT !.logged = TRUE]
      BY <1>3 DEF LogMark
    <3>3. /\ row'[s].student = row[s].student /\ row'[s].created = row[s].created
          /\ row'[s].status = row[s].status /\ row'[s].ended = row[s].ended
          /\ row'[s].connected = row[s].connected /\ row'[s].maxEnd = row[s].maxEnd
          /\ row'[s].len = row[s].len
      BY <3>1, <3>2 DEF Row
    <3>4. Cost(row'[s]) = Cost(row[s])
      BY <3>3 DEF Cost, RunTo
    <3> QED
      BY <3>1, <3>3, <3>4, CostType
  <2> QED
    BY <2>1, CapKept
<1>4. CASE UNCHANGED vars \/ Tick \/ \E w \in Loggers : LogRead(w) \/ LogInsert(w) \/ LogLost(w)
  BY <1>1, <1>4 DEF vars, Tick, LogRead, LogInsert, LogLost
<1> QED
  BY <1>2, <1>3, <1>4, CapCreate DEF Next, CallOn

LEMMA CapInit == Init => WithinCap
<1> SUFFICES ASSUME Init, NEW u \in Students, NEW d \in Nat
             PROVE  Total(Costs, CreatedOn(u, d)) <= DailyCap
  BY DEF WithinCap
<1>1. CreatedOn(u, d) = {}
  BY Params DEF Init, CreatedOn, NoRow
<1>2. Total(Costs, CreatedOn(u, d)) = 0
  BY <1>1, SumOfNone
<1> QED
  BY <1>2, Params

-----------------------------------------------------------------------------
(* The theorems.                                                           *)

(* The invariant, and that no step changes an end.                         *)
THEOREM Invariant == Spec => []SInv /\ [][KeepsEnds]_vars
<1>1. SInv /\ [Next]_vars => SInv' /\ [KeepsEnds]_vars
  BY StepKeeps
<1> QED
  BY InitInv, <1>1, PTL DEF Spec

(* Types and the table's CHECK constraints hold in every state: no run is  *)
(* billed more than its session_s, whatever the lag of the calls' clocks.  *)
THEOREM TypeCorrect == Spec => []TypeOK
<1>1. SInv => TypeOK
  BY DEF SInv, Typed, RowsOK, RowOK, TypeOK
<1> QED
  BY Invariant, <1>1, PTL

(* A student has one live row at most.                                     *)
THEOREM OneLive == Spec => []OneLivePerStudent
<1>1. SInv => OneLivePerStudent
  BY DEF SInv
<1> QED
  BY Invariant, <1>1, PTL

(* A run is logged once at most, by any number of API processes.           *)
THEOREM LoggedOnce == Spec => []RunLoggedOnce
<1>1. SInv => RunLoggedOnce
  BY DEF SInv, LogOK, RunLoggedOnce
<1> QED
  BY Invariant, <1>1, PTL

(* An armed row keeps its minute, also against a stale now().              *)
THEOREM ArmedMinute == Spec => []ArmedHasMinute
<1>1. SInv => ArmedHasMinute
  BY DEF SInv, RowsOK, RowOK, ArmedHasMinute
<1> QED
  BY Invariant, <1>1, PTL

(* The first end of a session is its only one.                             *)
THEOREM FinalEnd == Spec => EndIsFinal
<1>1. KeepsEnds => \A s \in Sessions : row[s].status = "ended" =>
        /\ row'[s].status = "ended" /\ row'[s].ended = row[s].ended
        /\ row'[s].reason = row[s].reason /\ row'[s].active = row[s].active
  BY DEF KeepsEnds, SameEnd
<1> QED
  BY Invariant, <1>1, PTL DEF EndIsFinal

(* A session ends once, and not before its robot had time to connect.      *)
THEOREM JustEnd == Spec => EndIsJust
BY ArmedMinute, FinalEnd DEF EndIsJust

(* No reconnect, supersede, late call or midnight lets a student run more  *)
(* than the cap in the sessions of one day.                                *)
THEOREM CapHolds == Spec => []DailyUse
<1>1. SInv /\ WithinCap => DailyUse
  <2> SUFFICES ASSUME SInv, WithinCap, NEW u \in Students, NEW d \in 0..(MaxTime \div DayLen)
               PROVE  Total(RunAt(now), CreatedOn(u, d)) <= DailyCap
    BY DEF DailyUse, Total
  <2>1. d \in Nat /\ now \in Int
    BY SessionAssumption DEF SInv, Typed
  <2>2. ASSUME NEW s \in Sessions
        PROVE  RunAt(now)[s] \in Int /\ Costs[s] \in Int /\ RunAt(now)[s] <= Costs[s]
    <3>1. RowOK(row[s]) /\ row[s].ended \in Int
      BY TimesFacts DEF SInv, RowsOK, RowOK, Row
    <3>2. CASE row[s].status = "ended"
      BY <3>1, <3>2, RunAtMost DEF RunAt, Costs, Cost
    <3>3. CASE row[s].status # "ended"
      BY <2>1, <3>1, <3>3, RunAtMost DEF RunAt, Costs, Cost
    <3> QED
      BY <3>2, <3>3
  <2>3. Total(RunAt(now), CreatedOn(u, d)) <= Total(Costs, CreatedOn(u, d))
    BY <2>2, DaysFinite, SumAtMost
  <2>4. Total(RunAt(now), CreatedOn(u, d)) \in Int /\ Total(Costs, CreatedOn(u, d)) \in Int
    BY <2>2, DaysFinite, SumType
  <2> QED
    BY <2>1, <2>3, <2>4, Params DEF WithinCap
<1>2. Spec => []WithinCap
  <2>1. SInv /\ SInv' /\ WithinCap /\ [Next]_vars => WithinCap'
    BY CapStep
  <2> QED
    BY CapInit, Invariant, <2>1, PTL DEF Spec
<1> QED
  BY Invariant, <1>1, <1>2, PTL

-----------------------------------------------------------------------------
(* A run of cloud inference: what its schedule holds between two ticks,    *)
(* and which of the mailboxes and the wire carries its observation.        *)

(* The oldest picture on which an action may be published.                 *)
Oldest == Resend - 1 + N * MaxGap

(* The rows of the steps to come, without a gap, each young enough to be   *)
(* published m ticks and its position later.                               *)
RowsFresh(x, m) ==
    /\ \A i \in DOMAIN x.queue : x.queue[i] + (i + m) * MaxGap <= Oldest
    /\ \A i \in DOMAIN x.queue : \A j \in Nat : j < i => j \in DOMAIN x.queue

(* The picture in flight: marked as stale, or younger than limit and, during *)
(* a hold, than the hold.                                                  *)
FlightFresh(x, limit) ==
    /\ x.stale # Nil => x.fly # Nil /\ x.stale = x.fly.seq
    /\ x.fly # Nil /\ x.stale = Nil => x.fly.age <= limit /\ (x.holding => x.fly.age <= x.held)

Between(x) ==
    /\ x \in Schedules /\ RowsFresh(x, 1) /\ FlightFresh(x, Resend - 1)
    /\ x.holding => DOMAIN x.queue = {}
Within(x) == x \in Schedules /\ RowsFresh(x, 0) /\ FlightFresh(x, Resend - 1 + MaxGap)

Empty == offers = <<>> /\ wire = {} /\ results = <<>>
Carried(q) ==
    \/ offers = <<q>> /\ wire = {} /\ results = <<>>
    \/ offers = <<>> /\ wire = {q} /\ results = <<>>
    \/ /\ offers = <<>> /\ wire = {}
       /\ \E chunk \in {"rows", "bad", "none"} : results = <<[seq |-> q, chunk |-> chunk]>>

SlotOK ==
    run # "over" /\ ~cend =>
        IF sched # Nil /\ sched.fly # Nil THEN Carried(sched.fly.seq) ELSE Empty

CloudInv ==
    /\ run \in {"off", "live", "over"} /\ age \in Nat
    /\ run = "off" => sched = Nil /\ ~cend
    /\ run # "over" => closing = Nil
    /\ run = "live" /\ sched # Nil => Between(sched)
    /\ moved # Nil => run = "live" /\ moved \in Nat /\ moved <= Oldest
    /\ SlotOK

LEMMA RunConstants ==
    /\ N \in Nat \ {0} /\ Cadence \in Nat \ {0} /\ ObsGap \in Nat \ {0} /\ Resend \in Nat \ {0}
    /\ Stall \in Nat \ {0} /\ Loading \in Nat \ {0} /\ MaxGap \in Nat \ {0} /\ Seqs \in Nat \ {0}
    /\ Nil \notin Int /\ Nil \notin Flights /\ Nil \notin Schedules
    /\ N * MaxGap \in Nat /\ Oldest \in Nat /\ AgeCap \in Nat
<1>1. /\ N \in Nat \ {0} /\ Cadence \in Nat \ {0} /\ ObsGap \in Nat \ {0} /\ Resend \in Nat \ {0}
      /\ Stall \in Nat \ {0} /\ Loading \in Nat \ {0} /\ MaxGap \in Nat \ {0} /\ Seqs \in Nat \ {0}
      /\ Nil \notin Int /\ Nil \notin Flights /\ Nil \notin Schedules
  BY RunAssumption
<1>2. N * MaxGap \in Nat
  BY <1>1
<1> QED
  BY <1>1, <1>2 DEF Oldest, AgeCap

(* Time in the order of its factors.                                       *)
LEMMA Longer ==
    ASSUME NEW a \in Int, NEW b \in Int, a <= b
    PROVE  a * MaxGap \in Int /\ b * MaxGap \in Int /\ a * MaxGap <= b * MaxGap
<1>1. (b - a) * MaxGap >= 0
  BY RunConstants
<1>2. (b - a) * MaxGap = b * MaxGap - a * MaxGap
  BY RunConstants
<1> QED
  BY <1>1, <1>2, RunConstants

LEMMA NextGap ==
    ASSUME NEW i \in Int
    PROVE  (i + 1) * MaxGap = i * MaxGap + MaxGap /\ i * MaxGap \in Int /\ (i + 0) * MaxGap = i * MaxGap
BY RunConstants

LEMMA CappedBounds ==
    ASSUME NEW a \in Nat, NEW cap \in Nat
    PROVE  Capped(a, cap) \in Nat /\ Capped(a, cap) <= a
BY DEF Capped

LEMMA QueueIs ==
    /\ \A q \in Queues : \A i \in DOMAIN q : i \in 0 .. N - 1 /\ i \in Nat /\ q[i] \in Nat
    /\ \A S \in SUBSET (0 .. N - 1) : \A q \in [S -> Nat] : q \in Queues
<1>1. ASSUME NEW q \in Queues, NEW i \in DOMAIN q PROVE i \in 0 .. N - 1 /\ i \in Nat /\ q[i] \in Nat
  <2>1. PICK S \in SUBSET (0 .. N - 1) : q \in [S -> Nat]
    BY DEF Queues
  <2>2. i \in S /\ q[i] \in Nat
    BY <2>1
  <2> QED
    BY <2>1, <2>2, RunConstants
<1>2. \A S \in SUBSET (0 .. N - 1) : \A q \in [S -> Nat] : q \in Queues
  BY Zenon DEF Queues
<1> QED
  BY <1>1, <1>2

(* The schedule's fold over the mailbox, which holds one answer at most.   *)
AdoptsAll(g, x, q, S) ==
    g = [s \in SUBSET S |-> IF s = {} THEN x ELSE Adopt(g[s \ {Max(s)}], q[Max(s)])]
Adopter(x, q, S) == CHOOSE g : AdoptsAll(g, x, q, S)

LEMMA FoldIsAdopter == ASSUME NEW x, NEW q PROVE FoldLeft(Adopt, x, q) = Adopter(x, q, DOMAIN q)[DOMAIN q]
BY DEF FoldLeft, MapThenFoldSet, Adopter, AdoptsAll

LEMMA NothingAdopted == ASSUME NEW x PROVE FoldLeft(Adopt, x, <<>>) = x
<1> DEFINE g == [s \in SUBSET {} |-> x]
<1>1. AdoptsAll(g, x, <<>>, {})
  BY DEF AdoptsAll
<1>2. AdoptsAll(Adopter(x, <<>>, {}), x, <<>>, {})
  BY <1>1, Zenon DEF Adopter
<1>3. Adopter(x, <<>>, {})[{}] = x
  <2> DEFINE a == Adopter(x, <<>>, {})
  <2>1. a = [s \in SUBSET {} |-> IF s = {} THEN x ELSE Adopt(a[s \ {Max(s)}], <<>>[Max(s)])]
    BY <1>2 DEF AdoptsAll
  <2> HIDE DEF a
  <2>2. a[{}] = x
    BY <2>1
  <2> QED
    BY <2>2 DEF a
<1>4. DOMAIN <<>> = {}
  OBVIOUS
<1> QED
  BY <1>3, <1>4, FoldIsAdopter

LEMMA OneAdopted == ASSUME NEW x, NEW r PROVE FoldLeft(Adopt, x, <<r>>) = Adopt(x, r)
<1> DEFINE g == [s \in SUBSET {1} |-> IF s = {} THEN x ELSE Adopt(x, r)]
<1>1. Max({1}) = 1
  BY DEF Max
<1>2. AdoptsAll(g, x, <<r>>, {1})
  <2>1. \A s \in SUBSET {1} : s = {} \/ s = {1}
    OBVIOUS
  <2>2. g[{}] = x /\ <<r>>[1] = r /\ {1} \ {Max({1})} = {}
    BY <1>1
  <2>3. ASSUME NEW s \in SUBSET {1}
        PROVE g[s] = IF s = {} THEN x ELSE Adopt(g[s \ {Max(s)}], <<r>>[Max(s)])
    <3>1. CASE s = {}
      BY <2>2, <3>1
    <3>2. CASE s = {1}
      <4>1. g[s] = Adopt(x, r)
        BY <3>2
      <4>2. Max(s) = 1 /\ g[s \ {Max(s)}] = x
        BY <1>1, <2>2, <3>2
      <4> HIDE DEF g
      <4> QED
        BY <4>1, <4>2, <2>2, <3>2, Zenon
    <3> QED
      BY <2>1, <3>1, <3>2
  <2>4. g = [s \in SUBSET {1} |-> g[s]]
    OBVIOUS
  <2> HIDE DEF g
  <2> QED
    BY <2>3, <2>4, Zenon DEF AdoptsAll
<1>3. AdoptsAll(Adopter(x, <<r>>, {1}), x, <<r>>, {1})
  <2> HIDE DEF g
  <2> QED
    BY <1>2, Zenon DEF Adopter
<1>4. Adopter(x, <<r>>, {1})[{1}] = Adopt(x, r)
  <2> DEFINE a == Adopter(x, <<r>>, {1})
  <2>1. a = [s \in SUBSET {1} |-> IF s = {} THEN x ELSE Adopt(a[s \ {Max(s)}], <<r>>[Max(s)])]
    BY <1>3, Zenon DEF AdoptsAll
  <2> HIDE DEF a
  <2>2. a[{}] = x
    BY <2>1
  <2>3. a[{1}] = Adopt(a[{1} \ {Max({1})}], <<r>>[Max({1})])
    BY <2>1
  <2>4. {1} \ {Max({1})} = {} /\ <<r>>[Max({1})] = r
    BY <1>1
  <2>5. a[{1}] = Adopt(x, r)
    BY <2>2, <2>3, <2>4, Zenon
  <2> QED
    BY <2>5 DEF a
<1>5. DOMAIN <<r>> = {1}
  OBVIOUS
<1> QED
  BY <1>4, <1>5, FoldIsAdopter, Zenon

(* Each part of a step: it keeps the record's type, changes the fields it  *)
(* names and no others.                                                    *)
LEMMA LaterFields ==
    ASSUME NEW x \in Schedules, NEW d \in Nat
    PROVE  /\ Later(x, d) \in Schedules
           /\ DOMAIN Later(x, d).queue = DOMAIN x.queue
           /\ \A i \in DOMAIN x.queue : Later(x, d).queue[i] = Capped(x.queue[i] + d, AgeCap)
           /\ x.fly = Nil => Later(x, d).fly = Nil
           /\ x.fly # Nil => /\ Later(x, d).fly \in Flights
                             /\ Later(x, d).fly.seq = x.fly.seq
                             /\ Later(x, d).fly.behind = x.fly.behind
                             /\ Later(x, d).fly.age = Capped(x.fly.age + d, AgeCap)
           /\ Later(x, d).held = Capped(x.held + d, AgeCap)
           /\ Later(x, d).stale = x.stale /\ Later(x, d).holding = x.holding
           /\ Later(x, d).bad = x.bad
<1> DEFINE y == Later(x, d)
           q == [i \in DOMAIN x.queue |-> Capped(x.queue[i] + d, AgeCap)]
           f == IF x.fly = Nil THEN Nil ELSE [x.fly EXCEPT !.age = Capped(x.fly.age + d, AgeCap)]
<1>1. PICK S \in SUBSET (0 .. N - 1) : x.queue \in [S -> Nat]
  BY DEF Schedules, Queues
<1>2. DOMAIN x.queue = S /\ \A i \in S : x.queue[i] \in Nat
  BY <1>1
<1>3. \A i \in S : Capped(x.queue[i] + d, AgeCap) \in Nat
  BY <1>2, RunConstants DEF Capped
<1>4. q \in [S -> Nat]
  BY <1>2, <1>3
<1>5. q \in Queues
  <2> HIDE DEF q
  <2> QED
    BY <1>4, Zenon DEF Queues
<1>6. /\ x.fly \in Flights \cup {Nil} /\ x.seq \in Int /\ x.wait \in Nat /\ x.steps \in Nat \cup {Nil}
      /\ x.plan \in Nat \cup {Nil} /\ x.held \in Nat /\ x.stale \in Int \cup {Nil}
  BY DEF Schedules
<1>7. x.holding \in BOOLEAN /\ x.bad \in BOOLEAN
  BY Zenon DEF Schedules
<1>8. x.fly # Nil => x.fly.age \in Nat /\ Capped(x.fly.age + d, AgeCap) \in Nat
  BY <1>6, RunConstants DEF Flights, Capped
<1>9. f \in Flights \cup {Nil}
  BY <1>6, <1>8 DEF Flights
<1>10. /\ Capped(x.wait + d, ObsGap) \in Nat /\ Capped(x.held + d, AgeCap) \in Nat
       /\ x.plan # Nil => Capped(x.plan + d, Stall) \in Nat
  BY <1>6, RunConstants DEF Capped
<1> DEFINE w == Capped(x.wait + d, ObsGap)
           h == Capped(x.held + d, AgeCap)
           p == IF x.plan = Nil THEN Nil ELSE Capped(x.plan + d, Stall)
<1>11. y = [queue |-> q, fly |-> f, seq |-> x.seq, wait |-> w, steps |-> x.steps, plan |-> p,
            holding |-> x.holding, held |-> h, stale |-> x.stale, bad |-> x.bad]
  <2>1. x = [queue |-> x.queue, fly |-> x.fly, seq |-> x.seq, wait |-> x.wait, steps |-> x.steps,
             plan |-> x.plan, holding |-> x.holding, held |-> x.held, stale |-> x.stale,
             bad |-> x.bad]
    BY DEF Schedules
  <2>2. y = [x EXCEPT !.queue = q, !.fly = f, !.wait = w, !.held = h, !.plan = p]
    BY Zenon DEF Later
  <2> HIDE DEF y, q, f, w, h, p
  <2> QED
    BY <2>1, <2>2
<1>12. w \in Nat /\ h \in Nat /\ p \in Nat \cup {Nil}
  BY <1>10
<1>13. y \in Schedules
  <2> HIDE DEF y, q, f, w, h, p
  <2> QED
    BY <1>5, <1>6, <1>7, <1>9, <1>11, <1>12, Zenon DEF Schedules
<1>14. /\ y.queue = q /\ y.fly = f /\ y.held = h /\ y.stale = x.stale /\ y.holding = x.holding
       /\ y.bad = x.bad
  <2> HIDE DEF y, q, f, w, h, p
  <2> QED
    BY <1>11, Zenon
<1>15. x.fly # Nil => f \in Flights /\ f.seq = x.fly.seq /\ f.behind = x.fly.behind
                      /\ f.age = Capped(x.fly.age + d, AgeCap)
  BY <1>6, <1>8 DEF Flights
<1>16. DOMAIN q = DOMAIN x.queue /\ \A i \in DOMAIN x.queue : q[i] = Capped(x.queue[i] + d, AgeCap)
  OBVIOUS
<1>17. x.fly = Nil => f = Nil
  OBVIOUS
<1> HIDE DEF y, q, f, w, p
<1> QED
  BY <1>13, <1>14, <1>15, <1>16, <1>17, Zenon DEF y

(* The rows of a chunk: those that are to come yet, from the next one on.  *)
LEMMA PlannedRows ==
    ASSUME NEW x, x.queue \in Queues, x.fly.behind \in Nat, x.fly.age \in Nat
    PROVE  /\ Planned(x) \in Queues
           /\ DOMAIN Planned(x) = DOMAIN x.queue \cup {i \in Nat : i + x.fly.behind < N}
           /\ \A i \in DOMAIN Planned(x) :
                Planned(x)[i] = IF i + x.fly.behind < N THEN x.fly.age ELSE x.queue[i]
<1> DEFINE b == x.fly.behind
           rows == {i - b : i \in b .. N - 1}
           p == [i \in DOMAIN x.queue \cup rows |-> IF i \in rows THEN x.fly.age ELSE x.queue[i]]
<1>1. Planned(x) = p
  BY Zenon DEF Planned
<1>2. rows = {i \in Nat : i + b < N}
  <2>1. ASSUME NEW i \in Nat, i + b < N PROVE i \in rows
    <3>1. i + b \in b .. N - 1 /\ i = (i + b) - b
      BY <2>1, RunConstants
    <3> QED
      BY <3>1
  <2>2. ASSUME NEW i \in rows PROVE i \in Nat /\ i + b < N
    BY <2>2, RunConstants
  <2> QED
    BY <2>1, <2>2
<1>3. \A i \in DOMAIN x.queue : i \in 0 .. N - 1 /\ i \in Nat /\ x.queue[i] \in Nat
  BY QueueIs
<1> HIDE DEF rows
<1>4. DOMAIN p = DOMAIN x.queue \cup rows /\ DOMAIN p \in SUBSET (0 .. N - 1)
  BY <1>2, <1>3, RunConstants
<1>5. \A i \in DOMAIN p : p[i] = IF i + b < N THEN x.fly.age ELSE x.queue[i]
  BY <1>2, <1>3, <1>4
<1>6. \A i \in DOMAIN p : p[i] \in Nat
  BY <1>2, <1>3, <1>4, <1>5
<1>7. p \in [DOMAIN p -> Nat]
  BY <1>6
<1>8. p \in Queues
  <2> HIDE DEF p
  <2> QED
    BY <1>4, <1>7, QueueIs
<1> HIDE DEF p
<1> QED
  BY <1>1, <1>2, <1>4, <1>5, <1>8, Zenon

LEMMA CappedTogether ==
    ASSUME NEW a \in Nat, NEW b \in Nat, NEW cap \in Nat, a <= b
    PROVE  Capped(a, cap) \in Nat /\ Capped(b, cap) \in Nat /\ Capped(a, cap) <= Capped(b, cap)
BY DEF Capped

(* A tick later every row is a tick older, and a tick nearer.              *)
LEMMA LaterFresh ==
    ASSUME NEW x, Between(x), NEW d \in 1 .. MaxGap
    PROVE  /\ Within(Later(x, d))
           /\ Later(x, d).holding = x.holding
           /\ x.holding => DOMAIN Later(x, d).queue = {}
           /\ Later(x, d).held = Capped(x.held + d, AgeCap)
           /\ x.fly = Nil <=> Later(x, d).fly = Nil
           /\ x.fly # Nil => Later(x, d).fly.seq = x.fly.seq
<1> DEFINE y == Later(x, d)
<1>1. x \in Schedules /\ d \in Nat /\ d <= MaxGap
  BY RunConstants DEF Between
<1>2. /\ y \in Schedules
      /\ DOMAIN y.queue = DOMAIN x.queue
      /\ \A i \in DOMAIN x.queue : y.queue[i] = Capped(x.queue[i] + d, AgeCap)
      /\ x.fly = Nil => y.fly = Nil
      /\ x.fly # Nil => /\ y.fly \in Flights
                        /\ y.fly.seq = x.fly.seq
                        /\ y.fly.age = Capped(x.fly.age + d, AgeCap)
      /\ y.held = Capped(x.held + d, AgeCap)
      /\ y.stale = x.stale /\ y.holding = x.holding
  BY <1>1, LaterFields
<1> HIDE DEF y
<1>3. x.queue \in Queues /\ x.held \in Nat /\ (x.fly # Nil => x.fly \in Flights /\ x.fly.age \in Nat)
  BY <1>1 DEF Schedules, Flights
<1>4. RowsFresh(y, 0)
  <2>1. ASSUME NEW i \in DOMAIN x.queue PROVE y.queue[i] + (i + 0) * MaxGap <= Oldest
    <3>1. i \in Nat /\ x.queue[i] \in Nat
      BY <1>3, QueueIs
    <3>2. x.queue[i] + (i + 1) * MaxGap <= Oldest
      BY DEF Between, RowsFresh
    <3>3. y.queue[i] \in Nat /\ y.queue[i] <= x.queue[i] + d
      BY <1>1, <1>2, <3>1, RunConstants DEF Capped
    <3>4. (i + 1) * MaxGap = i * MaxGap + MaxGap /\ i * MaxGap \in Int /\ (i + 0) * MaxGap = i * MaxGap
      BY <3>1, NextGap
    <3> QED
      BY <1>1, <3>1, <3>2, <3>3, <3>4, RunConstants
  <2>2. \A i \in DOMAIN x.queue : \A j \in Nat : j < i => j \in DOMAIN x.queue
    BY DEF Between, RowsFresh
  <2> QED
    BY <1>2, <2>1, <2>2, Zenon DEF RowsFresh
<1>5. FlightFresh(y, Resend - 1 + MaxGap)
  <2>1. FlightFresh(x, Resend - 1)
    BY DEF Between
  <2>2. y.stale # Nil => y.fly # Nil /\ y.stale = y.fly.seq
    BY <1>2, <2>1, RunConstants DEF FlightFresh
  <2>3. ASSUME y.fly # Nil, y.stale = Nil
        PROVE  y.fly.age <= Resend - 1 + MaxGap /\ (y.holding => y.fly.age <= y.held)
    <3>1. x.fly # Nil /\ x.fly.age \in Nat /\ x.fly.age <= Resend - 1
          /\ (x.holding => x.fly.age <= x.held)
      BY <1>2, <1>3, <2>1, <2>3 DEF FlightFresh
    <3>2. y.fly.age <= Resend - 1 + MaxGap
      BY <1>1, <1>2, <3>1, RunConstants DEF Capped
    <3>3. ASSUME x.holding PROVE Capped(x.fly.age + d, AgeCap) <= Capped(x.held + d, AgeCap)
      BY <1>1, <1>3, <3>1, <3>3, RunConstants DEF Capped
    <3> QED
      BY <1>2, <3>1, <3>2, <3>3
  <2> QED
    BY <2>2, <2>3 DEF FlightFresh
<1>6. x.holding => DOMAIN y.queue = {}
  BY <1>2 DEF Between
<1>7. x.fly = Nil <=> y.fly = Nil
  BY <1>2, RunConstants
<1>8. Within(y)
  BY <1>2, <1>4, <1>5 DEF Within
<1> QED
  BY <1>2, <1>6, <1>7, <1>8 DEF y

(* The first tick after the ready frame starts with a schedule that holds. *)
LEMMA NewWithin ==
    Within(NewSchedule) /\ NewSchedule.fly = Nil /\ NewSchedule.holding /\ NewSchedule.queue = <<>>
<1>1. <<>> \in [{} -> Nat] /\ {} \in SUBSET (0 .. N - 1)
  OBVIOUS
<1>2. <<>> \in Queues
  BY <1>1, Zenon DEF Queues
<1>3. NewSchedule \in Schedules
  BY <1>2, RunConstants DEF NewSchedule, Schedules
<1>4. /\ NewSchedule.fly = Nil /\ NewSchedule.holding /\ NewSchedule.queue = <<>>
      /\ NewSchedule.stale = Nil
  BY DEF NewSchedule
<1>5. DOMAIN NewSchedule.queue = {}
  BY <1>4
<1>6. RowsFresh(NewSchedule, 0)
  BY <1>5 DEF RowsFresh
<1>7. FlightFresh(NewSchedule, Resend - 1 + MaxGap)
  BY <1>4 DEF FlightFresh
<1> QED
  BY <1>3, <1>4, <1>6, <1>7 DEF Within

(* A schedule with some of its fields changed.                             *)
LEMMA Freed ==
    ASSUME NEW x \in Schedules, NEW y, y = [x EXCEPT !.fly = Nil, !.stale = Nil]
    PROVE  /\ y \in Schedules
           /\ y.fly = Nil /\ y.holding = x.holding /\ y.held = x.held /\ y.stale = Nil
           /\ y.queue = x.queue
BY DEF Schedules

LEMMA Spoiled ==
    ASSUME NEW x \in Schedules, NEW y, y = [x EXCEPT !.bad = TRUE]
    PROVE  y \in Schedules /\ y.bad
BY DEF Schedules

LEMMA TypedEdits ==
    ASSUME NEW x \in Schedules
    PROVE  /\ \A q \in Queues : [x EXCEPT !.queue = q, !.fly = Nil, !.plan = 0] \in Schedules
           /\ \A s \in Int \cup {Nil} :
                [x EXCEPT !.holding = TRUE, !.held = 0, !.stale = s] \in Schedules
<1>1. ASSUME NEW q \in Queues PROVE [x EXCEPT !.queue = q, !.fly = Nil, !.plan = 0] \in Schedules
  BY DEF Schedules
<1>2. ASSUME NEW s \in Int \cup {Nil}
      PROVE  [x EXCEPT !.holding = TRUE, !.held = 0, !.stale = s] \in Schedules
  BY DEF Schedules
<1> QED
  BY <1>1, <1>2, Zenon

LEMMA Refilled ==
    ASSUME NEW x \in Schedules, Planned(x) \in Queues, NEW y,
           y = [x EXCEPT !.queue = Planned(x), !.fly = Nil, !.plan = 0]
    PROVE  /\ y \in Schedules
           /\ y.fly = Nil /\ y.holding = x.holding /\ y.held = x.held /\ y.stale = x.stale
           /\ y.queue = Planned(x)
<1> DEFINE q == Planned(x)
<1>1. q \in Queues /\ y = [x EXCEPT !.queue = q, !.fly = Nil, !.plan = 0]
  BY Zenon
<1> HIDE DEF q
<1>2. y \in Schedules
  BY <1>1, TypedEdits, Zenon
<1>3. y.fly = Nil /\ y.held = x.held /\ y.stale = x.stale /\ y.queue = q
  BY <1>1 DEF Schedules
<1>4. y.holding = x.holding
  BY <1>1 DEF Schedules
<1> QED
  BY <1>2, <1>3, <1>4, Zenon DEF q

(* An answer to the observation in flight ends it, or it is the last of    *)
(* the run; the rows that it queues are as old as its picture.             *)
LEMMA AdoptFields ==
    ASSUME NEW x \in Schedules, x.fly # Nil,
           NEW chunk \in {"rows", "bad", "none"},
           NEW r, r = [seq |-> x.fly.seq, chunk |-> chunk]
    PROVE  /\ Adopt(x, r) \in Schedules
           /\ \/ Adopt(x, r).bad
              \/ /\ Adopt(x, r).fly = Nil /\ Adopt(x, r).holding = x.holding
                 /\ Adopt(x, r).held = x.held
                 /\ \/ Adopt(x, r).stale = Nil /\ Adopt(x, r).queue = x.queue
                    \/ /\ x.stale # x.fly.seq /\ Adopt(x, r).stale = x.stale
                       /\ Adopt(x, r).queue = Planned(x)
<1>1. r.seq = x.fly.seq /\ r.chunk = chunk
  BY Zenon
<1>2. CASE r.chunk = "none" \/ x.stale = r.seq
  <2>1. Adopt(x, r) = [x EXCEPT !.fly = Nil, !.stale = Nil]
    BY <1>1, <1>2, Zenon DEF Adopt
  <2> QED
    BY <2>1, Freed, Zenon
<1>3. CASE ~(r.chunk = "none" \/ x.stale = r.seq) /\ r.chunk = "bad"
  <2>1. Adopt(x, r) = [x EXCEPT !.bad = TRUE]
    BY <1>1, <1>3, Zenon DEF Adopt
  <2> QED
    BY <2>1, Spoiled, Zenon
<1>4. CASE ~(r.chunk = "none" \/ x.stale = r.seq) /\ r.chunk # "bad"
  <2>1. Adopt(x, r) = [x EXCEPT !.queue = Planned(x), !.fly = Nil, !.plan = 0]
    BY <1>1, <1>4, Zenon DEF Adopt
  <2>2. x.queue \in Queues /\ x.fly.behind \in Nat /\ x.fly.age \in Nat
    BY DEF Schedules, Flights
  <2>3. Planned(x) \in Queues
    BY <2>2, PlannedRows, Zenon
  <2>4. x.stale # x.fly.seq
    BY <1>1, <1>4, Zenon
  <2> DEFINE y == Adopt(x, r)
  <2>5. /\ y \in Schedules
        /\ y.fly = Nil /\ y.holding = x.holding /\ y.held = x.held /\ y.stale = x.stale
        /\ y.queue = Planned(x)
    BY <2>1, <2>3, Refilled, Zenon
  <2> QED
    BY <2>4, <2>5, Zenon
<1> QED
  BY <1>2, <1>3, <1>4, Zenon

(* What the mailbox holds for the observation in flight.                   *)
Reported(x) ==
    \/ results = <<>>
    \/ /\ x.fly # Nil
       /\ \E chunk \in {"rows", "bad", "none"} : results = <<[seq |-> x.fly.seq, chunk |-> chunk]>>

(* A fresh plan is as young as its picture, and without a gap.             *)
LEMMA PlannedFresh ==
    ASSUME NEW x, Within(x), x.fly # Nil, x.stale = Nil
    PROVE  /\ RowsFresh([x EXCEPT !.queue = Planned(x)], 0)
           /\ x.holding /\ DOMAIN x.queue = {} /\ 0 \in DOMAIN Planned(x) => Planned(x)[0] <= x.held
<1> DEFINE p == Planned(x)
           D == DOMAIN x.queue \cup {i \in Nat : i + x.fly.behind < N}
<1>1. x.queue \in Queues /\ x.fly.behind \in Nat /\ x.fly.age \in Nat /\ x.held \in Nat
  BY DEF Within, Schedules, Flights
<1>2. DOMAIN p = D /\ \A i \in D : p[i] = IF i + x.fly.behind < N THEN x.fly.age ELSE x.queue[i]
  BY <1>1, PlannedRows
<1>3. x.fly.age <= Resend - 1 + MaxGap /\ (x.holding => x.fly.age <= x.held)
  BY DEF Within, FlightFresh
<1> HIDE DEF p
<1>4. ASSUME NEW i \in D PROVE p[i] + (i + 0) * MaxGap <= Oldest
  <2>1. CASE i + x.fly.behind < N
    <3>1. i \in Nat /\ i + 1 <= N
      BY <1>1, <2>1, RunConstants, QueueIs
    <3>2. (i + 1) * MaxGap = i * MaxGap + MaxGap /\ (i + 0) * MaxGap = i * MaxGap /\ i * MaxGap \in Int
      <4>1. i \in Int
        BY <3>1
      <4> QED
        BY <4>1, NextGap, Zenon
    <3> DEFINE upto == i + 1
    <3>3. upto \in Int /\ N \in Int /\ upto <= N
      BY <3>1, RunConstants
    <3>4. upto * MaxGap \in Int /\ upto * MaxGap <= N * MaxGap
      <4> HIDE DEF upto
      <4> QED
        BY <3>3, Longer, Zenon
    <3>5. p[i] = x.fly.age
      BY <1>2, <2>1
    <3> QED
      BY <1>1, <1>3, <3>2, <3>4, <3>5, RunConstants DEF Oldest
  <2>2. CASE ~(i + x.fly.behind < N)
    <3>1. i \in DOMAIN x.queue /\ p[i] = x.queue[i]
      BY <1>2, <2>2
    <3>2. x.queue[i] + (i + 0) * MaxGap <= Oldest
      BY <3>1 DEF Within, RowsFresh
    <3> QED
      BY <3>1, <3>2
  <2> QED
    BY <2>1, <2>2
<1>5. ASSUME NEW i \in D, NEW j \in Nat, j < i PROVE j \in D
  <2>1. CASE i \in DOMAIN x.queue
    BY <1>5, <2>1 DEF Within, RowsFresh
  <2>2. CASE i \in Nat /\ i + x.fly.behind < N
    BY <1>1, <1>5, <2>2, RunConstants
  <2> QED
    BY <2>1, <2>2
<1>6. [x EXCEPT !.queue = p].queue = p
  BY DEF Within, Schedules
<1>7. RowsFresh([x EXCEPT !.queue = p], 0)
  <2> HIDE DEF D
  <2> QED
    BY <1>2, <1>4, <1>5, <1>6, Zenon DEF RowsFresh
<1>8. ASSUME x.holding, DOMAIN x.queue = {}, 0 \in DOMAIN p PROVE p[0] <= x.held
  <2>1. 0 + x.fly.behind < N
    BY <1>2, <1>8
  <2>2. p[0] = x.fly.age
    BY <1>2, <1>8, <2>1
  <2> QED
    BY <1>3, <1>8, <2>2
<1> QED
  BY <1>7, <1>8, Zenon DEF p

(* Fresh rows are a fact of the queue alone.                               *)
LEMMA SameRows ==
    ASSUME NEW x, NEW y, NEW m, x.queue = y.queue, RowsFresh(x, m)
    PROVE  RowsFresh(y, m)
BY DEF RowsFresh

(* The answers are taken: the schedule is within its bounds, or the run is *)
(* about to end.                                                           *)
LEMMA AdoptedWithin ==
    ASSUME NEW x, Within(x), Reported(x)
    PROVE  LET z == FoldLeft(Adopt, x, results)
           IN  /\ z \in Schedules
               /\ \/ z.bad
                  \/ /\ Within(z) /\ z.holding = x.holding /\ z.held = x.held
                     /\ results = <<>> => z.fly = x.fly
                     /\ results # <<>> => z.fly = Nil
                     /\ x.holding /\ DOMAIN x.queue = {} /\ 0 \in DOMAIN z.queue =>
                            z.queue[0] <= x.held
<1> DEFINE z == FoldLeft(Adopt, x, results)
<1>1. x \in Schedules
  BY DEF Within
<1>2. CASE results = <<>>
  <2>1. z = x
    BY <1>2, NothingAdopted
  <2> QED
    BY <1>1, <1>2, <2>1
<1>3. ASSUME x.fly # Nil, NEW chunk \in {"rows", "bad", "none"},
             results = <<[seq |-> x.fly.seq, chunk |-> chunk]>>
      PROVE  /\ z \in Schedules
             /\ \/ z.bad
                \/ /\ Within(z) /\ z.holding = x.holding /\ z.held = x.held
                   /\ results = <<>> => z.fly = x.fly
                   /\ results # <<>> => z.fly = Nil
                   /\ x.holding /\ DOMAIN x.queue = {} /\ 0 \in DOMAIN z.queue =>
                          z.queue[0] <= x.held
  <2> DEFINE r == [seq |-> x.fly.seq, chunk |-> chunk]
  <2>1. z = Adopt(x, r)
    BY <1>3, OneAdopted
  <2>2. results # <<>>
    BY <1>3
  <2>3. /\ z \in Schedules
        /\ \/ z.bad
           \/ /\ z.fly = Nil /\ z.holding = x.holding /\ z.held = x.held
              /\ \/ z.stale = Nil /\ z.queue = x.queue
                 \/ x.stale # x.fly.seq /\ z.stale = x.stale /\ z.queue = Planned(x)
    <3> HIDE DEF z, r
    <3>1. r = [seq |-> x.fly.seq, chunk |-> chunk]
      BY DEF r
    <3> QED
      BY <1>1, <1>3, <2>1, <3>1, AdoptFields
  <2> HIDE DEF z, r
  <2>4. CASE z.fly = Nil /\ z.holding = x.holding /\ z.held = x.held
             /\ z.stale = Nil /\ z.queue = x.queue
    <3>1. RowsFresh(z, 0)
      BY <2>4, SameRows DEF Within
    <3>2. FlightFresh(z, Resend - 1 + MaxGap)
      BY <2>4, Zenon DEF FlightFresh
    <3> QED
      BY <2>2, <2>3, <2>4, <3>1, <3>2, Zenon DEF Within
  <2>5. CASE z.fly = Nil /\ z.holding = x.holding /\ z.held = x.held
             /\ x.stale # x.fly.seq /\ z.stale = x.stale /\ z.queue = Planned(x)
    <3>1. x.stale = Nil
      BY <1>3, <2>5, Zenon DEF Within, FlightFresh
    <3>2. /\ RowsFresh([x EXCEPT !.queue = Planned(x)], 0)
          /\ x.holding /\ DOMAIN x.queue = {} /\ 0 \in DOMAIN Planned(x) => Planned(x)[0] <= x.held
      BY <1>3, <3>1, PlannedFresh
    <3>3. [x EXCEPT !.queue = Planned(x)].queue = z.queue
      BY <1>1, <2>5 DEF Schedules
    <3>4. RowsFresh(z, 0)
      BY <3>2, <3>3, SameRows, Zenon
    <3>5. FlightFresh(z, Resend - 1 + MaxGap)
      BY <2>5, <3>1, Zenon DEF FlightFresh
    <3> QED
      BY <2>2, <2>3, <2>5, <3>2, <3>4, <3>5, Zenon DEF Within
  <2> QED
    BY <2>3, <2>4, <2>5, Zenon
<1> HIDE DEF z
<1>4. \/ results = <<>>
      \/ x.fly # Nil /\ \E chunk \in {"rows", "bad", "none"} :
                          results = <<[seq |-> x.fly.seq, chunk |-> chunk]>>
  BY Zenon DEF Reported
<1> QED
  BY <1>2, <1>3, <1>4, Zenon DEF z

(* Without an action the arm holds, and what was under way may not end the *)
(* hold.                                                                   *)
LEMMA HoldFields ==
    ASSUME NEW x \in Schedules, NEW y, y = Hold(x)
    PROVE  /\ y \in Schedules
           /\ y.queue = x.queue /\ y.fly = x.fly /\ y.bad = x.bad
           /\ \/ /\ ~Have(x) /\ y.holding
                 /\ y.stale = IF x.fly = Nil THEN x.stale ELSE x.fly.seq
              \/ /\ y.holding = (x.holding /\ ~Have(x))
                 /\ y.held = x.held /\ y.stale = x.stale
<1>1. /\ x.fly \in Flights \cup {Nil} /\ x.stale \in Int \cup {Nil}
      /\ x.fly # Nil => x.fly.seq \in Int
  BY DEF Schedules, Flights
<1>2. CASE ~Have(x) /\ ~x.holding
  <2> DEFINE s == IF x.fly = Nil THEN x.stale ELSE x.fly.seq
  <2>1. s \in Int \cup {Nil}
    BY <1>1
  <2>2. y = [x EXCEPT !.holding = TRUE, !.held = 0, !.stale = s]
    BY <1>2, Zenon DEF Hold
  <2> HIDE DEF s
  <2>3. /\ y \in Schedules
        /\ y.queue = x.queue /\ y.fly = x.fly /\ y.bad = x.bad /\ y.holding /\ y.stale = s
    <3>1. y \in Schedules
      BY <2>1, <2>2, TypedEdits, Zenon
    <3>2. y.queue = x.queue /\ y.fly = x.fly /\ y.stale = s
      BY <2>2 DEF Schedules
    <3>3. y.holding
      BY <2>2 DEF Schedules
    <3>4. y.bad = x.bad
      BY <2>2 DEF Schedules
    <3> QED
      BY <3>1, <3>2, <3>3, <3>4, Zenon
  <2> QED
    BY <1>2, <2>3, Zenon DEF s
<1>3. CASE ~(~Have(x) /\ ~x.holding)
  <2> DEFINE h == x.holding /\ ~Have(x)
  <2>1. h \in BOOLEAN
    BY Zenon
  <2>2. y = [x EXCEPT !.holding = h]
    BY <1>3, Zenon DEF Hold
  <2> HIDE DEF h
  <2>3. /\ y \in Schedules
        /\ y.queue = x.queue /\ y.fly = x.fly /\ y.bad = x.bad /\ y.holding = h
        /\ y.held = x.held /\ y.stale = x.stale
    <3>1. y \in Schedules
      BY <2>1, <2>2 DEF Schedules
    <3>2. y.queue = x.queue /\ y.fly = x.fly /\ y.held = x.held /\ y.stale = x.stale
      BY <2>2 DEF Schedules
    <3>3. y.holding = h
      BY <2>2 DEF Schedules
    <3>4. y.bad = x.bad
      BY <2>2 DEF Schedules
    <3> QED
      BY <3>1, <3>2, <3>3, <3>4, Zenon
  <2> QED
    BY <1>3, <2>3, Zenon DEF h
<1> QED
  BY <1>2, <1>3

LEMMA OverdueFields ==
    ASSUME NEW x \in Schedules, NEW y, y = Overdue(x)
    PROVE  /\ y \in Schedules
           /\ y.queue = x.queue /\ y.fly = x.fly /\ y.bad = x.bad
           /\ y.holding = x.holding /\ y.held = x.held
           /\ y.stale = IF x.fly # Nil /\ x.fly.age >= Resend THEN x.fly.seq ELSE x.stale
<1>1. CASE x.fly # Nil /\ x.fly.age >= Resend
  <2>1. y = [x EXCEPT !.stale = x.fly.seq]
    BY <1>1 DEF Overdue
  <2>2. x.fly.seq \in Int
    BY <1>1 DEF Schedules, Flights
  <2> DEFINE k == x.fly.seq
  <2>3. k = x.fly.seq
    OBVIOUS
  <2> HIDE DEF k
  <2>4. /\ y \in Schedules
        /\ y.queue = x.queue /\ y.fly = x.fly /\ y.bad = x.bad
        /\ y.holding = x.holding /\ y.held = x.held /\ y.stale = k
    BY <2>1, <2>2, <2>3 DEF Schedules
  <2> QED
    BY <1>1, <2>3, <2>4, Zenon
<1>2. CASE ~(x.fly # Nil /\ x.fly.age >= Resend)
  BY <1>2, Zenon DEF Overdue
<1> QED
  BY <1>1, <1>2

(* What step has decided before it sends and moves.                        *)
Decided(x) ==
    /\ x \in Schedules /\ RowsFresh(x, 0) /\ FlightFresh(x, Resend - 1)
    /\ x.holding => DOMAIN x.queue = {}

LEMMA SteppedDecided ==
    ASSUME NEW x, Within(x), Reported(x), NEW y, y = Stepped(x), ~y.bad
    PROVE  /\ Decided(y)
           /\ results = <<>> => y.fly = x.fly
           /\ results # <<>> => y.fly = Nil
           /\ x.holding /\ DOMAIN x.queue = {} /\ Have(y) => y.queue[0] <= x.held
<1> DEFINE z == FoldLeft(Adopt, x, results)
           h == Hold(z)
<1>1. /\ z \in Schedules
      /\ \/ z.bad
         \/ /\ Within(z) /\ z.holding = x.holding /\ z.held = x.held
            /\ results = <<>> => z.fly = x.fly
            /\ results # <<>> => z.fly = Nil
            /\ x.holding /\ DOMAIN x.queue = {} /\ 0 \in DOMAIN z.queue => z.queue[0] <= x.held
  BY AdoptedWithin
<1>2. y = Overdue(h)
  BY Zenon DEF Stepped
<1> HIDE DEF z
<1>3. /\ h \in Schedules
      /\ h.queue = z.queue /\ h.fly = z.fly /\ h.bad = z.bad
      /\ \/ /\ ~Have(z) /\ h.holding
            /\ h.stale = IF z.fly = Nil THEN z.stale ELSE z.fly.seq
         \/ /\ h.holding = (z.holding /\ ~Have(z))
            /\ h.held = z.held /\ h.stale = z.stale
  <2> HIDE DEF h
  <2>1. h = Hold(z)
    BY DEF h
  <2> QED
    BY <1>1, <2>1, HoldFields
<1> HIDE DEF h
<1>4. /\ y \in Schedules
      /\ y.queue = h.queue /\ y.fly = h.fly /\ y.bad = h.bad
      /\ y.holding = h.holding /\ y.held = h.held
      /\ y.stale = IF h.fly # Nil /\ h.fly.age >= Resend THEN h.fly.seq ELSE h.stale
  BY <1>2, <1>3, OverdueFields
<1>5. /\ Within(z) /\ z.holding = x.holding /\ z.held = x.held
      /\ results = <<>> => z.fly = x.fly
      /\ results # <<>> => z.fly = Nil
      /\ x.holding /\ DOMAIN x.queue = {} /\ 0 \in DOMAIN z.queue => z.queue[0] <= x.held
  BY <1>1, <1>3, <1>4, Zenon
<1>6. RowsFresh(y, 0)
  BY <1>3, <1>4, <1>5, SameRows DEF Within
<1>7. y.holding => DOMAIN y.queue = {}
  <2>1. ASSUME y.holding PROVE ~Have(z)
    BY <1>3, <1>4, <2>1, Zenon
  <2>2. ASSUME ~Have(z), NEW i \in DOMAIN y.queue PROVE FALSE
    <3>1. i \in Nat /\ \A j \in Nat : j < i => j \in DOMAIN y.queue
      BY <1>4, <1>6, QueueIs DEF Schedules, RowsFresh
    <3>2. 0 \in DOMAIN y.queue
      BY <2>2, <3>1
    <3> QED
      BY <1>3, <1>4, <2>2, <3>2 DEF Have
  <2> QED
    BY <2>1, <2>2
<1>8. FlightFresh(y, Resend - 1)
  <2>1. FlightFresh(z, Resend - 1 + MaxGap) /\ y.fly = z.fly
    BY <1>3, <1>4, <1>5, Zenon DEF Within
  <2>2. z.fly # Nil => z.fly \in Flights /\ z.fly.age \in Nat /\ z.fly.seq \in Int /\ z.fly.seq # Nil
    BY <1>1, RunConstants DEF Schedules, Flights
  <2>3. y.stale # Nil => y.fly # Nil /\ y.stale = y.fly.seq
    BY <1>3, <1>4, <2>1, Zenon DEF FlightFresh
  <2>4. ASSUME y.fly # Nil, y.stale = Nil
        PROVE  y.fly.age <= Resend - 1 /\ (y.holding => y.fly.age <= y.held)
    <3>1. z.fly # Nil /\ ~(z.fly.age >= Resend) /\ h.stale = Nil
      BY <1>3, <1>4, <2>1, <2>2, <2>4, Zenon
    <3>2. h.holding = (z.holding /\ ~Have(z)) /\ h.held = z.held /\ z.stale = Nil
      BY <1>3, <2>2, <3>1, Zenon
    <3>3. z.fly.age <= Resend - 1
      BY <2>2, <3>1, RunConstants
    <3>4. y.holding => z.fly.age <= z.held
      BY <1>4, <2>1, <3>1, <3>2, Zenon DEF FlightFresh
    <3> QED
      BY <1>4, <2>1, <3>2, <3>3, <3>4, Zenon
  <2> QED
    BY <2>3, <2>4, Zenon DEF FlightFresh
<1>9. y.fly = z.fly /\ y.queue = z.queue
  BY <1>3, <1>4, Zenon
<1> QED
  BY <1>4, <1>5, <1>6, <1>7, <1>8, <1>9, Zenon DEF Decided, Have

LEMMA SentEdits ==
    ASSUME NEW x \in Schedules
    PROVE  \A f \in Flights, k \in Int :
             [x EXCEPT !.fly = f, !.seq = k, !.wait = 0, !.steps = 0] \in Schedules
<1>1. ASSUME NEW f \in Flights, NEW k \in Int
      PROVE  [x EXCEPT !.fly = f, !.seq = k, !.wait = 0, !.steps = 0] \in Schedules
  BY DEF Schedules
<1> QED
  BY <1>1, Zenon

LEMMA SentDecided ==
    ASSUME NEW x, Decided(x), x.fly = Nil, NEW y, y = Sent(x)
    PROVE  Decided(y) /\ y.fly # Nil /\ y.fly.seq = x.seq /\ y.queue = x.queue
<1> DEFINE f == [seq |-> x.seq, behind |-> 0, age |-> 0]
           k == (x.seq + 1) % Seqs
<1>1. x \in Schedules /\ x.seq \in Int /\ x.held \in Nat
  BY DEF Decided, Schedules
<1>2. f \in Flights /\ f.seq = x.seq /\ f.age = 0 /\ k \in Int
  BY <1>1, RunConstants DEF Flights
<1>3. y = [x EXCEPT !.fly = f, !.seq = k, !.wait = 0, !.steps = 0]
  BY Zenon DEF Sent
<1> HIDE DEF f, k
<1>4. y \in Schedules
  <2>1. [x EXCEPT !.fly = f, !.seq = k, !.wait = 0, !.steps = 0] \in Schedules
    BY <1>1, <1>2, SentEdits
  <2> QED
    BY <1>3, <2>1, Zenon
<1>5. y.queue = x.queue /\ y.fly = f /\ y.held = x.held /\ y.stale = x.stale
  BY <1>1, <1>3 DEF Schedules
<1>6. y.holding = x.holding
  BY <1>1, <1>3 DEF Schedules
<1>7. f # Nil
  BY <1>2, RunConstants
<1>8. x.stale = Nil
  BY DEF Decided, FlightFresh
<1>9. FlightFresh(y, Resend - 1)
  <2>1. f.age <= Resend - 1 /\ f.age <= x.held
    BY <1>1, <1>2, RunConstants
  <2> QED
    BY <1>5, <1>6, <1>8, <2>1, Zenon DEF FlightFresh
<1>10. RowsFresh(y, 0)
  BY <1>5, SameRows DEF Decided
<1>11. y.holding => DOMAIN y.queue = {}
  BY <1>5, <1>6, Zenon DEF Decided
<1> QED
  BY <1>2, <1>4, <1>5, <1>7, <1>9, <1>10, <1>11, Zenon DEF Decided

LEMMA PoppedEdits ==
    ASSUME NEW x \in Schedules
    PROVE  \A q \in Queues, s \in Nat \cup {Nil}, f \in Flights \cup {Nil} :
             [x EXCEPT !.queue = q, !.steps = s, !.fly = f] \in Schedules
<1>1. ASSUME NEW q \in Queues, NEW s \in Nat \cup {Nil}, NEW f \in Flights \cup {Nil}
      PROVE  [x EXCEPT !.queue = q, !.steps = s, !.fly = f] \in Schedules
  BY DEF Schedules
<1> QED
  BY <1>1, Zenon

(* The action for the step is out: every other row moves a place nearer,   *)
(* which makes room for a tick.                                            *)
LEMMA PoppedBetween ==
    ASSUME NEW x, Decided(x), NEW y, y = Popped(x)
    PROVE  /\ Between(y)
           /\ x.fly = Nil <=> y.fly = Nil
           /\ x.fly # Nil => y.fly.seq = x.fly.seq
<1>1. x \in Schedules /\ x.queue \in Queues /\ x.fly \in Flights \cup {Nil}
      /\ x.steps \in Nat \cup {Nil}
  BY DEF Decided, Schedules
<1>2. /\ \A i \in DOMAIN x.queue : i \in 0 .. N - 1 /\ i \in Nat /\ x.queue[i] \in Nat
      /\ \A i \in DOMAIN x.queue : x.queue[i] + (i + 0) * MaxGap <= Oldest
      /\ \A i \in DOMAIN x.queue : \A j \in Nat : j < i => j \in DOMAIN x.queue
  BY <1>1, QueueIs DEF Decided, RowsFresh
<1>3. CASE ~Have(x)
  <2>1. y = x
    BY <1>3, Zenon DEF Popped
  <2>2. DOMAIN x.queue = {}
    <3>1. ASSUME NEW i \in DOMAIN x.queue PROVE FALSE
      BY <1>2, <1>3 DEF Have
    <3> QED
      BY <3>1
  <2>3. RowsFresh(x, 1)
    BY <2>2 DEF RowsFresh
  <2> QED
    BY <2>1, <2>2, <2>3, Zenon DEF Decided, Between
<1>4. CASE Have(x)
  <2> DEFINE D == {j - 1 : j \in DOMAIN x.queue \ {0}}
             q == [i \in D |-> x.queue[i + 1]]
             s == IF x.steps = Nil THEN Nil ELSE Capped(x.steps + 1, Cadence)
             f == IF x.fly = Nil THEN Nil ELSE [x.fly EXCEPT !.behind = x.fly.behind + 1]
  <2>1. y = [x EXCEPT !.queue = q, !.steps = s, !.fly = f]
    BY <1>4, Zenon DEF Popped
  <2>2. \A i \in D : i \in 0 .. N - 1 /\ i \in Nat /\ i + 1 \in DOMAIN x.queue
    <3>1. ASSUME NEW j \in DOMAIN x.queue \ {0} PROVE j - 1 \in 0 .. N - 1 /\ j - 1 \in Nat /\ (j - 1) + 1 = j
      BY <1>2, RunConstants
    <3> QED
      BY <3>1
  <2>3. \A i \in Nat : i + 1 \in DOMAIN x.queue => i \in D
    <3>1. ASSUME NEW i \in Nat, i + 1 \in DOMAIN x.queue PROVE i \in D
      <4>1. i + 1 # 0 /\ (i + 1) - 1 = i
        OBVIOUS
      <4> QED
        BY <3>1, <4>1
    <3> QED
      BY <3>1
  <2> HIDE DEF D
  <2>4. DOMAIN q = D /\ (\A i \in D : q[i] = x.queue[i + 1]) /\ q \in [D -> Nat] /\ D \in SUBSET (0 .. N - 1)
    BY <1>2, <2>2
  <2>5. q \in Queues
    <3> HIDE DEF q
    <3> QED
      BY <2>4, QueueIs
  <2>6. s \in Nat \cup {Nil}
    BY <1>1, RunConstants DEF Capped
  <2>7. /\ f \in Flights \cup {Nil}
        /\ x.fly = Nil <=> f = Nil
        /\ x.fly # Nil => f.seq = x.fly.seq /\ f.age = x.fly.age
    BY <1>1, RunConstants DEF Flights
  <2> HIDE DEF q, s, f
  <2>8. y \in Schedules
    <3>1. [x EXCEPT !.queue = q, !.steps = s, !.fly = f] \in Schedules
      BY <1>1, <2>5, <2>6, <2>7, PoppedEdits
    <3> QED
      BY <2>1, <3>1, Zenon
  <2>9. y.queue = q /\ y.fly = f /\ y.held = x.held /\ y.stale = x.stale
    BY <1>1, <2>1 DEF Schedules
  <2>10. y.holding = x.holding
    BY <1>1, <2>1 DEF Schedules
  <2>11. ~x.holding
    BY <1>4, Zenon DEF Decided, Have
  <2>12. RowsFresh(y, 1)
    <3>1. ASSUME NEW i \in D PROVE q[i] + (i + 1) * MaxGap <= Oldest
      <4>1. i \in Nat /\ i + 1 \in DOMAIN x.queue /\ q[i] = x.queue[i + 1]
        BY <2>2, <2>4
      <4>2. x.queue[i + 1] + ((i + 1) + 0) * MaxGap <= Oldest
        BY <1>2, <4>1
      <4>3. (i + 1) + 0 = i + 1
        BY <4>1
      <4> QED
        BY <4>1, <4>2, <4>3
    <3>2. ASSUME NEW i \in D, NEW j \in Nat, j < i PROVE j \in D
      <4>1. i \in Nat /\ i + 1 \in DOMAIN x.queue /\ j + 1 \in Nat /\ j + 1 < i + 1
        BY <2>2, <3>2
      <4>2. j + 1 \in DOMAIN x.queue
        BY <1>2, <4>1
      <4> QED
        BY <2>3, <4>2
    <3> QED
      BY <2>4, <2>9, <3>1, <3>2, Zenon DEF RowsFresh
  <2>13. FlightFresh(y, Resend - 1)
    <3>1. FlightFresh(x, Resend - 1)
      BY DEF Decided
    <3> QED
      BY <2>7, <2>9, <2>10, <3>1, Zenon DEF FlightFresh
  <2> QED
    BY <2>7, <2>8, <2>9, <2>10, <2>11, <2>12, <2>13, Zenon DEF Between
<1> QED
  BY <1>3, <1>4

(* A mailbox of one, emptied, and one to which the offer is added.         *)
LEMMA OneOffer == ASSUME NEW q PROVE Append(<<>>, q) = <<q>> /\ <<q>> # <<>>
OBVIOUS

(* The schedule that a tick steps: its mailbox holds the answer to its own *)
(* observation, if any.                                                    *)
LEMMA TickStarts ==
    ASSUME CloudInv, run = "live", ~cend, NEW d \in 1 .. MaxGap,
           NEW w, w = IF sched = Nil THEN NewSchedule ELSE Later(sched, d)
    PROVE  /\ Within(w) /\ Reported(w)
           /\ w.fly = Nil => Empty
           /\ w.fly # Nil => Carried(w.fly.seq)
           /\ sched # Nil /\ sched.holding =>
                w.holding /\ DOMAIN w.queue = {} /\ w.held = Capped(sched.held + d, AgeCap)
<1>1. IF sched # Nil /\ sched.fly # Nil THEN Carried(sched.fly.seq) ELSE Empty
  BY DEF CloudInv, SlotOK
<1>2. CASE sched = Nil
  <2>1. w = NewSchedule
    BY <1>2
  <2>2. Within(w) /\ w.fly = Nil
    BY <2>1, NewWithin, Zenon
  <2>3. Empty /\ results = <<>>
    BY <1>1, <1>2 DEF Empty
  <2> QED
    BY <1>2, <2>2, <2>3, Zenon DEF Reported
<1>3. CASE sched # Nil
  <2>1. w = Later(sched, d) /\ Between(sched)
    BY <1>3 DEF CloudInv
  <2>2. /\ Within(w) /\ w.holding = sched.holding
        /\ sched.holding => DOMAIN w.queue = {}
        /\ w.held = Capped(sched.held + d, AgeCap)
        /\ sched.fly = Nil <=> w.fly = Nil
        /\ sched.fly # Nil => w.fly.seq = sched.fly.seq
    BY <2>1, LaterFresh
  <2>3. w.fly = Nil => Empty
    BY <1>1, <2>2, Zenon
  <2>4. w.fly # Nil => Carried(w.fly.seq)
    BY <1>1, <1>3, <2>2, Zenon
  <2>5. Reported(w)
    BY <2>3, <2>4, Zenon DEF Empty, Carried, Reported
  <2> QED
    BY <2>2, <2>3, <2>4, <2>5, Zenon
<1> QED
  BY <1>2, <1>3

(* A tick that steps and goes on.                                          *)
LEMMA TickGoesOn ==
    ASSUME CloudInv, run = "live", ~cend, NEW d \in 1 .. MaxGap, NEW ready \in BOOLEAN,
           NEW w, w = IF sched = Nil THEN NewSchedule ELSE Later(sched, d),
           NEW x, x = Stepped(w), ~x.bad,
           sched' = Popped(IF ready /\ ObsDue(x) THEN Sent(x) ELSE x),
           offers' = IF ready /\ ObsDue(x) THEN Append(offers, x.seq) ELSE offers,
           moved' = IF Have(x) THEN x.queue[0] ELSE Nil,
           results' = <<>>, run' = run, cend' = cend, wire' = wire
    PROVE  /\ Between(sched') /\ sched' # Nil
           /\ moved' # Nil => moved' \in Nat /\ moved' <= Oldest
           /\ sched # Nil /\ sched.holding /\ moved' # Nil =>
                moved' <= Capped(sched.held + MaxGap, AgeCap)
           /\ SlotOK'
<1>1. /\ Within(w) /\ Reported(w)
      /\ w.fly = Nil => Empty
      /\ w.fly # Nil => Carried(w.fly.seq)
      /\ sched # Nil /\ sched.holding =>
           w.holding /\ DOMAIN w.queue = {} /\ w.held = Capped(sched.held + d, AgeCap)
  BY TickStarts
<1>2. /\ Decided(x)
      /\ results = <<>> => x.fly = w.fly
      /\ results # <<>> => x.fly = Nil
      /\ w.holding /\ DOMAIN w.queue = {} /\ Have(x) => x.queue[0] <= w.held
  BY <1>1, SteppedDecided
<1> DEFINE sends == ready /\ ObsDue(x)
           t == IF sends THEN Sent(x) ELSE x
<1>3. sched' = Popped(t)
  BY Zenon
<1>4. sends => x.fly = Nil
  BY Zenon DEF ObsDue
<1> HIDE DEF sends
<1>5. /\ Decided(t)
      /\ sends => t.fly # Nil /\ t.fly.seq = x.seq
      /\ ~sends => t.fly = x.fly
  <2>1. CASE sends
    <3>1. t = Sent(x)
      BY <2>1, Zenon
    <3> HIDE DEF t
    <3> QED
      BY <1>2, <1>4, <2>1, <3>1, SentDecided
  <2>2. CASE ~sends
    BY <1>2, <2>2, Zenon
  <2> QED
    BY <2>1, <2>2
<1> HIDE DEF t
<1>6. /\ Between(sched')
      /\ t.fly = Nil <=> sched'.fly = Nil
      /\ t.fly # Nil => sched'.fly.seq = t.fly.seq
  BY <1>3, <1>5, PoppedBetween
<1>7. sched' # Nil
  BY <1>6, RunConstants DEF Between
<1>8. ASSUME moved' # Nil PROVE Have(x) /\ moved' = x.queue[0]
  BY <1>8, Zenon
<1>9. ASSUME moved' # Nil PROVE moved' \in Nat /\ moved' <= Oldest
  <2>1. x.queue \in Queues /\ 0 \in DOMAIN x.queue
    BY <1>2, <1>8, <1>9 DEF Decided, Schedules, Have
  <2>2. x.queue[0] \in Nat /\ x.queue[0] + (0 + 0) * MaxGap <= Oldest
    BY <1>2, <2>1, QueueIs DEF Decided, RowsFresh
  <2>3. (0 + 0) * MaxGap = 0
    BY RunConstants
  <2> QED
    BY <1>8, <1>9, <2>2, <2>3
<1>10. ASSUME sched # Nil, sched.holding, moved' # Nil
       PROVE  moved' <= Capped(sched.held + MaxGap, AgeCap)
  <2>1. moved' \in Nat /\ moved' <= Capped(sched.held + d, AgeCap)
    BY <1>1, <1>2, <1>8, <1>9, <1>10
  <2>2. sched.held \in Nat
    BY <1>10 DEF CloudInv, Between, Schedules
  <2> QED
    BY <2>1, <2>2, RunConstants DEF Capped
<1>11. SlotOK'
  <2>1. CASE sends
    <3>1. x.fly = Nil
      BY <1>4, <2>1
    <3>2. offers = <<>> /\ wire = {}
      BY <1>1, <1>2, <3>1, Zenon DEF Empty, Carried
    <3>3. offers' = <<x.seq>>
      BY <2>1, <3>2, OneOffer DEF sends
    <3>4. sched'.fly # Nil /\ sched'.fly.seq = x.seq
      BY <1>5, <1>6, <2>1, Zenon
    <3>5. Carried(x.seq)'
      BY <3>2, <3>3, Zenon DEF Carried
    <3> QED
      BY <1>7, <3>3, <3>2, <3>4, Zenon DEF SlotOK, Carried
  <2>2. CASE ~sends
    <3>1. offers' = offers
      BY <2>2, Zenon DEF sends
    <3>2. CASE results = <<>>
      <4>1. x.fly = w.fly /\ t.fly = x.fly
        BY <1>2, <1>5, <2>2, <3>2, Zenon
      <4>2. CASE w.fly = Nil
        BY <1>1, <1>6, <3>1, <3>2, <4>1, <4>2, Zenon DEF SlotOK, Empty
      <4>3. CASE w.fly # Nil
        <5>1. Carried(w.fly.seq)
          BY <1>1, <4>3
        <5>2. sched'.fly # Nil /\ sched'.fly.seq = w.fly.seq
          BY <1>6, <4>1, <4>3, Zenon
        <5> QED
          BY <1>7, <3>1, <3>2, <5>1, <5>2, Zenon DEF SlotOK, Carried
      <4> QED
        BY <4>2, <4>3
    <3>3. CASE results # <<>>
      <4>1. sched'.fly = Nil
        BY <1>2, <1>5, <1>6, <2>2, <3>3, Zenon
      <4>2. offers = <<>> /\ wire = {}
        BY <1>1, <3>3, Zenon DEF Empty, Carried
      <4> QED
        BY <3>1, <4>1, <4>2, Zenon DEF SlotOK, Empty
    <3> QED
      BY <3>2, <3>3
  <2> QED
    BY <2>1, <2>2
<1> QED
  BY <1>6, <1>7, <1>9, <1>10, <1>11

LEMMA CloudInit == ASSUME RunInit PROVE CloudInv
<1>1. SlotOK
  BY Zenon DEF RunInit, SlotOK, Empty
<1> QED
  BY <1>1 DEF RunInit, CloudInv

(* What the slot's agreement depends on.                                   *)
LEMMA SlotKept ==
    ASSUME SlotOK, sched' = sched, offers' = offers, wire' = wire, results' = results,
           run' # "over" /\ ~cend' => run # "over" /\ ~cend
    PROVE  SlotOK'
BY Zenon DEF SlotOK, Carried, Empty

(* The end of a run.                                                       *)
LEMMA EndKeeps ==
    ASSUME CloudInv, NEW reason, EndInference(reason), age' \in Nat
    PROVE  CloudInv'
<1>1. run' = "over" /\ moved' = Nil
  BY DEF EndInference
<1>2. SlotOK'
  BY <1>1 DEF SlotOK
<1> QED
  BY <1>1, <1>2 DEF CloudInv

LEMMA PassesTime ==
    ASSUME CloudInv, NEW d \in 1 .. MaxGap, Passes(d)
    PROVE  run = "live" /\ age' \in Nat
BY RunConstants DEF CloudInv, Passes, Capped

LEMMA TickKeeps ==
    ASSUME CloudInv, NEW d \in 1 .. MaxGap, NEW ready \in BOOLEAN, TickSteps(d, ready)
    PROVE  /\ CloudInv'
           /\ sched # Nil /\ sched.holding /\ moved' # Nil =>
                moved' <= Capped(sched.held + MaxGap, AgeCap)
<1> DEFINE w == IF sched = Nil THEN NewSchedule ELSE Later(sched, d)
           x == Stepped(w)
<1>1. Passes(d) /\ ~cend
  BY Zenon DEF TickSteps
<1>2. run = "live" /\ age' \in Nat
  BY <1>1, PassesTime
<1>3. \/ EndInference("bye")
      \/ /\ ~RunEndsNow(x)
         /\ sched' = Popped(IF ready /\ ObsDue(x) THEN Sent(x) ELSE x)
         /\ offers' = IF ready /\ ObsDue(x) THEN Append(offers, x.seq) ELSE offers
         /\ moved' = IF Have(x) THEN x.queue[0] ELSE Nil
         /\ results' = <<>>
         /\ UNCHANGED <<run, clientVars, closing>>
  BY Zenon DEF TickSteps
<1>4. CASE EndInference("bye")
  BY <1>2, <1>4, EndKeeps, Zenon DEF EndInference
<1>5. CASE /\ ~RunEndsNow(x)
           /\ sched' = Popped(IF ready /\ ObsDue(x) THEN Sent(x) ELSE x)
           /\ offers' = IF ready /\ ObsDue(x) THEN Append(offers, x.seq) ELSE offers
           /\ moved' = IF Have(x) THEN x.queue[0] ELSE Nil
           /\ results' = <<>>
           /\ UNCHANGED <<run, clientVars, closing>>
  <2>1. ~x.bad
    BY <1>5, Zenon DEF RunEndsNow
  <2>2. run' = run /\ cend' = cend /\ wire' = wire /\ closing' = closing
    BY <1>5 DEF clientVars
  <2>3. w = (IF sched = Nil THEN NewSchedule ELSE Later(sched, d)) /\ x = Stepped(w)
    BY Zenon
  <2>4. /\ sched' = Popped(IF ready /\ ObsDue(x) THEN Sent(x) ELSE x)
        /\ offers' = IF ready /\ ObsDue(x) THEN Append(offers, x.seq) ELSE offers
        /\ moved' = IF Have(x) THEN x.queue[0] ELSE Nil
        /\ results' = <<>>
    BY <1>5, Zenon
  <2> HIDE DEF w, x
  <2>5. /\ Between(sched') /\ sched' # Nil
        /\ moved' # Nil => moved' \in Nat /\ moved' <= Oldest
        /\ sched # Nil /\ sched.holding /\ moved' # Nil =>
             moved' <= Capped(sched.held + MaxGap, AgeCap)
        /\ SlotOK'
    BY <1>1, <1>2, <2>1, <2>2, <2>3, <2>4, TickGoesOn
  <2>6. Between(sched)'
    BY <2>5 DEF Between, Schedules, Queues, Flights, RowsFresh, FlightFresh, Oldest
  <2>7. run' = "live" /\ run' # "off"
    BY <1>2, <2>2
  <2> QED
    BY <1>2, <2>2, <2>5, <2>6, <2>7 DEF CloudInv, Oldest
<1> QED
  BY <1>3, <1>4, <1>5

(* A request leaves the wire with its answer.                              *)
LEMMA AnswerKeeps ==
    ASSUME CloudInv, NEW q \in wire, NEW chunk \in {"rows", "bad", "none"}, Answer(q, chunk)
    PROVE  CloudInv'
<1>1. /\ wire' = wire \ {q}
      /\ ~cend => results' = Append(results, [seq |-> q, chunk |-> chunk])
      /\ run' = run /\ age' = age /\ sched' = sched /\ moved' = moved
      /\ cend' = cend /\ offers' = offers /\ closing' = closing
  BY Zenon DEF Answer, runVars
<1>2. SlotOK'
  <2>1. ASSUME run # "over", ~cend
        PROVE  IF sched # Nil /\ sched.fly # Nil THEN Carried(sched.fly.seq)' ELSE Empty'
    <3>1. IF sched # Nil /\ sched.fly # Nil THEN Carried(sched.fly.seq) ELSE Empty
      BY <2>1, Zenon DEF CloudInv, SlotOK
    <3>2. wire # {}
      OBVIOUS
    <3>3. sched # Nil /\ sched.fly # Nil /\ offers = <<>> /\ wire = {sched.fly.seq} /\ results = <<>>
      BY <3>1, <3>2, Zenon DEF Carried, Empty
    <3>4. q = sched.fly.seq /\ wire' = {}
      BY <1>1, <3>3
    <3>5. results' = <<[seq |-> q, chunk |-> chunk]>>
      BY <1>1, <2>1, <3>3, OneOffer
    <3>6. Carried(sched.fly.seq)'
      BY <1>1, <3>3, <3>4, <3>5, Zenon DEF Carried
    <3> QED
      BY <3>3, <3>6
  <2> QED
    BY <1>1, <2>1, Zenon DEF SlotOK
<1> QED
  BY <1>1, <1>2, Zenon DEF CloudInv, Between, Schedules, Queues, Flights, RowsFresh, FlightFresh, Oldest

LEMMA PostKeeps == ASSUME CloudInv, Post PROVE CloudInv'
<1>1. /\ wire' = wire \cup Range(offers) /\ offers' = <<>> /\ offers # <<>> /\ ~cend
      /\ run' = run /\ age' = age /\ sched' = sched /\ moved' = moved
      /\ cend' = cend /\ results' = results /\ closing' = closing
  BY Zenon DEF Post, runVars
<1>2. SlotOK'
  <2>1. ASSUME run # "over"
        PROVE  IF sched # Nil /\ sched.fly # Nil THEN Carried(sched.fly.seq)' ELSE Empty'
    <3>1. IF sched # Nil /\ sched.fly # Nil THEN Carried(sched.fly.seq) ELSE Empty
      BY <1>1, <2>1, Zenon DEF CloudInv, SlotOK
    <3>2. sched # Nil /\ sched.fly # Nil
          /\ offers = <<sched.fly.seq>> /\ wire = {} /\ results = <<>>
      BY <1>1, <3>1, Zenon DEF Carried, Empty
    <3>3. Range(<<sched.fly.seq>>) = {sched.fly.seq}
      BY DEF Range
    <3>4. wire' = {sched.fly.seq}
      BY <1>1, <3>2, <3>3
    <3>5. Carried(sched.fly.seq)'
      BY <1>1, <3>2, <3>4, Zenon DEF Carried
    <3> QED
      BY <3>2, <3>5
  <2> QED
    BY <1>1, <2>1, Zenon DEF SlotOK
<1> QED
  BY <1>1, <1>2, Zenon DEF CloudInv, Between, Schedules, Queues, Flights, RowsFresh, FlightFresh, Oldest

(* A step that leaves the schedule, the mailboxes and the wire alone, or   *)
(* after which the client has an end.                                      *)
LEMMA ClientKeeps ==
    ASSUME CloudInv, run' = run, age' = age, sched' = sched, moved' = moved, closing' = closing,
           run # "off" \/ cend' = cend,
           cend' \/ (~cend /\ UNCHANGED <<offers, wire, results>>)
    PROVE  CloudInv'
<1>1. run' = run /\ age' = age /\ sched' = sched /\ moved' = moved /\ closing' = closing
  OBVIOUS
<1>2. SlotOK'
  <2>1. CASE cend'
    BY <2>1 DEF SlotOK
  <2>2. CASE ~cend /\ UNCHANGED <<offers, wire, results>>
    <3>1. offers' = offers /\ wire' = wire /\ results' = results
      BY <2>2
    <3> QED
      BY <1>1, <2>2, <3>1, SlotKept, Zenon DEF CloudInv
  <2> QED
    BY <2>1, <2>2
<1>3. run' = "off" => sched' = Nil /\ ~cend'
  BY <1>1, Zenon DEF CloudInv
<1>4. run' = "live" /\ sched' # Nil => Between(sched)'
  <2>1. run = "live" /\ sched # Nil => Between(sched)
    BY DEF CloudInv
  <2> QED
    BY <1>1, <2>1, Zenon
    DEF Between, Schedules, Queues, Flights, RowsFresh, FlightFresh, Oldest
<1> QED
  BY <1>1, <1>2, <1>3, <1>4, Zenon DEF CloudInv, Oldest

LEMMA CloudStep == ASSUME CloudInv, RunNext PROVE CloudInv'
<1>1. CASE Start
  <2>1. /\ run = "off" /\ run' = "live" /\ age' = age /\ sched' = sched /\ moved' = moved
        /\ cend' = cend /\ offers' = offers /\ wire' = wire /\ results' = results
        /\ closing' = closing
    BY <1>1 DEF Start, clientVars
  <2>2. sched = Nil /\ ~cend /\ moved = Nil /\ closing = Nil /\ age \in Nat
    BY <2>1 DEF CloudInv
  <2>3. SlotOK'
    BY <2>1, <2>2, SlotKept DEF CloudInv
  <2> QED
    BY <2>1, <2>2, <2>3 DEF CloudInv
<1>2. CASE Stop
  BY <1>2, EndKeeps, Zenon DEF Stop, CloudInv
<1>3. CASE Ticks
  <2>1. PICK d \in 1 .. MaxGap :
            \/ TickClientEnded(d) \/ TickFails(d) \/ TickLoading(d)
            \/ \E ready \in BOOLEAN : TickSteps(d, ready)
    BY <1>3, Zenon DEF Ticks
  <2>2. CASE TickClientEnded(d)
    <3>1. age' \in Nat
      BY <2>2, PassesTime, Zenon DEF TickClientEnded
    <3> QED
      BY <2>2, <3>1, EndKeeps, Zenon DEF TickClientEnded
  <2>3. CASE TickFails(d)
    <3>1. age' \in Nat
      BY <2>3, PassesTime, Zenon DEF TickFails
    <3> QED
      BY <2>3, <3>1, EndKeeps, Zenon DEF TickFails
  <2>4. CASE TickLoading(d)
    <3>1. run = "live" /\ age' \in Nat /\ ~cend /\ sched = Nil
      BY <2>4, PassesTime, Zenon DEF TickLoading
    <3>2. CASE EndInference("bye")
      BY <3>1, <3>2, EndKeeps
    <3>3. CASE moved' = Nil /\ UNCHANGED <<run, sched, clientVars, offers, results, closing>>
      <4>1. /\ run' = run /\ sched' = sched /\ cend' = cend /\ wire' = wire
            /\ offers' = offers /\ results' = results /\ closing' = closing /\ moved' = Nil
        BY <3>3 DEF clientVars
      <4>2. SlotOK'
        BY <4>1, SlotKept, Zenon DEF CloudInv
      <4> QED
        BY <3>1, <4>1, <4>2 DEF CloudInv
    <3> QED
      BY <2>4, <3>2, <3>3, Zenon DEF TickLoading
  <2>5. CASE \E ready \in BOOLEAN : TickSteps(d, ready)
    BY <2>5, TickKeeps, Zenon
  <2> QED
    BY <2>1, <2>2, <2>3, <2>4, <2>5
<1>4. CASE HelloReady \/ HelloEnds \/ HelloFails
  <2>1. run' = run /\ age' = age /\ sched' = sched /\ moved' = moved /\ closing' = closing
        /\ run # "off"
    BY <1>4, Zenon DEF HelloReady, HelloEnds, HelloFails, runVars
  <2>2. cend' \/ (~cend /\ UNCHANGED <<offers, wire, results>>)
    BY <1>4, Zenon DEF HelloReady, HelloEnds, HelloFails
  <2> QED
    BY <2>1, <2>2, ClientKeeps
<1>5. CASE Post
  BY <1>5, PostKeeps
<1>6. CASE Answers
  <2>1. PICK q \in wire : EndsRun(q) \/ \E chunk \in {"rows", "bad", "none"} : Answer(q, chunk)
    BY <1>6, Zenon DEF Answers
  <2>2. CASE EndsRun(q)
    <3>1. run' = run /\ age' = age /\ sched' = sched /\ moved' = moved /\ closing' = closing
          /\ cend'
      BY <2>2, Zenon DEF EndsRun, runVars
    <3>2. run = "off" => cend' = cend
      <4>1. CASE run = "off"
        <5>1. wire = {}
          BY <4>1, Zenon DEF CloudInv, SlotOK, Empty
        <5> QED
          BY <5>1
      <4> QED
        BY <4>1
    <3>3. (run # "off" \/ cend' = cend) /\ (cend' \/ (~cend /\ UNCHANGED <<offers, wire, results>>))
      BY <3>1, <3>2, Zenon
    <3> QED
      BY <3>1, <3>3, ClientKeeps
  <2>3. CASE \E chunk \in {"rows", "bad", "none"} : Answer(q, chunk)
    BY <2>3, AnswerKeeps
  <2> QED
    BY <2>1, <2>2, <2>3
<1>7. CASE Close
  <2>1. run' = run /\ age' = age /\ sched' = sched /\ moved' = moved /\ closing' = closing
        /\ cend' = cend /\ closing # Nil
    BY <1>7, Zenon DEF Close, runVars
  <2>2. run = "over"
    BY <2>1 DEF CloudInv
  <2>3. SlotOK'
    BY <2>1, <2>2 DEF SlotOK, runVars
  <2> QED
    BY <2>1, <2>2, <2>3 DEF CloudInv, runVars
<1>8. CASE ThreadEnds
  <2>1. run' = run /\ age' = age /\ sched' = sched /\ moved' = moved /\ closing' = closing
        /\ cend' /\ run # "off"
    BY <1>8, Zenon DEF ThreadEnds, runVars
  <2>2. cend' \/ (~cend /\ UNCHANGED <<offers, wire, results>>)
    BY <2>1, Zenon
  <2> QED
    BY <2>1, <2>2, ClientKeeps
<1> QED
  BY <1>1, <1>2, <1>3, <1>4, <1>5, <1>6, <1>7, <1>8 DEF RunNext

-----------------------------------------------------------------------------
\* The invariant of a run of cloud inference: what the schedule holds between two ticks is
\* young enough to be moved on when its turn comes, and its observation is in one mailbox or
\* on the wire.
THEOREM CloudInvariant == RunSpec => []CloudInv
<1>1. RunInit => CloudInv
  BY CloudInit
<1>2. CloudInv /\ [RunNext]_cloudVars => CloudInv'
  <2> SUFFICES ASSUME CloudInv, [RunNext]_cloudVars PROVE CloudInv'
    OBVIOUS
  <2>1. CASE RunNext
    BY <2>1, CloudStep
  <2>2. CASE UNCHANGED cloudVars
    <3>1. UNCHANGED <<runVars, closing, offers, wire, results, cend>>
      BY <2>2 DEF cloudVars, clientVars
    <3> QED
      BY <3>1, SlotKept, Zenon
      DEF CloudInv, runVars, Between, Schedules, Queues, Flights, RowsFresh, FlightFresh, Oldest
  <2> QED
    BY <2>1, <2>2
<1> QED
  BY <1>1, <1>2, PTL DEF RunSpec

\* The slot and the wire agree, whatever the network, the ticks and the client's end do: an
\* observation in flight is offered, on the wire or answered, exactly once (step, _adopt,
\* offer, _post and take_chunks), so no second request delays the first and no slot waits for
\* a request that is not made.
THEOREM SlotAndWire == RunSpec => []OneOnTheWire
<1>1. CloudInv => OneOnTheWire
  <2> SUFFICES ASSUME CloudInv, run = "live", ~cend
               PROVE  Len(offers) + Cardinality(wire) + Len(results)
                        = IF sched # Nil /\ sched.fly # Nil THEN 1 ELSE 0
    BY DEF OneOnTheWire
  <2>1. IF sched # Nil /\ sched.fly # Nil THEN Carried(sched.fly.seq) ELSE Empty
    BY Zenon DEF CloudInv, SlotOK
  <2>2. ASSUME NEW r PROVE Len(<<r>>) = 1 /\ Len(<<>>) = 0 /\ Cardinality({r}) = 1 /\ Cardinality({}) = 0
    BY FS_EmptySet, FS_Singleton
  <2>3. ASSUME NEW q, Carried(q) PROVE Len(offers) + Cardinality(wire) + Len(results) = 1
    <3>1. CASE offers = <<q>> /\ wire = {} /\ results = <<>>
      <4>1. Len(offers) = 1 /\ Cardinality(wire) = 0 /\ Len(results) = 0
        BY <2>2, <3>1, Zenon
      <4> QED
        BY <4>1
    <3>2. CASE offers = <<>> /\ wire = {q} /\ results = <<>>
      <4>1. Len(offers) = 0 /\ Cardinality(wire) = 1 /\ Len(results) = 0
        BY <2>2, <3>2, Zenon
      <4> QED
        BY <4>1
    <3>3. ASSUME offers = <<>>, wire = {}, NEW r, results = <<r>>
          PROVE  Len(offers) + Cardinality(wire) + Len(results) = 1
      <4>1. Len(offers) = 0 /\ Cardinality(wire) = 0 /\ Len(results) = 1
        BY <2>2, <3>3, Zenon
      <4> QED
        BY <4>1
    <3> QED
      BY <2>3, <3>1, <3>2, <3>3, Zenon DEF Carried
  <2>4. ASSUME Empty PROVE Len(offers) + Cardinality(wire) + Len(results) = 0
    BY <2>2, <2>4 DEF Empty
  <2> QED
    BY <2>1, <2>3, <2>4
<1> QED
  BY <1>1, CloudInvariant, PTL

\* The arm never moves on an old picture, for every length of a chunk, cadence and lag of the
\* timer: the action that a tick publishes comes from a picture sent at most the overdue limit
\* and the ticks of its chunk before, and the one that ends a hold from one within the hold.
THEOREM MotionIsFresh == RunSpec => FreshMotion
<1>1. CloudInv => (moved # Nil => run = "live" /\ moved <= Resend - 1 + N * MaxGap)
  BY DEF CloudInv, Oldest
<1>2. CloudInv /\ [RunNext]_cloudVars =>
        [sched # Nil /\ sched'.holding # sched.holding /\ sched.holding /\ moved' # Nil =>
            moved' <= Capped(sched.held + MaxGap, AgeCap)]_cloudVars
  <2> SUFFICES ASSUME CloudInv, RunNext, sched # Nil, sched'.holding # sched.holding,
                      sched.holding, moved' # Nil
               PROVE  moved' <= Capped(sched.held + MaxGap, AgeCap)
    BY Zenon
  <2>1. CASE \E d \in 1 .. MaxGap, ready \in BOOLEAN : TickSteps(d, ready)
    BY <2>1, TickKeeps
  <2>2. CASE ~\E d \in 1 .. MaxGap, ready \in BOOLEAN : TickSteps(d, ready)
    <3>1. sched' = sched \/ moved' = Nil
      BY <2>2, Zenon
      DEF RunNext, Start, Stop, Ticks, TickClientEnded, TickFails, TickLoading, EndInference,
          HelloReady, HelloEnds, HelloFails, Post, Answers, EndsRun, Answer, Close, ThreadEnds,
          runVars
    <3> QED
      BY <3>1
  <2> QED
    BY <2>1, <2>2
<1> QED
  BY <1>1, <1>2, CloudInvariant, PTL DEF RunSpec, FreshMotion

-----------------------------------------------------------------------------
(* The inference server: where the requests of the GPU thread are, and     *)
(* since when a session that is over may still be served.                  *)
Stages == {"free", "connect", "granted", "denied", "peek", "queued", "key", "loading", "warm",
           "leased", "decode", "decoding", "chunk", "failed", "end"}
Requests == [pc : Stages, kind : {"none", "hello", "infer", "prefetch", "bye"},
             conn : Connections \cup {None}, at : Int]
Entries ==
    [conn : Connections \cup {None}, checked : Int, used : Int, failing : Int \cup {None}, denied : BOOLEAN,
     check : {"none", "sent", "ok", "over", "lost"}, sent : Int, told : Int \cup {None}]

ServerTypes ==
    /\ req \in [Reqs -> Requests]
    /\ cpu \in Seq(Reqs) /\ gpu \in Seq(Reqs)
    /\ entry \in [Tokens -> Entries \cup {None}]
    /\ cur \in [Tokens -> Connections \cup {None, "over"}]
    /\ time \in Nat

(* A warm-up that a CPU thread waits for is in the GPU thread's queue.     *)
WarmUpsQueued == \A q \in Reqs : req[q].pc = "warm" => Contains(gpu, q)

(* An entry's times. Once a check could have told that the run is over,    *)
(* that check is under way, or it failed, or another did before it; no     *)
(* check says otherwise any more.                                          *)
Timely(x) ==
    /\ x.check # "none" => x.sent <= time /\ time <= x.sent + Rpc
    /\ x.failing # None => x.failing <= time
Tolerated(x) ==
    \/ x.denied
    \/ x.failing # None /\ x.failing <= x.told + Rpc
    \/ x.check # "none" /\ x.sent <= x.told
EntryOK(t, x) ==
    /\ Timely(x)
    /\ x.told # None => x.told <= time /\ cur[t] # x.conn /\ x.check # "ok" /\ Tolerated(x)

EntriesOK == \A t \in Tokens : entry[t] # None => EntryOK(t, entry[t])
ServerInv == ServerTypes /\ WarmUpsQueued /\ EntriesOK

LEMMA ServerConstants ==
    /\ \A c \in Connections : TokenOf[c] \in Tokens
    /\ Ttl \in Nat /\ Retry \in Nat /\ Rpc \in Nat /\ FailClosed \in Nat /\ Evict \in Nat
    /\ None \notin Connections /\ None \notin Int /\ "over" \notin Connections \cup {None}
BY ServerAssumption

(* One request changes: the kinds of step there are for the two queues.    *)
Moves(q, r) ==
    /\ req' = [req EXCEPT ![q] = r] /\ r \in Requests
    /\ cpu' \in Seq(Reqs)
    /\ \/ gpu' = gpu /\ r.pc # "warm"
       \/ gpu' = Append(gpu, q)
       \/ gpu # <<>> /\ gpu' = Tail(gpu) /\ q = Head(gpu) /\ r.pc # "warm"

Queued ==
    /\ req' \in [Reqs -> Requests]
    /\ cpu' \in Seq(Reqs) /\ gpu' \in Seq(Reqs)
    /\ WarmUpsQueued'

LEMMA Waits ==
    ASSUME NEW s \in Seq(Reqs), NEW q \in Reqs, NEW p
    PROVE  /\ Append(s, q) \in Seq(Reqs) /\ Contains(Append(s, q), q)
           /\ Contains(s, p) => Contains(Append(s, q), p)
           /\ s # <<>> => Head(s) \in Reqs /\ Tail(s) \in Seq(Reqs)
           /\ s # <<>> /\ Contains(s, p) /\ p # Head(s) => Contains(Tail(s), p)
<1>1. Append(s, q) \in Seq(Reqs) /\ Len(Append(s, q)) = Len(s) + 1 /\ Append(s, q)[Len(s) + 1] = q
      /\ \A i \in 1 .. Len(s) : Append(s, q)[i] = s[i]
  OBVIOUS
<1>2. Contains(Append(s, q), q)
  <2>1. Len(s) + 1 \in 1 .. Len(Append(s, q))
    BY <1>1
  <2> QED
    BY <1>1, <2>1, Zenon DEF Contains
<1>3. ASSUME NEW i \in 1 .. Len(s), s[i] = p PROVE Contains(Append(s, q), p)
  <2>1. i \in 1 .. Len(Append(s, q)) /\ Append(s, q)[i] = p
    BY <1>1, <1>3
  <2> QED
    BY <2>1, Zenon DEF Contains
<1>4. ASSUME s # <<>> PROVE Head(s) \in Reqs /\ Tail(s) \in Seq(Reqs)
  BY <1>4
<1>5. ASSUME s # <<>>, NEW i \in 1 .. Len(s), s[i] = p, p # Head(s) PROVE Contains(Tail(s), p)
  <2>1. i # 1 /\ i \in Nat
    BY <1>5
  <2>2. i - 1 \in 1 .. Len(Tail(s)) /\ Tail(s)[i - 1] = s[i]
    BY <1>5, <2>1
  <2> QED
    BY <1>5, <2>2, Zenon DEF Contains
<1> QED
  BY <1>1, <1>2, <1>3, <1>4, <1>5, Zenon DEF Contains

LEMMA MovesQueued ==
    ASSUME ServerInv, NEW q \in Reqs, NEW r, Moves(q, r)
    PROVE  Queued
<1>1. /\ req \in [Reqs -> Requests] /\ gpu \in Seq(Reqs)
      /\ \A p \in Reqs : req[p].pc = "warm" => Contains(gpu, p)
  BY DEF ServerInv, ServerTypes, WarmUpsQueued
<1>2. /\ req' = [req EXCEPT ![q] = r] /\ r \in Requests
      /\ cpu' \in Seq(Reqs)
      /\ \/ gpu' = gpu /\ r.pc # "warm"
         \/ gpu' = Append(gpu, q)
         \/ gpu # <<>> /\ gpu' = Tail(gpu) /\ q = Head(gpu) /\ r.pc # "warm"
  BY Zenon DEF Moves
<1>3. req' \in [Reqs -> Requests] /\ req'[q] = r /\ \A p \in Reqs \ {q} : req'[p] = req[p]
  BY <1>1, <1>2
<1>5. gpu' \in Seq(Reqs)
  BY <1>1, <1>2, Waits
<1>6. ASSUME NEW p \in Reqs, req'[p].pc = "warm" PROVE Contains(gpu', p)
  <2>1. CASE gpu' = gpu /\ r.pc # "warm"
    BY <1>1, <1>3, <1>6, <2>1, Zenon
  <2>2. CASE gpu' = Append(gpu, q)
    <3>1. Contains(Append(gpu, q), q) /\ (Contains(gpu, p) => Contains(Append(gpu, q), p))
      BY <1>1, Waits
    <3> QED
      BY <1>1, <1>3, <1>6, <2>2, <3>1, Zenon
  <2>3. CASE gpu # <<>> /\ gpu' = Tail(gpu) /\ q = Head(gpu) /\ r.pc # "warm"
    <3>1. p # q /\ Contains(gpu, p)
      BY <1>1, <1>3, <1>6, <2>3, Zenon
    <3>2. Contains(Tail(gpu), p)
      BY <1>1, <2>3, <3>1, Waits
    <3> QED
      BY <2>3, <3>2
  <2> QED
    BY <1>2, <2>1, <2>2, <2>3, Zenon
<1>7. WarmUpsQueued'
  BY <1>6, Zenon DEF WarmUpsQueued, Contains
<1> QED
  BY <1>2, <1>3, <1>5, <1>7, Zenon DEF Queued

(* A request's stages: on to the next one, answered, or with an engine.    *)
LEMMA GoesMoves ==
    ASSUME ServerInv, NEW q \in Reqs, NEW pc \in Stages,
           Goes(q, pc), cpu' \in Seq(Reqs),
           \/ gpu' = gpu /\ pc # "warm"
           \/ gpu' = Append(gpu, q)
           \/ gpu # <<>> /\ gpu' = Tail(gpu) /\ q = Head(gpu) /\ pc # "warm"
    PROVE  Queued
<1> DEFINE r == [req[q] EXCEPT !.pc = pc]
<1>1. req[q] \in Requests
  BY DEF ServerInv, ServerTypes
<1>2. r \in Requests /\ r.pc = pc
  BY <1>1 DEF Requests
<1>3. req' = [req EXCEPT ![q] = r]
  BY DEF Goes
<1> HIDE DEF r
<1>4. Moves(q, r)
  BY <1>1, <1>2, <1>3, Zenon DEF Moves
<1> QED
  BY <1>4, MovesQueued

LEMMA AnsweredMoves ==
    ASSUME ServerInv, NEW q \in Reqs, Answered(q), cpu' \in Seq(Reqs),
           gpu' = gpu \/ (gpu # <<>> /\ gpu' = Tail(gpu) /\ q = Head(gpu))
    PROVE  Queued
<1>1. Free \in Requests /\ Free.pc = "free"
  BY DEF Free, Requests, Stages
<1>2. Moves(q, Free)
  BY <1>1 DEF Moves, Answered
<1> QED
  BY <1>2, MovesQueued

LEMMA PoolsAreQueues == ASSUME ServerInv PROVE cpu \in Seq(Reqs) /\ gpu \in Seq(Reqs)
BY DEF ServerInv, ServerTypes

LEMMA AsksMoves ==
    ASSUME ServerInv, NEW q \in Reqs, NEW r \in Requests, AsksEngine(q, r)
    PROVE  Queued
<1>1. PICK pc \in {"leased", "queued"} :
          /\ req' = [req EXCEPT ![q] = [r EXCEPT !.pc = pc]]
          /\ gpu' = gpu /\ (cpu' = cpu \/ cpu' = Append(cpu, q))
  BY Zenon DEF AsksEngine, poolVars
<1> DEFINE n == [r EXCEPT !.pc = pc]
<1>2. n \in Requests /\ n.pc = pc
  BY DEF Requests, Stages
<1>3. cpu' \in Seq(Reqs)
  BY <1>1, PoolsAreQueues
<1>4. req' = [req EXCEPT ![q] = n]
  BY <1>1
<1> HIDE DEF n
<1>5. Moves(q, n)
  BY <1>1, <1>2, <1>3, <1>4 DEF Moves
<1> QED
  BY <1>5, MovesQueued

LEMMA SameQueued == ASSUME ServerInv, UNCHANGED <<req, cpu, gpu>> PROVE Queued
BY Zenon DEF ServerInv, ServerTypes, WarmUpsQueued, Queued

(* What holds of the queues and the requests after every step.             *)
LEMMA StepQueued == ASSUME ServerInv, ServerNext PROVE Queued
<1> USE PoolsAreQueues
<1>1. ASSUME NEW q \in Reqs, NEW c \in Connections, Arrives(q, c) PROVE Queued
  <2>1. ASSUME NEW pc \in Stages, NEW kind \in {"hello", "infer", "prefetch", "bye"}, NEW at \in Int,
               req' = [req EXCEPT ![q] = [pc |-> pc, kind |-> kind, conn |-> c, at |-> at]],
               pc # "warm", UNCHANGED poolVars
        PROVE  Queued
    <3> DEFINE r == [pc |-> pc, kind |-> kind, conn |-> c, at |-> at]
    <3>1. r \in Requests /\ r.pc = pc
      BY DEF Requests
    <3>2. req' = [req EXCEPT ![q] = r] /\ cpu' = cpu /\ gpu' = gpu
      BY <2>1 DEF poolVars
    <3> HIDE DEF r
    <3>3. Moves(q, r)
      BY <2>1, <3>1, <3>2 DEF Moves
    <3> QED
      BY <3>3, MovesQueued
  <2>2. CASE Hello(q, c)
    <3>1. time \in Int /\ "connect" \in Stages
      BY DEF ServerInv, ServerTypes, Stages
    <3>2. req' = [req EXCEPT ![q] = [pc |-> "connect", kind |-> "hello", conn |-> c, at |-> time]]
          /\ UNCHANGED poolVars
      BY <2>2, Zenon DEF Hello
    <3> QED
      BY <2>1, <3>1, <3>2
  <2>3. CASE Prefetch(q, c)
    <3>1. "peek" \in Stages /\ "peek" # "warm" /\ "prefetch" \in {"hello", "infer", "prefetch", "bye"} /\ 0 \in Int
      BY DEF Stages
    <3>2. req' = [req EXCEPT ![q] = [pc |-> "peek", kind |-> "prefetch", conn |-> c, at |-> 0]]
          /\ UNCHANGED poolVars
      BY <2>3, Zenon DEF Prefetch
    <3> QED
      BY <2>1, <3>1, <3>2, Zenon
  <2>4. CASE InferUnknown(q, c)
    <3>1. "connect" \in Stages /\ "connect" # "warm" /\ "infer" \in {"hello", "infer", "prefetch", "bye"} /\ 0 \in Int
      BY DEF Stages
    <3>2. req' = [req EXCEPT ![q] = [pc |-> "connect", kind |-> "infer", conn |-> c, at |-> 0]]
          /\ UNCHANGED poolVars
      BY <2>4, Zenon DEF InferUnknown
    <3> QED
      BY <2>1, <3>1, <3>2, Zenon
  <2>5. CASE InferAccepted(q, c)
    <3>1. CASE UNCHANGED <<req, poolVars, cacheVars>>
      BY <3>1, SameQueued DEF poolVars
    <3>2. CASE AsksEngine(q, [pc |-> "free", kind |-> "infer", conn |-> c, at |-> 0])
      <4> DEFINE r == [pc |-> "free", kind |-> "infer", conn |-> c, at |-> 0]
      <4>1. r \in Requests
        BY DEF Requests, Stages
      <4> HIDE DEF r
      <4>2. AsksEngine(q, r)
        BY <3>2, Zenon DEF r
      <4> QED
        BY <4>1, <4>2, AsksMoves
    <3> QED
      BY <2>5, <3>1, <3>2, Zenon DEF InferAccepted
  <2>6. CASE Bye(q, c)
    <3>1. "end" \in Stages /\ "end" # "warm" /\ "bye" \in {"hello", "infer", "prefetch", "bye"} /\ 0 \in Int
      BY DEF Stages
    <3>2. req' = [req EXCEPT ![q] = [pc |-> "end", kind |-> "bye", conn |-> c, at |-> 0]]
          /\ UNCHANGED poolVars
      BY <2>6, Zenon DEF Bye
    <3> QED
      BY <2>1, <3>1, <3>2, Zenon
  <2> QED
    BY <1>1, <2>2, <2>3, <2>4, <2>5, <2>6 DEF Arrives
<1>2. ASSUME NEW c \in Connections, InferClosed(c) PROVE Queued
  BY <1>2, SameQueued DEF InferClosed, poolVars
<1>3. ASSUME NEW q \in Reqs, LoopRuns(q) PROVE Queued
  <2>1. CASE HelloGranted(q) \/ InferGranted(q)
    <3>1. AsksEngine(q, req[q])
      BY <2>1, Zenon DEF HelloGranted, InferGranted
    <3>2. req[q] \in Requests
      BY DEF ServerInv, ServerTypes
    <3> QED
      BY <3>1, <3>2, AsksMoves
  <2>2. CASE Denied(q) \/ HelloStores(q) \/ PrefetchDone(q) \/ InferRefused(q)
    <3>1. Answered(q) /\ cpu' = cpu /\ gpu' = gpu
      BY <2>2 DEF Denied, HelloStores, PrefetchDone, InferRefused, poolVars
    <3> QED
      BY <3>1, AnsweredMoves
  <2>3. CASE InferValid(q)
    <3>1. Goes(q, "decode") /\ cpu' = Append(cpu, q) /\ gpu' = gpu
          /\ "decode" \in Stages
      BY <2>3 DEF InferValid, Stages
    <3> QED
      BY <3>1, GoesMoves
  <2>4. CASE LoadFailed(q)
    <3>1. At(q, "failed") /\ (Answered(q) \/ Goes(q, "end")) /\ cpu' = cpu /\ gpu' = gpu
      BY <2>4, Zenon DEF LoadFailed, poolVars
    <3>2. "end" \in Stages
      BY DEF Stages
    <3> QED
      BY <3>1, <3>2, AnsweredMoves, GoesMoves
  <2> QED
    BY <1>3, <2>1, <2>2, <2>3, <2>4 DEF LoopRuns
<1>4. ASSUME NEW q \in Reqs, RowAnswers(q) PROVE Queued
  <2>1. CASE ConnectAtRow(q)
    <3>1. At(q, "connect") /\ (Goes(q, "granted") \/ Goes(q, "denied")) /\ cpu' = cpu /\ gpu' = gpu
      BY <2>1, Zenon DEF ConnectAtRow, poolVars
    <3>2. "granted" \in Stages /\ "denied" \in Stages
      BY DEF Stages
    <3> QED
      BY <3>1, <3>2, GoesMoves
  <2>2. CASE PeekAtRow(q)
    <3>1. (Goes(q, "queued") /\ cpu' = Append(cpu, q)) \/ (Answered(q) /\ cpu' = cpu)
      BY <2>2, Zenon DEF PeekAtRow
    <3>3. gpu' = gpu
      BY <2>2 DEF PeekAtRow
    <3>2. "queued" \in Stages
      BY DEF Stages
    <3> QED
      BY <3>1, <3>2, <3>3, AnsweredMoves, GoesMoves
  <2>3. CASE EndAtRow(q)
    <3>1. Answered(q) /\ cpu' = cpu /\ gpu' = gpu
      BY <2>3 DEF EndAtRow, poolVars
    <3> QED
      BY <3>1, AnsweredMoves
  <2> QED
    BY <1>4, <2>1, <2>2, <2>3 DEF RowAnswers
<1>5. ASSUME NEW q \in Reqs, ThreadRuns(q) PROVE Queued
  <2>1. CASE Loads(q)
    <3>1. \/ Goes(q, "warm") /\ gpu' = Append(gpu, q) /\ cpu' = cpu
          \/ Goes(q, "failed") /\ gpu' = gpu /\ cpu' = cpu
      BY <2>1, Zenon DEF Loads, ToWarmUp, poolVars
    <3>2. "warm" \in Stages /\ "failed" \in Stages
      BY DEF Stages
    <3> QED
      BY <3>1, <3>2, GoesMoves
  <2>2. CASE Decodes(q)
    <3>1. (Goes(q, "chunk") /\ gpu' = Append(gpu, q)) \/ (Answered(q) /\ gpu' = gpu)
      BY <2>2, Zenon DEF Decodes
    <3>3. cpu' = cpu
      BY <2>2 DEF Decodes
    <3>2. "chunk" \in Stages
      BY DEF Stages
    <3> QED
      BY <3>1, <3>2, <3>3, AnsweredMoves, GoesMoves
  <2> QED
    BY <1>5, <2>1, <2>2 DEF ThreadRuns
<1>6. ASSUME NEW q \in Reqs, TakesKey(q) PROVE Queued
  <2>1. At(q, "key") /\ (Goes(q, "leased") \/ Goes(q, "loading")) /\ cpu' = cpu /\ gpu' = gpu
    BY <1>6, Zenon DEF TakesKey, poolVars
  <2>2. "leased" \in Stages /\ "loading" \in Stages
    BY DEF Stages
  <2> QED
    BY <2>1, <2>2, GoesMoves
<1>7. ASSUME NEW t \in Tokens, RowEnds(t) \/ CheckReads(t) \/ CheckLands(t) PROVE Queued
  BY <1>7, SameQueued DEF RowEnds, CheckReads, CheckLands, poolVars
<1>8. CASE CpuTakes
  <2> DEFINE q == Head(cpu)
             pc == IF At(q, "queued") THEN "key" ELSE "decoding"
  <2>1. cpu # <<>> /\ Goes(q, pc) /\ cpu' = Tail(cpu) /\ gpu' = gpu
    BY <1>8, Zenon DEF CpuTakes
  <2>2. q \in Reqs /\ cpu' \in Seq(Reqs)
    BY <2>1, Waits
  <2>3. pc \in Stages /\ pc # "warm"
    BY DEF Stages
  <2> QED
    BY <2>1, <2>2, <2>3, GoesMoves
<1>9. CASE GpuRuns
  <2> DEFINE q == Head(gpu)
  <2>1. gpu # <<>> /\ gpu' = Tail(gpu) /\ cpu' = cpu
        /\ ((At(q, "warm") /\ Goes(q, "leased")) \/ Answered(q))
    BY <1>9, Zenon DEF GpuRuns
  <2>2. q \in Reqs
    BY <2>1, Waits
  <2>3. "leased" \in Stages
    BY DEF Stages
  <2> QED
    BY <2>1, <2>2, <2>3, GoesMoves, AnsweredMoves
<1>10. CASE ServerTick
  BY <1>10, SameQueued DEF ServerTick, poolVars
<1> QED
  BY <1>1, <1>2, <1>3, <1>4, <1>5, <1>6, <1>7, <1>8, <1>9, <1>10, Zenon DEF ServerNext

(* What holds of the entries and the rows after every step.                *)
Watched ==
    /\ entry' \in [Tokens -> Entries \cup {None}]
    /\ cur' \in [Tokens -> Connections \cup {None, "over"}]
    /\ time' \in Nat
    /\ EntriesOK'

LEMMA ServerTyped ==
    ASSUME ServerInv
    PROVE  /\ entry \in [Tokens -> Entries \cup {None}]
           /\ cur \in [Tokens -> Connections \cup {None, "over"}]
           /\ time \in Nat /\ req \in [Reqs -> Requests]
           /\ \A t \in Tokens : entry[t] # None => entry[t] \in Entries /\ EntryOK(t, entry[t])
BY DEF ServerInv, ServerTypes, EntriesOK

(* At one time and with one row, an entry is what it was, gone, or one     *)
(* whose times are in order.                                               *)
LEMMA EntriesWatched ==
    ASSUME ServerInv, time' = time, cur' = cur,
           DOMAIN entry' = Tokens, entry' = [t \in DOMAIN entry' |-> entry'[t]],
           \A t \in Tokens : \/ entry'[t] = None \/ entry'[t] = entry[t]
                             \/ entry'[t] \in Entries /\ EntryOK(t, entry'[t])
    PROVE  Watched
<1>1. \A t \in Tokens : /\ entry'[t] \in Entries \cup {None}
                        /\ entry'[t] # None => EntryOK(t, entry'[t])
  BY ServerTyped
<1>2. entry' \in [Tokens -> Entries \cup {None}]
  BY <1>1
<1>3. EntriesOK'
  BY <1>1, Zenon DEF EntriesOK, EntryOK, Timely, Tolerated
<1> QED
  BY <1>2, <1>3, ServerTyped, Zenon DEF Watched

LEMMA Unwatched == ASSUME ServerInv, time' = time, cur' = cur, entry' = entry PROVE Watched
<1>1. EntriesOK'
  BY Zenon DEF ServerInv, EntriesOK, EntryOK, Timely, Tolerated
<1> QED
  BY <1>1, ServerTyped DEF Watched

(* A new entry, and an entry put in another's place.                       *)
LEMMA NewEntryOK ==
    ASSUME ServerInv, NEW t \in Tokens, NEW c \in Connections \cup {None}, NEW at \in Int
    PROVE  NewEntry(c, at) \in Entries /\ EntryOK(t, NewEntry(c, at))
<1>1. NewEntry(c, at) \in Entries
  BY DEF NewEntry, Entries
<1>2. NewEntry(c, at).told = None /\ NewEntry(c, at).failing = None /\ NewEntry(c, at).check = "none"
  BY DEF NewEntry
<1> QED
  BY <1>1, <1>2, Zenon DEF EntryOK, Timely

LEMMA PutWatched ==
    ASSUME ServerInv, time' = time, cur' = cur, NEW k, NEW x,
           \/ entry' = [entry EXCEPT ![k] = x]
           \/ entry' = [Kept EXCEPT ![k] = x]
           \/ entry' = Kept,
           x = None \/ \A t \in Tokens : t = k => x \in Entries /\ EntryOK(t, x)
    PROVE  Watched
<1>1. entry \in [Tokens -> Entries \cup {None}] /\ DOMAIN entry = Tokens /\ DOMAIN Kept = Tokens
  BY ServerTyped DEF Kept
<1>2. \A t \in Tokens : Kept[t] = None \/ Kept[t] = entry[t]
  BY DEF Kept
<1>3. DOMAIN entry' = Tokens /\ entry' = [t \in DOMAIN entry' |-> entry'[t]]
  <2>1. Kept = [t \in DOMAIN Kept |-> Kept[t]]
    BY DEF Kept
  <2> QED
    BY <1>1, <2>1
<1>4. \A t \in Tokens : \/ entry'[t] = None \/ entry'[t] = entry[t]
                        \/ entry'[t] \in Entries /\ EntryOK(t, entry'[t])
  <2>1. \A t \in Tokens : \/ entry'[t] = entry[t] \/ entry'[t] = Kept[t]
                          \/ t = k /\ entry'[t] = x
    <3> DEFINE K == Kept
    <3>1. DOMAIN K = Tokens
      BY <1>1
    <3> HIDE DEF K
    <3>2. \/ entry' = [entry EXCEPT ![k] = x]
          \/ entry' = [K EXCEPT ![k] = x]
          \/ entry' = K
      BY DEF K
    <3>3. \A t \in Tokens : \/ entry'[t] = entry[t] \/ entry'[t] = K[t]
                            \/ t = k /\ entry'[t] = x
      BY <1>1, <3>1, <3>2
    <3> QED
      BY <3>3 DEF K
  <2> QED
    BY <1>2, <2>1, Zenon
<1> QED
  BY <1>3, <1>4, EntriesWatched

(* A check is started.                                                     *)
LEMMA UsedEdits ==
    ASSUME NEW x \in Entries, NEW n \in Int
    PROVE  /\ [x EXCEPT !.used = n] \in Entries
           /\ \A k \in Int \cup {None} :
                [x EXCEPT !.check = "sent", !.sent = n, !.told = k] \in Entries
<1>1. [x EXCEPT !.used = n] \in Entries
  BY DEF Entries
<1>2. ASSUME NEW k \in Int \cup {None}
      PROVE  [x EXCEPT !.check = "sent", !.sent = n, !.told = k] \in Entries
  BY DEF Entries
<1> QED
  BY <1>1, <1>2, Zenon

LEMMA CheckingOK ==
    ASSUME ServerInv, NEW t \in Tokens, entry[t] # None,
           NEW y, y = Checking(t, [entry[t] EXCEPT !.used = time])
    PROVE  y \in Entries /\ EntryOK(t, y)
<1> DEFINE x == [entry[t] EXCEPT !.used = time]
<1>1. entry[t] \in Entries /\ EntryOK(t, entry[t]) /\ time \in Nat /\ time \in Int
  BY ServerTyped
<1>2. x \in Entries
  BY <1>1, UsedEdits, Zenon
<1>3. /\ x.check = entry[t].check /\ x.sent = entry[t].sent /\ x.failing = entry[t].failing
      /\ x.told = entry[t].told /\ x.conn = entry[t].conn
  BY <1>1 DEF Entries
<1>4. x.denied = entry[t].denied
  BY <1>1 DEF Entries
<1> HIDE DEF x
<1>5. EntryOK(t, x)
  BY <1>1, <1>3, <1>4, Zenon DEF EntryOK, Timely, Tolerated
<1>6. y = Checking(t, x)
  BY DEF x
<1>7. CASE time - x.checked >= Ttl /\ x.check = "none"
  <2> DEFINE k == IF x.told = None /\ ~Current(t, x.conn) THEN time ELSE x.told
  <2>1. y = [x EXCEPT !.check = "sent", !.sent = time, !.told = k]
    BY <1>6, <1>7, Zenon DEF Checking
  <2>2. k \in Int \cup {None}
    BY <1>1, <1>2 DEF Entries
  <2>3. [x EXCEPT !.check = "sent", !.sent = time, !.told = k] \in Entries
    <3> HIDE DEF k
    <3> QED
      BY <1>1, <1>2, <2>2, UsedEdits, Zenon
  <2>4. y \in Entries
    BY <2>1, <2>3, Zenon
  <2>5. y.check = "sent" /\ y.sent = time /\ y.told = k /\ y.conn = x.conn /\ y.failing = x.failing
    <3> HIDE DEF k
    <3> QED
      BY <1>2, <2>1 DEF Entries
  <2>6. y.denied = x.denied
    <3> HIDE DEF k
    <3> QED
      BY <1>2, <2>1 DEF Entries
  <2>7. Timely(y)
    BY <1>1, <1>5, <2>5, ServerConstants DEF EntryOK, Timely
  <2>8. ASSUME y.told # None
        PROVE  y.told <= time /\ cur[t] # y.conn /\ y.check # "ok" /\ Tolerated(y)
    <3>1. CASE x.told = None
      <4>1. y.told = time /\ cur[t] # x.conn
        BY <2>5, <2>8, <3>1, Zenon DEF Current
      <4> QED
        BY <1>1, <2>5, <4>1, ServerConstants DEF Tolerated
    <3>2. CASE x.told # None
      <4>1. y.told = x.told
        BY <2>5, <3>2, Zenon
      <4>2. x.told <= time /\ cur[t] # x.conn /\ Tolerated(x)
        BY <1>5, <3>2, Zenon DEF EntryOK
      <4>3. x.denied \/ (x.failing # None /\ x.failing <= x.told + Rpc)
        BY <1>7, <4>2, Zenon DEF Tolerated
      <4>4. Tolerated(y)
        BY <2>5, <2>6, <4>1, <4>3, Zenon DEF Tolerated
      <4> QED
        BY <2>5, <4>1, <4>2, <4>4
    <3> QED
      BY <3>1, <3>2
  <2> QED
    BY <2>4, <2>7, <2>8, Zenon DEF EntryOK
<1>8. CASE ~(time - x.checked >= Ttl /\ x.check = "none")
  BY <1>2, <1>5, <1>6, <1>8, Zenon DEF Checking
<1> QED
  BY <1>7, <1>8

(* A check reads the row: nothing but a loss or the truth.                 *)
LEMMA ReadsWatched == ASSUME ServerInv, NEW t \in Tokens, CheckReads(t) PROVE Watched
<1>1. /\ entry[t] # None /\ entry[t].check = "sent" /\ time' = time /\ cur' = cur
      /\ \E a \in {IF Current(t, entry[t].conn) THEN "ok" ELSE "over", "lost"} :
           entry' = [entry EXCEPT ![t].check = a]
  BY Zenon DEF CheckReads, robotVars
<1>2. PICK a \in {IF Current(t, entry[t].conn) THEN "ok" ELSE "over", "lost"} :
          entry' = [entry EXCEPT ![t].check = a]
  BY <1>1
<1>3. entry[t] \in Entries /\ EntryOK(t, entry[t])
  BY <1>1, ServerTyped
<1> DEFINE x == entry[t]
           y == [x EXCEPT !.check = a]
<1>4. /\ a \in {"ok", "over", "lost"}
      /\ a = "ok" => cur[t] = x.conn
  BY DEF Current
<1>5. y \in Entries
  BY <1>3, <1>4 DEF Entries
<1>6. /\ y.check = a /\ y.sent = x.sent /\ y.failing = x.failing /\ y.told = x.told /\ y.conn = x.conn
  BY <1>3 DEF Entries
<1>7. y.denied = x.denied
  BY <1>3 DEF Entries
<1>8. EntryOK(t, y)
  <2> HIDE DEF y
  <2>1. a # "none" /\ x.check = "sent" /\ x.check # "none"
    BY <1>1, <1>4
  <2>2. Timely(y)
    BY <1>3, <1>6, <2>1, Zenon DEF EntryOK, Timely
  <2>3. ASSUME y.told # None
        PROVE  y.told <= time /\ cur[t] # y.conn /\ y.check # "ok" /\ Tolerated(y)
    <3>1. x.told <= time /\ cur[t] # x.conn /\ Tolerated(x)
      BY <1>3, <1>6, <2>3, Zenon DEF EntryOK
    <3>2. Tolerated(y)
      BY <1>6, <1>7, <2>1, <3>1, Zenon DEF Tolerated
    <3> QED
      BY <1>4, <1>6, <3>1, <3>2, Zenon
  <2> QED
    BY <2>2, <2>3, Zenon DEF EntryOK
<1>9. entry' = [entry EXCEPT ![t] = y]
  BY <1>2
<1> HIDE DEF x, y
<1>10. time' = time /\ cur' = cur /\ \A u \in Tokens : u = t => y \in Entries /\ EntryOK(u, y)
  BY <1>1, <1>5, <1>8, Zenon
<1> QED
  BY <1>9, <1>10, PutWatched

(* Its result lands: a verdict closes the entry, a failure is remembered   *)
(* from the first one on.                                                  *)
LEMMA LandsWatched == ASSUME ServerInv, NEW t \in Tokens, CheckLands(t) PROVE Watched
<1> DEFINE e == entry[t]
           x == [e EXCEPT !.check = "none"]
           y == CASE e.check = "over" -> [x EXCEPT !.denied = TRUE]
                  [] e.check = "lost" -> FailedCheck(x)
                  [] OTHER -> [x EXCEPT !.checked = time, !.failing = None]
<1>1. /\ e # None /\ e.check \in {"ok", "over", "lost"} /\ time' = time /\ cur' = cur
      /\ entry' = [entry EXCEPT ![t] = y]
  BY Zenon DEF CheckLands, robotVars
<1>2. e \in Entries /\ EntryOK(t, e) /\ time \in Nat /\ time \in Int
  BY <1>1, ServerTyped
<1> HIDE DEF e
<1>3. x \in Entries
  BY <1>2 DEF Entries
<1>4. /\ x.check = "none" /\ x.sent = e.sent /\ x.failing = e.failing /\ x.told = e.told
      /\ x.conn = e.conn
  BY <1>2 DEF Entries
<1>5. x.failing \in Int \cup {None} /\ x.told \in Int \cup {None} /\ x.sent \in Int
  BY <1>3 DEF Entries
<1> HIDE DEF x
<1>6. CASE e.check = "over"
  <2>1. y = [x EXCEPT !.denied = TRUE]
    BY <1>6
  <2> HIDE DEF y
  <2>2. y \in Entries
    BY <1>3, <2>1 DEF Entries
  <2>3. y.check = "none" /\ y.failing = x.failing /\ y.told = x.told /\ y.conn = x.conn
    BY <1>3, <1>4, <2>1 DEF Entries
  <2>4. y.denied
    BY <1>3, <2>1 DEF Entries
  <2>5. EntryOK(t, y)
    <3>1. Timely(y)
      BY <1>2, <1>4, <2>3, Zenon DEF EntryOK, Timely
    <3>2. Tolerated(y)
      BY <2>4 DEF Tolerated
    <3>3. y.told # None => y.told <= time /\ cur[t] # y.conn
      BY <1>2, <1>4, <2>3, Zenon DEF EntryOK
    <3>4. y.check # "ok"
      BY <2>3
    <3> QED
      BY <3>1, <3>2, <3>3, <3>4, Zenon DEF EntryOK
  <2> QED
    BY <1>1, <2>2, <2>5, PutWatched, Zenon
<1>7. CASE e.check = "lost"
  <2> DEFINE k == time - Ttl + Retry
             f == IF x.failing = None THEN time ELSE x.failing
  <2>1. y = [x EXCEPT !.checked = k, !.failing = f]
    BY <1>7, Zenon DEF FailedCheck
  <2>2. k \in Int /\ f \in Int /\ f # None /\ f <= time
    BY <1>2, <1>4, <1>5, ServerConstants DEF EntryOK, Timely
  <2> HIDE DEF y, k
  <2>3. y \in Entries
    <3> HIDE DEF f
    <3> QED
      BY <1>3, <2>1, <2>2 DEF Entries
  <2>4. y.check = "none" /\ y.failing = f /\ y.told = x.told /\ y.conn = x.conn
    <3> HIDE DEF f
    <3> QED
      BY <1>3, <1>4, <2>1 DEF Entries
  <2>5. y.denied = e.denied
    <3>1. y.denied = x.denied
      <4> HIDE DEF f
      <4> QED
        BY <1>3, <2>1 DEF Entries
    <3>2. x.denied = e.denied
      BY <1>2 DEF Entries, x
    <3> QED
      BY <3>1, <3>2
  <2>6. ASSUME y.told # None
        PROVE  y.told <= time /\ cur[t] # y.conn /\ Tolerated(y)
    <3>1. e.told <= time /\ cur[t] # e.conn /\ Tolerated(e) /\ e.told \in Int
      BY <1>2, <1>4, <1>5, <2>4, <2>6, Zenon DEF EntryOK
    <3>2. ASSUME e.denied PROVE Tolerated(y)
      BY <2>5, <3>2, Zenon DEF Tolerated
    <3>3. ASSUME e.failing # None, e.failing <= e.told + Rpc PROVE Tolerated(y)
      <4>1. f = e.failing
        BY <1>4, <3>3, Zenon
      <4> QED
        BY <1>4, <2>2, <2>4, <3>3, <4>1, Zenon DEF Tolerated
    <3>4. ASSUME e.check # "none", e.sent <= e.told PROVE Tolerated(y)
      <4>1. time <= e.sent + Rpc
        BY <1>2, <3>4, Zenon DEF EntryOK, Timely
      <4>2. f <= e.told + Rpc
        BY <1>2, <1>4, <1>5, <2>2, <3>1, <3>4, <4>1, ServerConstants
      <4> QED
        BY <1>4, <2>2, <2>4, <4>2, Zenon DEF Tolerated
    <3>5. Tolerated(y)
      BY <3>1, <3>2, <3>3, <3>4, Zenon DEF Tolerated
    <3> QED
      BY <1>4, <2>4, <3>1, <3>5, Zenon
  <2>7. Timely(y) /\ y.check # "ok"
    BY <2>2, <2>4 DEF Timely
  <2>8. EntryOK(t, y)
    BY <2>6, <2>7, Zenon DEF EntryOK
  <2> QED
    BY <1>1, <2>3, <2>8, PutWatched, Zenon
<1>8. CASE e.check = "ok"
  <2>1. y = [x EXCEPT !.checked = time, !.failing = None]
    BY <1>8
  <2> HIDE DEF y
  <2>2. y \in Entries
    BY <1>2, <1>3, <2>1 DEF Entries
  <2>3. y.check = "none" /\ y.failing = None /\ y.told = x.told
    BY <1>3, <1>4, <2>1 DEF Entries
  <2>4. e.told = None
    BY <1>2, <1>8, Zenon DEF EntryOK
  <2>5. EntryOK(t, y)
    BY <1>4, <2>3, <2>4, Zenon DEF EntryOK, Timely
  <2> QED
    BY <1>1, <2>2, <2>5, PutWatched, Zenon
<1> QED
  BY <1>1, <1>6, <1>7, <1>8

(* A row binds another connection, or is over: what an entry was told      *)
(* stays, unless the row is its connection's again.                        *)
LEMMA BoundWatched == ASSUME ServerInv, NEW c \in Connections \cup {None}, Bound(c), time' = time PROVE Watched
<1> DEFINE k == TokenOf[c]
           y == [entry[k] EXCEPT !.told = None]
<1>1. /\ cur' = [cur EXCEPT ![k] = c]
      /\ \/ entry[k] # None /\ entry[k].conn = c /\ entry' = [entry EXCEPT ![k] = y]
         \/ ~(entry[k] # None /\ entry[k].conn = c) /\ entry' = entry
  BY Zenon DEF Bound
<1>2. /\ entry \in [Tokens -> Entries \cup {None}] /\ time \in Nat
      /\ cur \in [Tokens -> Connections \cup {None, "over"}]
      /\ \A t \in Tokens : entry[t] # None => entry[t] \in Entries /\ EntryOK(t, entry[t])
  BY ServerTyped
<1>3. cur' \in [Tokens -> Connections \cup {None, "over"}]
      /\ \A t \in Tokens : cur'[t] = IF t = k THEN c ELSE cur[t]
  BY <1>1, <1>2
<1>4. ASSUME k \in Tokens, entry[k] # None
      PROVE  /\ y \in Entries /\ y.told = None
             /\ y.check = entry[k].check /\ y.sent = entry[k].sent /\ y.failing = entry[k].failing
  BY <1>2, <1>4 DEF Entries
<1> HIDE DEF y
<1>5. entry' \in [Tokens -> Entries \cup {None}]
      /\ \A t \in Tokens : \/ entry'[t] = entry[t] /\ (t # k \/ entry[t] = None \/ entry[t].conn # c)
                           \/ t = k /\ entry[k] # None /\ entry'[t] = y
  BY <1>1, <1>2, <1>4
<1>6. ASSUME NEW t \in Tokens, entry'[t] # None
      PROVE  /\ Timely(entry'[t])
             /\ entry'[t].told # None => /\ entry'[t].told <= time /\ cur'[t] # entry'[t].conn
                                         /\ entry'[t].check # "ok" /\ Tolerated(entry'[t])
  <2>1. CASE entry'[t] = entry[t] /\ (t # k \/ entry[t] = None \/ entry[t].conn # c)
    BY <1>2, <1>3, <1>6, <2>1, Zenon DEF EntryOK
  <2>2. CASE t = k /\ entry[k] # None /\ entry'[t] = y
    BY <1>2, <1>4, <2>2, Zenon DEF EntryOK, Timely
  <2> QED
    BY <1>5, <2>1, <2>2
<1>7. EntriesOK'
  BY <1>6, Zenon DEF EntriesOK, EntryOK, Timely, Tolerated
<1> QED
  BY <1>2, <1>3, <1>5, <1>7, Zenon DEF Watched

LEMMA OverWatched ==
    ASSUME ServerInv, NEW k, cur' = [cur EXCEPT ![k] = "over"], entry' = entry, time' = time
    PROVE  Watched
<1>1. /\ entry \in [Tokens -> Entries \cup {None}] /\ time \in Nat
      /\ cur \in [Tokens -> Connections \cup {None, "over"}]
      /\ \A t \in Tokens : entry[t] # None => entry[t] \in Entries /\ EntryOK(t, entry[t])
  BY ServerTyped
<1>2. cur' \in [Tokens -> Connections \cup {None, "over"}]
      /\ \A t \in Tokens : cur'[t] \in {cur[t], "over"}
  BY <1>1
<1>3. ASSUME NEW t \in Tokens, entry[t] # None, entry[t].told # None
      PROVE  /\ entry[t].told <= time /\ cur'[t] # entry[t].conn
             /\ entry[t].check # "ok" /\ Tolerated(entry[t])
  <2>1. entry[t].conn \in Connections \cup {None}
    BY <1>1, <1>3 DEF Entries
  <2> QED
    BY <1>1, <1>2, <1>3, <2>1, ServerConstants DEF EntryOK
<1>4. \A t \in Tokens : entry[t] # None => Timely(entry[t])
  BY <1>1, Zenon DEF EntryOK
<1>5. EntriesOK'
  BY <1>3, <1>4, Zenon DEF EntriesOK, EntryOK, Timely, Tolerated
<1> QED
  BY <1>1, <1>2, <1>5, Zenon DEF Watched

(* Time waits for the answer to a check.                                   *)
LEMMA TickWatched == ASSUME ServerInv, ServerTick PROVE Watched
<1>1. /\ entry \in [Tokens -> Entries \cup {None}] /\ time \in Nat
      /\ cur \in [Tokens -> Connections \cup {None, "over"}]
      /\ \A t \in Tokens : entry[t] # None => entry[t] \in Entries /\ EntryOK(t, entry[t])
  BY ServerTyped
<1>2. time' = time + 1 /\ entry' = entry /\ cur' = cur
      /\ \A t \in Tokens : entry[t] # None /\ entry[t].check # "none" => time < entry[t].sent + Rpc
  BY DEF ServerTick
<1>3. ASSUME NEW t \in Tokens, entry[t] # None
      PROVE  /\ entry[t].check # "none" => entry[t].sent <= time + 1 /\ time + 1 <= entry[t].sent + Rpc
             /\ entry[t].failing # None => entry[t].failing <= time + 1
             /\ entry[t].told # None => entry[t].told <= time + 1 /\ cur[t] # entry[t].conn
                                        /\ entry[t].check # "ok" /\ Tolerated(entry[t])
  <2>1. /\ entry[t].sent \in Int /\ entry[t].failing \in Int \cup {None}
        /\ entry[t].told \in Int \cup {None}
    BY <1>1, <1>3 DEF Entries
  <2>2. EntryOK(t, entry[t])
    BY <1>1, <1>3
  <2>3. entry[t].check # "none" => time < entry[t].sent + Rpc
    BY <1>2, <1>3
  <2> QED
    BY <1>1, <2>1, <2>2, <2>3, ServerConstants DEF EntryOK, Timely
<1>4. EntriesOK'
  <2>1. ASSUME NEW t \in Tokens, entry[t] # None PROVE EntryOK(t, entry[t])'
    BY <1>2, <1>3, <2>1, Zenon DEF EntryOK, Timely, Tolerated
  <2> QED
    BY <1>2, <2>1, Zenon DEF EntriesOK, EntryOK, Timely, Tolerated
<1> QED
  BY <1>1, <1>2, <1>4 DEF Watched

LEMMA StepWatched == ASSUME ServerInv, ServerNext PROVE Watched
<1>1. ASSUME NEW q \in Reqs, NEW c \in Connections, Arrives(q, c) PROVE Watched
  <2>1. CASE Hello(q, c) \/ InferUnknown(q, c)
    <3>1. entry' = Kept /\ cur' = cur /\ time' = time
      BY <2>1, Zenon DEF Hello, InferUnknown, robotVars
    <3> QED
      BY <3>1, PutWatched
  <2>2. CASE Prefetch(q, c)
    BY <2>2, Unwatched DEF Prefetch
  <2>3. CASE InferAccepted(q, c)
    <3> DEFINE t == TokenOf[c]
               y == Checking(t, [Kept[t] EXCEPT !.used = time])
    <3>1. Kept[t] # None /\ entry' = [Kept EXCEPT ![t] = y] /\ cur' = cur /\ time' = time
      BY <2>3, Zenon DEF InferAccepted
    <3>2. t \in Tokens
      BY ServerConstants
    <3>3. Kept[t] = entry[t] /\ entry[t] # None
      BY <3>1, <3>2 DEF Kept
    <3>4. y = Checking(t, [entry[t] EXCEPT !.used = time])
      BY <3>3
    <3> HIDE DEF t, y
    <3>5. y \in Entries /\ EntryOK(t, y)
      BY <3>2, <3>3, <3>4, CheckingOK
    <3> QED
      BY <3>1, <3>5, PutWatched
  <2>4. CASE Bye(q, c)
    <3>1. cur' = cur /\ time' = time /\ (entry' = entry \/ entry' = [entry EXCEPT ![TokenOf[c]] = None])
      BY <2>4, Zenon DEF Bye
    <3> QED
      BY <3>1, Unwatched, PutWatched
  <2> QED
    BY <1>1, <2>1, <2>2, <2>3, <2>4 DEF Arrives
<1>2. ASSUME NEW c \in Connections, InferClosed(c) PROVE Watched
  <2>1. entry' = [Kept EXCEPT ![TokenOf[c]] = None] /\ cur' = cur /\ time' = time
    BY <1>2, Zenon DEF InferClosed
  <2> QED
    BY <2>1, PutWatched
<1>3. ASSUME NEW q \in Reqs PROVE req[q].conn \in Connections \cup {None} /\ req[q].at \in Int
  BY ServerTyped DEF Requests
<1>4. ASSUME NEW q \in Reqs, LoopRuns(q) PROVE Watched
  <2>1. CASE HelloGranted(q) \/ PrefetchDone(q) \/ InferValid(q) \/ InferRefused(q) \/ LoadFailed(q)
    <3>1. entry' = entry /\ cur' = cur /\ time' = time
      BY <2>1 DEF HelloGranted, PrefetchDone, InferValid, InferRefused, LoadFailed
    <3> QED
      BY <3>1, Unwatched
  <2>2. CASE InferGranted(q) \/ HelloStores(q)
    <3>1. PICK at \in {time, req[q].at} :
              /\ entry' = [entry EXCEPT ![Token(q)] = NewEntry(req[q].conn, at)]
              /\ cur' = cur /\ time' = time
      BY <2>2, Zenon DEF InferGranted, HelloStores
    <3>2. at \in Int
      BY <1>3, ServerTyped
    <3>3. \A t \in Tokens : NewEntry(req[q].conn, at) \in Entries /\ EntryOK(t, NewEntry(req[q].conn, at))
      BY <1>3, <3>2, NewEntryOK
    <3> QED
      BY <3>1, <3>3, PutWatched
  <2>3. CASE Denied(q)
    <3>1. cur' = cur /\ time' = time /\ (entry' = entry \/ entry' = [entry EXCEPT ![Token(q)] = None])
      BY <2>3, Zenon DEF Denied
    <3> QED
      BY <3>1, Unwatched, PutWatched
  <2> QED
    BY <1>4, <2>1, <2>2, <2>3, Zenon DEF LoopRuns
<1>5. ASSUME NEW q \in Reqs, RowAnswers(q) PROVE Watched
  <2>1. CASE ConnectAtRow(q)
    <3>1. time' = time /\ (Bound(req[q].conn) \/ (cur' = cur /\ entry' = entry))
      BY <2>1, Zenon DEF ConnectAtRow
    <3> QED
      BY <1>3, <3>1, BoundWatched, Unwatched
  <2>2. CASE PeekAtRow(q)
    BY <2>2, Unwatched DEF PeekAtRow
  <2>3. CASE EndAtRow(q)
    <3>1. time' = time /\ entry' = entry /\ (cur' = cur \/ cur' = [cur EXCEPT ![Token(q)] = "over"])
      BY <2>3, Zenon DEF EndAtRow
    <3> QED
      BY <3>1, Unwatched, OverWatched
  <2> QED
    BY <1>5, <2>1, <2>2, <2>3 DEF RowAnswers
<1>6. ASSUME NEW q \in Reqs, ThreadRuns(q) \/ TakesKey(q) PROVE Watched
  BY <1>6, Unwatched DEF ThreadRuns, Loads, Decodes, TakesKey
<1>7. ASSUME NEW t \in Tokens, RowEnds(t) \/ CheckReads(t) \/ CheckLands(t) PROVE Watched
  <2>1. CASE RowEnds(t)
    <3>1. time' = time /\ entry' = entry /\ cur' = [cur EXCEPT ![t] = "over"]
      BY <2>1, Zenon DEF RowEnds
    <3> QED
      BY <3>1, OverWatched
  <2> QED
    BY <1>7, <2>1, ReadsWatched, LandsWatched
<1>8. CASE CpuTakes \/ GpuRuns
  BY <1>8, Unwatched DEF CpuTakes, GpuRuns
<1> QED
  BY <1>1, <1>2, <1>4, <1>5, <1>6, <1>7, <1>8, TickWatched, Zenon DEF ServerNext

-----------------------------------------------------------------------------
\* The invariant of the server: a warm-up that is waited for is queued, and what an entry
\* was told of its run is followed by a verdict or a failure that is counted.
THEOREM ServerInvariant == ServerSpec => []ServerInv
<1>1. ServerInit => ServerInv
  <2> SUFFICES ASSUME ServerInit PROVE ServerInv
    OBVIOUS
  <2>1. Free \in Requests /\ Free.pc = "free"
    BY DEF Free, Requests, Stages
  <2>2. ServerTypes
    <3>1. req \in [Reqs -> Requests]
      BY <2>1 DEF ServerInit
    <3>2. cpu \in Seq(Reqs) /\ gpu \in Seq(Reqs)
      BY DEF ServerInit
    <3>3. entry \in [Tokens -> Entries \cup {None}]
          /\ cur \in [Tokens -> Connections \cup {None, "over"}] /\ time \in Nat
      BY DEF ServerInit
    <3> QED
      BY <3>1, <3>2, <3>3 DEF ServerTypes
  <2>3. WarmUpsQueued
    BY <2>1 DEF ServerInit, WarmUpsQueued
  <2>4. EntriesOK
    BY DEF ServerInit, EntriesOK
  <2> QED
    BY <2>2, <2>3, <2>4 DEF ServerInv
<1>2. ServerInv /\ [ServerNext]_serverVars => ServerInv'
  <2> SUFFICES ASSUME ServerInv, [ServerNext]_serverVars PROVE ServerInv'
    OBVIOUS
  <2>1. CASE ServerNext
    BY <2>1, StepQueued, StepWatched, Zenon DEF Queued, Watched, ServerInv, ServerTypes
  <2>2. CASE UNCHANGED serverVars
    <3>1. UNCHANGED <<req, cpu, gpu>> /\ entry' = entry /\ cur' = cur /\ time' = time
      BY <2>2 DEF serverVars, poolVars
    <3>2. Queued /\ Watched
      BY <3>1, SameQueued, Unwatched
    <3> QED
      BY <3>2, Zenon DEF Queued, Watched, ServerInv, ServerTypes
  <2> QED
    BY <2>1, <2>2
<1> QED
  BY <1>1, <1>2, PTL DEF ServerSpec

\* The CPU threads never all wait, for any number of threads, requests and models: the load
\* that a thread waits for at a key's lock goes on, or its warm-up is with the GPU thread
\* (EngineCache.acquire, _warm_on_gpu), which waits for nobody.
THEOREM ThreadsNeverStop == ServerSpec => []ThreadsGoOn
<1>1. ServerInv => ThreadsGoOn
  <2> SUFFICES ASSUME ServerInv, NEW q \in OnCpu PROVE \E p \in OnCpu : GoesOn(p)
    BY DEF ThreadsGoOn
  <2>1. q \in Reqs /\ (\/ req[q].pc \in {"key", "loading", "warm", "decoding"}
                       \/ req[q].pc = "leased")
    BY DEF OnCpu, At
  <2>2. ASSUME NEW p \in Reqs, req[p].pc \in {"loading", "warm"} PROVE p \in OnCpu /\ GoesOn(p)
    <3>1. p \in OnCpu
      BY <2>2 DEF OnCpu
    <3>2. CASE req[p].pc = "loading"
      BY <3>1, <3>2 DEF GoesOn
    <3>3. CASE req[p].pc = "warm"
      <4>1. Contains(gpu, p)
        BY <3>3, Zenon DEF ServerInv, WarmUpsQueued
      <4> QED
        BY <3>1, <3>3, <4>1, Zenon DEF GoesOn, At
    <3> QED
      BY <2>2, <3>2, <3>3
  <2>3. CASE req[q].pc \in {"loading", "warm"}
    BY <2>1, <2>2, <2>3
  <2>4. CASE req[q].pc \in {"decoding", "leased"}
    BY <2>4 DEF GoesOn
  <2>5. CASE req[q].pc = "key"
    <3>1. CASE KeyFree(Model(q))
      BY <2>5, <3>1 DEF GoesOn, At
    <3>2. CASE ~KeyFree(Model(q))
      <4>1. \E p \in Reqs : req[p].pc \in {"loading", "warm"}
        BY <3>2 DEF KeyFree
      <4> QED
        BY <2>2, <4>1
    <3> QED
      BY <3>1, <3>2
  <2> QED
    BY <2>1, <2>3, <2>4, <2>5
<1> QED
  BY <1>1, ServerInvariant, PTL

\* A run that is over, or whose row another connection took, is served no longer than failed
\* checks are tolerated after the first check that could have told (_start_check, _check,
\* _check_failed), for any number of connections and sessions and every value of the limits.
THEOREM OverIsNoticed == ServerSpec => []OverEndsService
<1>1. ServerInv => OverEndsService
  <2> SUFFICES ASSUME ServerInv, NEW t \in Tokens, entry[t] # None, entry[t].told # None,
                      ~Closed(entry[t])
               PROVE  time <= entry[t].told + Rpc + FailClosed
    BY Zenon DEF OverEndsService
  <2> DEFINE x == entry[t]
  <2>1. x \in Entries /\ EntryOK(t, x) /\ time \in Nat
    BY ServerTyped
  <2>2. x.sent \in Int /\ x.failing \in Int \cup {None} /\ x.told \in Int
    BY <2>1 DEF Entries
  <2>3. Tolerated(x) /\ Timely(x)
    BY <2>1, Zenon DEF EntryOK
  <2>4. ~x.denied /\ ~(x.failing # None /\ time - x.failing >= FailClosed)
    BY Zenon DEF Closed
  <2> HIDE DEF x
  <2>5. CASE x.failing # None /\ x.failing <= x.told + Rpc
    BY <2>1, <2>2, <2>4, <2>5, ServerConstants DEF x
  <2>6. CASE x.check # "none" /\ x.sent <= x.told
    <3>1. time <= x.sent + Rpc
      BY <2>3, <2>6, Zenon DEF Timely
    <3> QED
      BY <2>1, <2>2, <2>6, <3>1, ServerConstants DEF x
  <2> QED
    BY <2>3, <2>4, <2>5, <2>6, Zenon DEF Tolerated
<1> QED
  BY <1>1, ServerInvariant, PTL

-----------------------------------------------------------------------------
(* The cache of engines. A request computes with an engine, or it loads    *)
(* one. No request is in two queues or twice in one, so that the step that *)
(* takes it on finds it where it was queued.                               *)
UseStages == {"leased", "decode", "decoding", "chunk"}
LoadStages == {"loading", "warm"}
InUse(x) == x.pc \in UseStages
InLoad(x) == x.pc \in LoadStages
ModelFor(x) == ModelOf[TokenOf[x.conn]]

CpuJobs == {"queued", "decode"}
GpuJobs == {"warm", "chunk"}
JobsIn(s, f, stages) ==
    /\ \A i, j \in 1 .. Len(s) : s[i] = s[j] => i = j
    /\ \A i \in 1 .. Len(s) : f[s[i]].pc \in stages

Known == \A q \in Reqs : req[q].pc # "free" => req[q].conn \in Connections
CacheTypes == slots \subseteq Models /\ refs \in [Models -> Nat]
Counts == \A m \in Models : refs[m] = Cardinality(Users(m))
InUseCached == \A q \in Reqs : InUse(req[q]) => ModelFor(req[q]) \in slots
OneLoader ==
    /\ \A q \in Reqs : InLoad(req[q]) => ModelFor(req[q]) \notin slots
    /\ \A q, p \in Reqs :
           InLoad(req[q]) /\ InLoad(req[p]) /\ ModelFor(req[q]) = ModelFor(req[p]) => q = p
Trimmed == Cardinality(slots) > MaxModels => \A m \in slots : refs[m] > 0

CacheOK == CacheTypes /\ Counts /\ InUseCached /\ OneLoader /\ Trimmed
CacheInv == Known /\ JobsIn(cpu, req, CpuJobs) /\ JobsIn(gpu, req, GpuJobs) /\ CacheOK

(* A queue of distinct jobs stays one: it is left alone by a request that  *)
(* is not in it, joined by one, or its first is taken.                     *)
LEMMA QueueKeeps ==
    ASSUME NEW s \in Seq(Reqs), NEW f, NEW g, NEW stages, JobsIn(s, f, stages),
           NEW q \in Reqs, NEW u, \A p \in Reqs \ {q} : g[p] = f[p],
           \/ u = s /\ f[q].pc \notin stages
           \/ u = Append(s, q) /\ f[q].pc \notin stages /\ g[q].pc \in stages
           \/ s # <<>> /\ u = Tail(s) /\ q = Head(s)
    PROVE  JobsIn(u, g, stages)
<1>1. /\ \A i, j \in 1 .. Len(s) : s[i] = s[j] => i = j
      /\ \A i \in 1 .. Len(s) : f[s[i]].pc \in stages
  BY Zenon DEF JobsIn
<1>2. \A i \in 1 .. Len(s) : s[i] \in Reqs
  OBVIOUS
<1>3. CASE u = s /\ f[q].pc \notin stages
  <2>1. \A i \in 1 .. Len(s) : s[i] # q
    BY <1>1, <1>3
  <2>2. \A i \in 1 .. Len(s) : g[s[i]].pc \in stages
    BY <1>1, <1>2, <2>1, Zenon
  <2> QED
    BY <1>1, <1>3, <2>2, Zenon DEF JobsIn
<1>4. CASE u = Append(s, q) /\ f[q].pc \notin stages /\ g[q].pc \in stages
  <2>1. Len(u) = Len(s) + 1 /\ u[Len(s) + 1] = q /\ \A i \in 1 .. Len(s) : u[i] = s[i]
    BY <1>4
  <2>2. \A i \in 1 .. Len(s) : s[i] # q /\ g[s[i]].pc \in stages
    <3>1. \A i \in 1 .. Len(s) : s[i] # q
      BY <1>1, <1>4, Zenon
    <3> QED
      BY <1>1, <1>2, <3>1, Zenon
  <2>3. Len(s) \in Nat
    OBVIOUS
  <2>4. \A i \in 1 .. Len(u) : i \in 1 .. Len(s) \/ i = Len(s) + 1
    BY <2>1, <2>3
  <2>5. \A i \in 1 .. Len(u) : g[u[i]].pc \in stages
    BY <1>4, <2>1, <2>2, <2>4, Zenon
  <2>6. ASSUME NEW i \in 1 .. Len(u), NEW j \in 1 .. Len(u), u[i] = u[j] PROVE i = j
    <3>1. CASE i \in 1 .. Len(s) /\ j \in 1 .. Len(s)
      BY <1>1, <2>1, <2>6, <3>1, Zenon
    <3>2. CASE i \in 1 .. Len(s) /\ j = Len(s) + 1
      BY <2>1, <2>2, <2>6, <3>2, Zenon
    <3>3. CASE i = Len(s) + 1 /\ j \in 1 .. Len(s)
      BY <2>1, <2>2, <2>6, <3>3, Zenon
    <3> QED
      BY <2>4, <3>1, <3>2, <3>3, Zenon
  <2> QED
    BY <2>5, <2>6, Zenon DEF JobsIn
<1>5. CASE s # <<>> /\ u = Tail(s) /\ q = Head(s)
  <2>1. Len(s) \in Nat \ {0} /\ Len(u) = Len(s) - 1 /\ q = s[1]
    BY <1>5
  <2>2. ASSUME NEW i \in 1 .. Len(u)
        PROVE  i + 1 \in 1 .. Len(s) /\ i + 1 # 1 /\ u[i] = s[i + 1] /\ i \in Int
    <3>1. i \in 1 .. Len(s) - 1 /\ i \in Int
      BY <2>1
    <3>2. i + 1 \in 1 .. Len(s) /\ i + 1 # 1
      BY <2>1, <3>1
    <3>3. Tail(s)[i] = s[i + 1]
      <4>1. i \in 1 .. Len(Tail(s))
        BY <1>5
      <4> QED
        BY <4>1, SMTT(30)
    <3> QED
      BY <1>5, <3>1, <3>2, <3>3
  <2>3. 1 \in 1 .. Len(s)
    BY <2>1
  <2>4. ASSUME NEW i \in 1 .. Len(u) PROVE g[u[i]].pc \in stages
    <3>1. s[i + 1] # q /\ s[i + 1] \in Reqs
      BY <1>1, <1>2, <2>1, <2>2, <2>3, Zenon
    <3> QED
      BY <1>1, <2>2, <3>1, Zenon
  <2>5. ASSUME NEW i \in 1 .. Len(u), NEW j \in 1 .. Len(u), u[i] = u[j] PROVE i = j
    <3>1. i + 1 \in 1 .. Len(s) /\ j + 1 \in 1 .. Len(s) /\ s[i + 1] = s[j + 1]
      BY <2>2, <2>5
    <3>2. i + 1 = j + 1
      BY <1>1, <3>1, Zenon
    <3>3. i \in Int /\ j \in Int
      BY <2>2
    <3> QED
      BY <3>2, <3>3
  <2> QED
    BY <2>4, <2>5, Zenon DEF JobsIn
<1> QED
  BY <1>3, <1>4, <1>5

(* Who uses an engine after one request changed.                           *)
Changed(q, r) == q \in Reqs /\ req \in [Reqs -> Requests] /\ req' = [req EXCEPT ![q] = r]

LEMMA UsersAre ==
    /\ \A m : Users(m) = {q \in Reqs : InUse(req[q]) /\ ModelFor(req[q]) = m}
    /\ \A m : Users(m)' = {q \in Reqs : InUse(req'[q]) /\ ModelFor(req'[q]) = m}
    /\ \A m : IsFiniteSet(Users(m)) /\ Cardinality(Users(m)) \in Nat
<1>1. /\ \A m : Users(m) = {q \in Reqs : InUse(req[q]) /\ ModelFor(req[q]) = m}
      /\ \A m : Users(m)' = {q \in Reqs : InUse(req'[q]) /\ ModelFor(req'[q]) = m}
  BY DEF Users, InUse, UseStages, ModelFor, Model, Token
<1>2. ASSUME NEW m PROVE IsFiniteSet(Users(m)) /\ Cardinality(Users(m)) \in Nat
  <2>1. Users(m) \subseteq Reqs
    BY DEF Users
  <2>2. IsFiniteSet(Reqs)
    BY ServerAssumption
  <2>3. IsFiniteSet(Users(m))
    BY <2>1, <2>2, FS_Subset
  <2> QED
    BY <2>3, FS_CardinalityType
<1> QED
  BY <1>1, <1>2

LEMMA UsersChange ==
    ASSUME NEW q, NEW r, Changed(q, r)
    PROVE  /\ req'[q] = r /\ \A p \in Reqs \ {q} : req'[p] = req[p]
           /\ \A m : ~(InUse(r) /\ ModelFor(r) = m) => Users(m)' = Users(m) \ {q}
           /\ \A m : InUse(r) /\ ModelFor(r) = m => Users(m)' = Users(m) \cup {q}
           /\ \A m : q \in Users(m) <=> InUse(req[q]) /\ ModelFor(req[q]) = m
<1>1. req'[q] = r /\ \A p \in Reqs \ {q} : req'[p] = req[p]
  BY DEF Changed
<1>2. q \in Reqs
  BY DEF Changed
<1>3. ASSUME NEW m, ~(InUse(r) /\ ModelFor(r) = m) PROVE Users(m)' = Users(m) \ {q}
  <2>1. \A p \in Reqs : p \in Users(m)' <=> p \in Users(m) /\ p # q
    <3>1. ASSUME NEW p \in Reqs, p # q PROVE p \in Users(m)' <=> p \in Users(m)
      <4>1. req'[p] = req[p]
        BY <1>1, <3>1
      <4> QED
        BY <4>1, UsersAre, Zenon
    <3>2. q \notin Users(m)'
      BY <1>1, <1>3, UsersAre, Zenon
    <3> QED
      BY <3>1, <3>2
  <2>2. Users(m) \subseteq Reqs /\ Users(m)' \subseteq Reqs
    BY UsersAre
  <2> QED
    BY <2>1, <2>2
<1>4. ASSUME NEW m, InUse(r) /\ ModelFor(r) = m PROVE Users(m)' = Users(m) \cup {q}
  <2>1. \A p \in Reqs : p \in Users(m)' <=> p \in Users(m) \/ p = q
    <3>1. ASSUME NEW p \in Reqs, p # q PROVE p \in Users(m)' <=> p \in Users(m)
      <4>1. req'[p] = req[p]
        BY <1>1, <3>1
      <4> QED
        BY <4>1, UsersAre, Zenon
    <3>2. q \in Users(m)'
      BY <1>1, <1>2, <1>4, UsersAre, Zenon
    <3> QED
      BY <3>1, <3>2
  <2>2. Users(m) \subseteq Reqs /\ Users(m)' \subseteq Reqs
    BY UsersAre
  <2> QED
    BY <1>2, <2>1, <2>2
<1>5. \A m : q \in Users(m) <=> InUse(req[q]) /\ ModelFor(req[q]) = m
  BY <1>2, UsersAre
<1> QED
  BY <1>1, <1>3, <1>4, <1>5

(* Their number.                                                           *)
LEMMA CountChange ==
    ASSUME NEW q, NEW r, Changed(q, r), NEW m
    PROVE  /\ q \in Users(m) /\ ~(InUse(r) /\ ModelFor(r) = m) =>
                  Cardinality(Users(m)') = Cardinality(Users(m)) - 1 /\ Cardinality(Users(m)) > 0
           /\ q \notin Users(m) /\ InUse(r) /\ ModelFor(r) = m =>
                  Cardinality(Users(m)') = Cardinality(Users(m)) + 1
           /\ (q \in Users(m) <=> InUse(r) /\ ModelFor(r) = m) => Users(m)' = Users(m)
<1>1. IsFiniteSet(Users(m)) /\ Cardinality(Users(m)) \in Nat
  BY UsersAre
<1>2. ASSUME q \in Users(m), ~(InUse(r) /\ ModelFor(r) = m)
      PROVE  Cardinality(Users(m)') = Cardinality(Users(m)) - 1 /\ Cardinality(Users(m)) > 0
  <2>1. Users(m)' = Users(m) \ {q}
    BY <1>2, UsersChange
  <2>2. Cardinality(Users(m) \ {q}) = Cardinality(Users(m)) - 1
    BY <1>1, <1>2, FS_RemoveElement
  <2>3. Cardinality(Users(m)) # 0
    BY <1>1, <1>2, FS_EmptySet
  <2> QED
    BY <1>1, <2>1, <2>2, <2>3
<1>3. ASSUME q \notin Users(m), InUse(r) /\ ModelFor(r) = m
      PROVE  Cardinality(Users(m)') = Cardinality(Users(m)) + 1
  <2>1. Users(m)' = Users(m) \cup {q}
    BY <1>3, UsersChange
  <2> QED
    BY <1>1, <1>3, <2>1, FS_AddElement
<1>4. ASSUME q \in Users(m) <=> InUse(r) /\ ModelFor(r) = m PROVE Users(m)' = Users(m)
  <2>1. CASE InUse(r) /\ ModelFor(r) = m
    <3>1. Users(m)' = Users(m) \cup {q} /\ q \in Users(m)
      BY <1>4, <2>1, UsersChange
    <3> QED
      BY <3>1
  <2>2. CASE ~(InUse(r) /\ ModelFor(r) = m)
    <3>1. Users(m)' = Users(m) \ {q} /\ q \notin Users(m)
      BY <1>4, <2>2, UsersChange
    <3> QED
      BY <3>1
  <2> QED
    BY <2>1, <2>2
<1> QED
  BY <1>2, <1>3, <1>4

LEMMA UsedCount ==
    ASSUME NEW m, NEW p \in Reqs, InUse(req'[p]), ModelFor(req'[p]) = m
    PROVE  Cardinality(Users(m)') # 0
<1> DEFINE U == {q \in Reqs : InUse(req'[q]) /\ ModelFor(req'[q]) = m}
<1>1. p \in U
  OBVIOUS
<1>2. IsFiniteSet(U)
  <2>1. IsFiniteSet(Reqs) /\ U \subseteq Reqs
    BY ServerAssumption
  <2> QED
    BY <2>1, FS_Subset
<1>3. Users(m)' = U
  BY UsersAre
<1> HIDE DEF U
<1>4. U # {}
  BY <1>1
<1>5. Cardinality(U) # 0
  BY <1>2, <1>4, FS_EmptySet
<1> QED
  BY <1>3, <1>5

-----------------------------------------------------------------------------
(* What eviction leaves: slots that somebody uses, all of them if there    *)
(* are still too many.                                                     *)
LEMMA Eviction ==
    ASSUME NEW S, NEW o, NEW r, Evicts(S, o, r)
    PROVE  /\ slots' \subseteq S /\ \A m \in S \ slots' : r[m] = 0
           /\ Cardinality(slots') > MaxModels => \A m \in slots' : r[m] > 0
<1>1. PICK out \in Victims(S, o, r) : slots' = S \ out
  BY DEF Evicts
<1>2. out \subseteq {m \in S : r[m] = 0}
      /\ (Cardinality(S \ out) > MaxModels => \A m \in S \ out : r[m] > 0)
  BY DEF Victims
<1> QED
  BY <1>1, <1>2

(* The four ways in which a request's step touches the cache.              *)

(* It goes on without: its use is what it was, and it starts a load only   *)
(* of a model that is neither cached nor loaded.                           *)
LEMMA PlainKeeps ==
    ASSUME CacheOK, NEW q, NEW r, Changed(q, r), UNCHANGED <<slots, refs>>,
           InUse(r) <=> InUse(req[q]), InUse(r) => ModelFor(r) = ModelFor(req[q]),
           InLoad(r) =>
               \/ InLoad(req[q]) /\ ModelFor(r) = ModelFor(req[q])
               \/ /\ ModelFor(r) \notin slots
                  /\ \A p \in Reqs : InLoad(req[p]) => ModelFor(req[p]) # ModelFor(r)
    PROVE  CacheOK'
<1>1. q \in Reqs /\ req'[q] = r /\ \A p \in Reqs \ {q} : req'[p] = req[p]
  BY UsersChange DEF Changed
<1>2. \A m : Users(m)' = Users(m)
  <2>1. ASSUME NEW m PROVE Users(m)' = Users(m)
    <3>1. q \in Users(m) <=> InUse(r) /\ ModelFor(r) = m
      BY UsersChange, Zenon
    <3> QED
      BY <3>1, CountChange
  <2> QED
    BY <2>1
<1>3. CacheTypes' /\ Trimmed'
  BY Zenon DEF CacheOK, CacheTypes, Trimmed
<1>4. Counts'
  BY <1>2, Zenon DEF CacheOK, Counts
<1>5. InUseCached'
  <2>1. \A p \in Reqs : InUse(req[p]) => ModelFor(req[p]) \in slots
    BY Zenon DEF CacheOK, InUseCached
  <2>2. ASSUME NEW p \in Reqs, InUse(req'[p]) PROVE ModelFor(req'[p]) \in slots
    <3>1. CASE p = q
      <4>1. InUse(req[q]) /\ ModelFor(req'[p]) = ModelFor(req[q])
        BY <1>1, <2>2, <3>1
      <4> QED
        BY <1>1, <2>1, <4>1
    <3>2. CASE p # q
      BY <1>1, <2>1, <2>2, <3>2
    <3> QED
      BY <3>1, <3>2
  <2> QED
    BY <2>2 DEF InUseCached, InUse, ModelFor
<1>6. OneLoader'
  <2>1. /\ \A p \in Reqs : InLoad(req[p]) => ModelFor(req[p]) \notin slots
        /\ \A p, k \in Reqs :
               InLoad(req[p]) /\ InLoad(req[k]) /\ ModelFor(req[p]) = ModelFor(req[k]) => p = k
    BY Zenon DEF CacheOK, OneLoader
  <2>2. \A p \in Reqs : InLoad(req'[p]) => ModelFor(req'[p]) \notin slots
    BY <1>1, <2>1, Zenon
  <2>3. ASSUME NEW p \in Reqs \ {q}, InLoad(r), InLoad(req[p]) PROVE ModelFor(r) # ModelFor(req[p])
    BY <1>1, <2>1, <2>3, Zenon
  <2>4. \A p, k \in Reqs :
            InLoad(req'[p]) /\ InLoad(req'[k]) /\ ModelFor(req'[p]) = ModelFor(req'[k]) => p = k
    BY <1>1, <2>1, <2>3, Zenon
  <2> QED
    BY <2>2, <2>4 DEF OneLoader, InLoad, ModelFor
<1> QED
  BY <1>3, <1>4, <1>5, <1>6 DEF CacheOK

(* A request that leaves a queue, or does without an engine, starts none.  *)
LEMMA ElsewhereLoads ==
    ASSUME CacheOK, NEW q, NEW r, Changed(q, r), ~InLoad(r), NEW s, s \subseteq slots
    PROVE  /\ \A p \in Reqs : InLoad(req'[p]) => ModelFor(req'[p]) \notin s
           /\ \A p, k \in Reqs :
                  InLoad(req'[p]) /\ InLoad(req'[k]) /\ ModelFor(req'[p]) = ModelFor(req'[k]) => p = k
<1>1. q \in Reqs /\ req'[q] = r /\ \A p \in Reqs \ {q} : req'[p] = req[p]
  BY UsersChange DEF Changed
<1>2. /\ \A p \in Reqs : InLoad(req[p]) => ModelFor(req[p]) \notin slots
      /\ \A p, k \in Reqs :
             InLoad(req[p]) /\ InLoad(req[k]) /\ ModelFor(req[p]) = ModelFor(req[k]) => p = k
  BY Zenon DEF CacheOK, OneLoader
<1>3. ASSUME NEW p \in Reqs, InLoad(req'[p]) PROVE p # q /\ req'[p] = req[p] /\ InLoad(req[p])
  BY <1>1, <1>3, Zenon
<1>4. \A p \in Reqs : InLoad(req'[p]) => ModelFor(req'[p]) \notin s
  BY <1>2, <1>3
<1>5. \A p, k \in Reqs :
          InLoad(req'[p]) /\ InLoad(req'[k]) /\ ModelFor(req'[p]) = ModelFor(req'[k]) => p = k
  BY <1>2, <1>3, Zenon
<1> QED
  BY <1>4, <1>5

(* It takes a lease on a cached engine.                                    *)
LEMMA LeaseKeeps ==
    ASSUME CacheOK, NEW q, NEW r, Changed(q, r), NEW m, Lease(m), m \in slots,
           ~InUse(req[q]), InUse(r), ModelFor(r) = m
    PROVE  CacheOK'
<1>1. q \in Reqs /\ req'[q] = r /\ \A p \in Reqs \ {q} : req'[p] = req[p]
  BY UsersChange DEF Changed
<1>2. slots \subseteq Models /\ refs \in [Models -> Nat] /\ slots' = slots
      /\ refs' = [refs EXCEPT ![m] = @ + 1]
  BY DEF CacheOK, CacheTypes, Lease
<1>3. refs' \in [Models -> Nat] /\ refs'[m] = refs[m] + 1 /\ m \in Models
      /\ \A k \in Models \ {m} : refs'[k] = refs[k]
  BY <1>2
<1>4. CacheTypes'
  BY <1>2, <1>3 DEF CacheTypes
<1>5. Counts'
  <2>1. ASSUME NEW k \in Models PROVE refs'[k] = Cardinality(Users(k)')
    <3>1. refs[k] = Cardinality(Users(k))
      BY DEF CacheOK, Counts
    <3>2. q \notin Users(k)
      BY UsersChange
    <3>3. CASE k = m
      <4>1. Cardinality(Users(k)') = Cardinality(Users(k)) + 1
        BY <3>2, <3>3, CountChange
      <4> QED
        BY <1>3, <3>1, <3>3, <4>1
    <3>4. CASE k # m
      <4>1. Users(k)' = Users(k)
        BY <3>2, <3>4, CountChange
      <4> QED
        BY <1>3, <3>1, <3>4, <4>1
    <3> QED
      BY <3>3, <3>4
  <2> QED
    BY <2>1, Zenon DEF Counts
<1>6. InUseCached'
  <2>1. \A p \in Reqs : InUse(req[p]) => ModelFor(req[p]) \in slots
    BY Zenon DEF CacheOK, InUseCached
  <2>2. \A p \in Reqs : InUse(req'[p]) => ModelFor(req'[p]) \in slots
    BY <1>1, <2>1, Zenon
  <2> QED
    BY <1>2, <2>2 DEF InUseCached, InUse, ModelFor
<1>7. OneLoader'
  <2>1. ~InLoad(r)
    BY DEF InUse, UseStages, InLoad, LoadStages
  <2> QED
    BY <1>2, <2>1, ElsewhereLoads DEF OneLoader, InLoad, ModelFor
<1>8. Trimmed'
  <2>1. Cardinality(slots) > MaxModels => \A k \in slots : refs[k] > 0
    BY Zenon DEF CacheOK, Trimmed
  <2>2. \A k \in slots : refs[k] > 0 => refs'[k] > 0
    BY <1>2, <1>3
  <2>3. Cardinality(slots) > MaxModels => \A k \in slots : refs'[k] > 0
    BY <2>1, <2>2, Zenon
  <2> QED
    BY <1>2, <2>3, Zenon DEF Trimmed
<1> QED
  BY <1>4, <1>5, <1>6, <1>7, <1>8 DEF CacheOK

(* It gives its lease back, and the cache is trimmed.                      *)
LEMMA ReleaseKeeps ==
    ASSUME CacheOK, NEW q, NEW r, Changed(q, r), InUse(req[q]), ~InUse(r), ~InLoad(r),
           ModelFor(req[q]) \in Models, Release(ModelFor(req[q]))
    PROVE  CacheOK'
<1> DEFINE m == ModelFor(req[q])
           n == [refs EXCEPT ![m] = @ - 1]
<1>1. q \in Reqs /\ req'[q] = r /\ \A p \in Reqs \ {q} : req'[p] = req[p]
  BY UsersChange DEF Changed
<1>2. slots \subseteq Models /\ refs \in [Models -> Nat]
  BY DEF CacheOK, CacheTypes
<1>3. \A k \in Models : refs[k] = Cardinality(Users(k))
  BY Zenon DEF CacheOK, Counts
<1>4. m \in slots /\ m \in Models
  BY <1>1, Zenon DEF CacheOK, InUseCached
<1>5. q \in Users(m)
  BY UsersChange
<1> HIDE DEF m
<1>6. refs[m] > 0
  BY <1>3, <1>4, <1>5, CountChange
<1>7. refs' = n /\ Evicts(slots, older, n)
  <2>1. Release(m)
    BY DEF m
  <2> QED
    BY <1>4, <1>6, <2>1 DEF Release, Cached
<1>8. n \in [Models -> Nat] /\ n[m] = refs[m] - 1 /\ \A k \in Models \ {m} : n[k] = refs[k]
  BY <1>2, <1>4, <1>6
<1> HIDE DEF n
<1>9. slots' \subseteq slots /\ (\A k \in slots \ slots' : n[k] = 0)
      /\ (Cardinality(slots') > MaxModels => \A k \in slots' : n[k] > 0)
  BY <1>7, Eviction
<1>10. CacheTypes'
  BY <1>2, <1>7, <1>8, <1>9 DEF CacheTypes
<1>11. ASSUME NEW k \in Models PROVE n[k] = Cardinality(Users(k)')
  <2>1. q \in Users(k) <=> k = m
    BY UsersChange DEF m
  <2>2. CASE k = m
    <3>1. Cardinality(Users(k)') = Cardinality(Users(k)) - 1
      BY <2>1, <2>2, CountChange
    <3> QED
      BY <1>3, <1>8, <2>2, <3>1
  <2>3. CASE k # m
    <3>1. Users(k)' = Users(k)
      BY <2>1, <2>3, CountChange
    <3> QED
      BY <1>3, <1>8, <2>3, <3>1
  <2> QED
    BY <2>2, <2>3
<1>12. Counts'
  BY <1>7, <1>11, Zenon DEF Counts
<1>13. InUseCached'
  <2>1. ASSUME NEW p \in Reqs, InUse(req'[p]) PROVE ModelFor(req'[p]) \in slots'
    <3>1. p # q /\ req'[p] = req[p] /\ InUse(req[p])
      BY <1>1, <2>1
    <3>2. ModelFor(req[p]) \in slots
      BY <3>1 DEF CacheOK, InUseCached
    <3>3. \A k : k = ModelFor(req[p]) => Cardinality(Users(k)') # 0
      BY <2>1, <3>1, UsedCount
    <3>4. n[ModelFor(req[p])] # 0
      BY <1>2, <1>11, <3>2, <3>3
    <3> QED
      BY <1>9, <3>1, <3>2, <3>4
  <2> QED
    BY <2>1 DEF InUseCached, InUse, ModelFor
<1>14. OneLoader'
  BY <1>9, ElsewhereLoads DEF OneLoader, InLoad, ModelFor
<1>15. Trimmed'
  BY <1>7, <1>9 DEF Trimmed
<1> QED
  BY <1>10, <1>12, <1>13, <1>14, <1>15 DEF CacheOK

(* Its engine is loaded and warm: it gets the slot that nobody else has    *)
(* taken meanwhile, with the first lease, and the cache is trimmed.        *)
LEMMA InsertKeeps ==
    ASSUME CacheOK, NEW q, NEW r, Changed(q, r), InLoad(req[q]), InUse(r),
           ModelFor(r) = ModelFor(req[q]), ModelFor(r) \in Models, Insert(ModelFor(r))
    PROVE  CacheOK'
<1> DEFINE m == ModelFor(r)
           n == [refs EXCEPT ![m] = 1]
           S == slots \cup {m}
<1>1. q \in Reqs /\ req'[q] = r /\ \A p \in Reqs \ {q} : req'[p] = req[p]
  BY UsersChange DEF Changed
<1>2. slots \subseteq Models /\ refs \in [Models -> Nat]
  BY DEF CacheOK, CacheTypes
<1>3. \A k \in Models : refs[k] = Cardinality(Users(k))
  BY Zenon DEF CacheOK, Counts
<1>4. m \notin slots /\ m \in Models
  BY <1>1, Zenon DEF CacheOK, OneLoader
<1>5. refs' = n /\ Evicts(S, MovedToEnd(m), n)
  BY DEF Insert
<1>6. InUse(r) /\ ModelFor(r) = m
  OBVIOUS
<1>7. ModelFor(req[q]) = m
  OBVIOUS
<1> HIDE DEF m
<1>8. n \in [Models -> Nat] /\ n[m] = 1 /\ \A k \in Models \ {m} : n[k] = refs[k]
  BY <1>2, <1>4
<1> HIDE DEF n
<1>9. slots' \subseteq S /\ (\A k \in S \ slots' : n[k] = 0)
      /\ (Cardinality(slots') > MaxModels => \A k \in slots' : n[k] > 0)
  BY <1>5, Eviction
<1>10. CacheTypes'
  BY <1>2, <1>4, <1>5, <1>8, <1>9 DEF CacheTypes
<1>11. Users(m) = {}
  <2>1. ASSUME NEW p \in Reqs PROVE p \notin Users(m)
    <3>1. InUse(req[p]) => ModelFor(req[p]) \in slots
      BY DEF CacheOK, InUseCached
    <3> QED
      BY <1>4, <3>1, UsersAre
  <2> QED
    BY <2>1, UsersAre
<1>12. ASSUME NEW k \in Models PROVE n[k] = Cardinality(Users(k)')
  <2>1. ~InUse(req[q])
    BY DEF InUse, UseStages, InLoad, LoadStages
  <2>2. q \notin Users(k)
    BY <2>1, UsersChange
  <2>3. CASE k = m
    <3>1. Cardinality(Users(k)') = Cardinality(Users(k)) + 1
      BY <1>6, <2>2, <2>3, CountChange
    <3>2. Cardinality(Users(k)) = 0
      BY <1>11, <2>3, FS_EmptySet
    <3> QED
      BY <1>8, <2>3, <3>1, <3>2
  <2>4. CASE k # m
    <3>1. Users(k)' = Users(k)
      BY <1>6, <2>2, <2>4, CountChange
    <3> QED
      BY <1>3, <1>8, <2>4, <3>1
  <2> QED
    BY <2>3, <2>4
<1>13. Counts'
  BY <1>5, <1>12, Zenon DEF Counts
<1>14. InUseCached'
  <2>1. ASSUME NEW p \in Reqs, NEW k, InUse(req'[p]), ModelFor(req'[p]) = k PROVE k \in slots'
    <3>1. k \in S
      <4>1. CASE p = q
        BY <1>1, <1>6, <2>1, <4>1
      <4>2. CASE p # q
        BY <1>1, <2>1, <4>2 DEF CacheOK, InUseCached
      <4> QED
        BY <4>1, <4>2
    <3>2. Cardinality(Users(k)') # 0
      BY <2>1, UsedCount
    <3>3. n[k] # 0
      BY <1>2, <1>4, <1>12, <3>1, <3>2
    <3> QED
      BY <1>9, <3>1, <3>3
  <2> QED
    BY <2>1 DEF InUseCached, InUse, ModelFor
<1>15. OneLoader'
  <2>1. ASSUME NEW p \in Reqs, InLoad(req'[p]) PROVE ModelFor(req'[p]) \notin S
    <3>1. p # q /\ req'[p] = req[p] /\ InLoad(req[p])
      BY <1>1, <2>1 DEF InUse, UseStages, InLoad, LoadStages
    <3>2. ModelFor(req[p]) \notin slots /\ ModelFor(req[p]) # m
      BY <1>1, <1>7, <3>1 DEF CacheOK, OneLoader
    <3> QED
      BY <3>1, <3>2
  <2>2. ~InLoad(r)
    BY DEF InUse, UseStages, InLoad, LoadStages
  <2>3. \A p, k \in Reqs :
            InLoad(req'[p]) /\ InLoad(req'[k]) /\ ModelFor(req'[p]) = ModelFor(req'[k]) => p = k
    BY <2>2, ElsewhereLoads
  <2>4. \A p \in Reqs : InLoad(req'[p]) => ModelFor(req'[p]) \notin slots'
    BY <1>9, <2>1
  <2> QED
    BY <2>3, <2>4 DEF OneLoader, InLoad, ModelFor
<1>16. Trimmed'
  BY <1>5, <1>9 DEF Trimmed
<1> QED
  BY <1>10, <1>13, <1>14, <1>15, <1>16 DEF CacheOK

-----------------------------------------------------------------------------
(* A step of one request: where it is queued, and what it was.             *)
Pool(s, u, q, from, to, stages) ==
    \/ u = s /\ from \notin stages
    \/ u = Append(s, q) /\ from \notin stages /\ to \in stages
    \/ s # <<>> /\ u = Tail(s) /\ q = Head(s)
Turns(q, r) ==
    /\ Changed(q, r)
    /\ r.pc # "free" => r.conn \in Connections
    /\ Pool(cpu, cpu', q, req[q].pc, r.pc, CpuJobs)
    /\ Pool(gpu, gpu', q, req[q].pc, r.pc, GpuJobs)

LEMMA TurnKeeps ==
    ASSUME ServerInv, CacheInv, NEW q, NEW r, Turns(q, r), CacheOK'
    PROVE  CacheInv'
<1>1. q \in Reqs /\ req'[q] = r /\ \A p \in Reqs \ {q} : req'[p] = req[p]
  BY UsersChange DEF Turns, Changed
<1>2. Known'
  <2>1. \A p \in Reqs : req[p].pc # "free" => req[p].conn \in Connections
    BY Zenon DEF CacheInv, Known
  <2>2. r.pc # "free" => r.conn \in Connections
    BY DEF Turns
  <2>3. \A p \in Reqs : req'[p].pc # "free" => req'[p].conn \in Connections
    BY <1>1, <2>1, <2>2
  <2> QED
    BY <2>3 DEF Known
<1>3. JobsIn(cpu', req', CpuJobs)
  <2>1. cpu \in Seq(Reqs) /\ JobsIn(cpu, req, CpuJobs)
    BY DEF ServerInv, ServerTypes, CacheInv
  <2>2. \/ cpu' = cpu /\ req[q].pc \notin CpuJobs
        \/ cpu' = Append(cpu, q) /\ req[q].pc \notin CpuJobs /\ req'[q].pc \in CpuJobs
        \/ cpu # <<>> /\ cpu' = Tail(cpu) /\ q = Head(cpu)
    BY <1>1 DEF Turns, Pool
  <2> QED
    BY <1>1, <2>1, <2>2, QueueKeeps
<1>4. JobsIn(gpu', req', GpuJobs)
  <2>1. gpu \in Seq(Reqs) /\ JobsIn(gpu, req, GpuJobs)
    BY DEF ServerInv, ServerTypes, CacheInv
  <2>2. \/ gpu' = gpu /\ req[q].pc \notin GpuJobs
        \/ gpu' = Append(gpu, q) /\ req[q].pc \notin GpuJobs /\ req'[q].pc \in GpuJobs
        \/ gpu # <<>> /\ gpu' = Tail(gpu) /\ q = Head(gpu)
    BY <1>1 DEF Turns, Pool
  <2> QED
    BY <1>1, <2>1, <2>2, QueueKeeps
<1> QED
  BY <1>2, <1>3, <1>4 DEF CacheInv, JobsIn, CpuJobs, GpuJobs

LEMMA SameCache ==
    ASSUME CacheInv, UNCHANGED <<req, cpu, gpu, slots, older, refs>>
    PROVE  CacheInv'
<1>1. \A m : Users(m)' = Users(m)
  BY UsersAre
<1> QED
  BY <1>1 DEF CacheInv, Known, JobsIn, CpuJobs, GpuJobs, CacheOK, CacheTypes, Counts, InUseCached, OneLoader,
              Trimmed, InUse, InLoad, UseStages, LoadStages, ModelFor

(* The record of a request that goes on, and of one that is answered.      *)
Onward(q, pc) == [req[q] EXCEPT !.pc = pc]

LEMMA OnwardIs ==
    ASSUME ServerInv, CacheInv, NEW q \in Reqs, req[q].pc # "free", NEW pc, Goes(q, pc)
    PROVE  /\ Changed(q, Onward(q, pc)) /\ Onward(q, pc).pc = pc
           /\ Onward(q, pc).conn \in Connections
           /\ ModelFor(Onward(q, pc)) = Model(q) /\ ModelFor(req[q]) = Model(q) /\ Model(q) \in Models
<1>1. req \in [Reqs -> Requests] /\ req[q] \in Requests
  BY DEF ServerInv, ServerTypes
<1>2. Onward(q, pc).pc = pc /\ Onward(q, pc).conn = req[q].conn
  BY <1>1 DEF Onward, Requests
<1>3. req[q].conn \in Connections
  BY DEF CacheInv, Known
<1>4. Changed(q, Onward(q, pc))
  BY <1>1 DEF Changed, Onward, Goes
<1> QED
  BY <1>2, <1>3, <1>4, ServerAssumption DEF ModelFor, Model, Token

LEMMA FreeIs ==
    ASSUME ServerInv, CacheInv, NEW q \in Reqs, req[q].pc # "free", Answered(q)
    PROVE  /\ Changed(q, Free) /\ Free.pc = "free" /\ ~InUse(Free) /\ ~InLoad(Free)
           /\ ModelFor(req[q]) = Model(q) /\ Model(q) \in Models
<1>1. req \in [Reqs -> Requests]
  BY DEF ServerInv, ServerTypes
<1>2. req[q].conn \in Connections
  BY DEF CacheInv, Known
<1> QED
  BY <1>1, <1>2, ServerAssumption
     DEF Changed, Answered, Free, InUse, UseStages, InLoad, LoadStages, ModelFor, Model, Token

(* Steps that leave the cache alone: on to a stage of the same use, or     *)
(* answered without an engine.                                             *)
LEMMA GoesKeeps ==
    ASSUME ServerInv, CacheInv, NEW q \in Reqs, req[q].pc # "free", NEW pc, Goes(q, pc),
           pc \in UseStages <=> req[q].pc \in UseStages,
           \/ pc \notin LoadStages
           \/ req[q].pc \in LoadStages
           \/ KeyFree(Model(q)) /\ ~Cached(Model(q)),
           UNCHANGED <<slots, refs>>,
           Pool(cpu, cpu', q, req[q].pc, pc, CpuJobs),
           Pool(gpu, gpu', q, req[q].pc, pc, GpuJobs)
    PROVE  CacheInv'
<1> DEFINE r == Onward(q, pc)
<1>1. /\ Changed(q, r) /\ r.pc = pc /\ r.conn \in Connections
      /\ ModelFor(r) = Model(q) /\ ModelFor(req[q]) = Model(q)
  BY OnwardIs
<1> HIDE DEF r
<1>2. InUse(r) <=> InUse(req[q])
  BY <1>1 DEF InUse
<1>3. InLoad(r) =>
          \/ InLoad(req[q]) /\ ModelFor(r) = ModelFor(req[q])
          \/ /\ ModelFor(r) \notin slots
             /\ \A p \in Reqs : InLoad(req[p]) => ModelFor(req[p]) # ModelFor(r)
  BY <1>1 DEF InLoad, LoadStages, KeyFree, Cached, ModelFor, Model, Token
<1>4. CacheOK'
  BY <1>1, <1>2, <1>3, PlainKeeps DEF CacheInv
<1>5. Turns(q, r)
  BY <1>1 DEF Turns
<1> QED
  BY <1>4, <1>5, TurnKeeps

LEMMA AnsweredKeeps ==
    ASSUME ServerInv, CacheInv, NEW q \in Reqs, req[q].pc # "free", Answered(q),
           \/ UNCHANGED <<slots, refs>> /\ req[q].pc \notin UseStages
           \/ Release(Model(q)) /\ req[q].pc \in UseStages,
           Pool(cpu, cpu', q, req[q].pc, "free", CpuJobs),
           Pool(gpu, gpu', q, req[q].pc, "free", GpuJobs)
    PROVE  CacheInv'
<1>1. /\ Changed(q, Free) /\ Free.pc = "free" /\ ~InUse(Free) /\ ~InLoad(Free)
      /\ ModelFor(req[q]) = Model(q) /\ Model(q) \in Models
  BY FreeIs
<1>2. CASE UNCHANGED <<slots, refs>> /\ req[q].pc \notin UseStages
  BY <1>1, <1>2, PlainKeeps, TurnKeeps DEF CacheInv, InUse, Turns
<1>3. CASE Release(Model(q)) /\ req[q].pc \in UseStages
  <2>1. CacheOK'
    BY <1>1, <1>3, ReleaseKeeps DEF CacheInv, InUse
  <2>2. Turns(q, Free)
    BY <1>1 DEF Turns
  <2> QED
    BY <2>1, <2>2, TurnKeeps
<1> QED
  BY <1>2, <1>3

(* A request that is new, or goes on to its engine, cached or not.         *)
LEMMA ArrivesKeeps ==
    ASSUME ServerInv, CacheInv, NEW q \in Reqs, req[q].pc = "free", NEW r, req' = [req EXCEPT ![q] = r],
           r.pc \in {"connect", "peek", "end"}, r.conn \in Connections,
           UNCHANGED <<cpu, gpu, slots, refs>>
    PROVE  CacheInv'
<1>1. Changed(q, r)
  BY DEF Changed, ServerInv, ServerTypes
<1>2. ~InUse(r) /\ ~InUse(req[q]) /\ ~InLoad(r)
  BY DEF InUse, UseStages, InLoad, LoadStages
<1>3. CacheOK'
  BY <1>1, <1>2, PlainKeeps DEF CacheInv
<1>4. Turns(q, r)
  BY <1>1 DEF Turns, Pool, CpuJobs, GpuJobs
<1> QED
  BY <1>3, <1>4, TurnKeeps

LEMMA AsksKeeps ==
    ASSUME ServerInv, CacheInv, NEW q \in Reqs, req[q].pc \in {"free", "granted"},
           NEW r \in Requests, r.conn \in Connections, AsksEngine(q, r)
    PROVE  CacheInv'
<1> DEFINE m == ModelOf[TokenOf[r.conn]]
<1>1. ~InUse(req[q]) /\ req[q].pc \notin CpuJobs /\ req[q].pc \notin GpuJobs
  BY DEF InUse, UseStages, CpuJobs, GpuJobs
<1>2. req \in [Reqs -> Requests]
  BY DEF ServerInv, ServerTypes
<1>3. CASE Cached(m)
  <2> DEFINE n == [r EXCEPT !.pc = "leased"]
  <2>1. n.pc = "leased" /\ n.conn = r.conn
    BY DEF Requests
  <2>2. req' = [req EXCEPT ![q] = n] /\ Lease(m) /\ cpu' = cpu /\ gpu' = gpu
    BY <1>3 DEF AsksEngine, poolVars
  <2> HIDE DEF n
  <2>3. Changed(q, n)
    BY <1>2, <2>2 DEF Changed
  <2>4. InUse(n) /\ ModelFor(n) = m
    BY <2>1 DEF InUse, UseStages, ModelFor
  <2> HIDE DEF m
  <2>5. m \in slots
    BY <1>3 DEF Cached
  <2>6. CacheOK'
    BY <1>1, <2>2, <2>3, <2>4, <2>5, LeaseKeeps DEF CacheInv
  <2>7. Turns(q, n)
    BY <1>1, <2>1, <2>2, <2>3 DEF Turns, Pool
  <2> QED
    BY <2>6, <2>7, TurnKeeps
<1>4. CASE ~Cached(m)
  <2> DEFINE n == [r EXCEPT !.pc = "queued"]
  <2>1. n.pc = "queued" /\ n.conn = r.conn
    BY DEF Requests
  <2>2. req' = [req EXCEPT ![q] = n] /\ cpu' = Append(cpu, q) /\ UNCHANGED <<gpu, slots, refs>>
    BY <1>4 DEF AsksEngine, cacheVars
  <2> HIDE DEF n, m
  <2>3. Changed(q, n)
    BY <1>2, <2>2 DEF Changed
  <2>4. ~InUse(n) /\ ~InLoad(n)
    BY <2>1 DEF InUse, UseStages, InLoad, LoadStages
  <2>5. CacheOK'
    BY <1>1, <2>2, <2>3, <2>4, PlainKeeps DEF CacheInv
  <2>6. Turns(q, n)
    BY <1>1, <2>1, <2>2, <2>3 DEF Turns, Pool, CpuJobs
  <2> QED
    BY <2>5, <2>6, TurnKeeps
<1> QED
  BY <1>3, <1>4

(* The queues: who is at their heads.                                      *)
LEMMA HeadIs ==
    ASSUME ServerInv, CacheInv
    PROVE  /\ cpu # <<>> => Head(cpu) \in Reqs /\ req[Head(cpu)].pc \in CpuJobs
           /\ gpu # <<>> => Head(gpu) \in Reqs /\ req[Head(gpu)].pc \in GpuJobs
<1>1. cpu \in Seq(Reqs) /\ gpu \in Seq(Reqs)
  BY PoolsAreQueues
<1>2. ASSUME cpu # <<>> PROVE Head(cpu) \in Reqs /\ 1 \in 1 .. Len(cpu) /\ Head(cpu) = cpu[1]
  BY <1>1, <1>2
<1>3. ASSUME gpu # <<>> PROVE Head(gpu) \in Reqs /\ 1 \in 1 .. Len(gpu) /\ Head(gpu) = gpu[1]
  BY <1>1, <1>3
<1> QED
  BY <1>2, <1>3, Zenon DEF CacheInv, JobsIn

(* Every step keeps the cache's invariant.                                 *)
LEMMA ArrivalKeeps ==
    ASSUME ServerInv, CacheInv, NEW q \in Reqs, NEW c \in Connections, Arrives(q, c)
    PROVE  CacheInv'
<1>1. req[q].pc = "free"
  BY Zenon DEF Arrives, Hello, Prefetch, InferUnknown, InferAccepted, Bye, At
<1>2. ASSUME NEW pc \in {"connect", "peek", "end"}, NEW kind, NEW at,
             req' = [req EXCEPT ![q] = [pc |-> pc, kind |-> kind, conn |-> c, at |-> at]],
             UNCHANGED <<poolVars, cacheVars>>
      PROVE  CacheInv'
  <2> DEFINE r == [pc |-> pc, kind |-> kind, conn |-> c, at |-> at]
  <2>1. r.pc \in {"connect", "peek", "end"} /\ r.conn \in Connections
    OBVIOUS
  <2>2. req' = [req EXCEPT ![q] = r]
    BY <1>2
  <2> HIDE DEF r
  <2> QED
    BY <1>1, <1>2, <2>1, <2>2, ArrivesKeeps DEF poolVars, cacheVars
<1>3. CASE Hello(q, c)
  <2>1. req' = [req EXCEPT ![q] = [pc |-> "connect", kind |-> "hello", conn |-> c, at |-> time]]
        /\ UNCHANGED <<poolVars, cacheVars>>
    BY <1>3, Zenon DEF Hello, cacheVars, poolVars
  <2> QED
    BY <1>2, <2>1
<1>4. CASE Prefetch(q, c)
  <2>1. req' = [req EXCEPT ![q] = [pc |-> "peek", kind |-> "prefetch", conn |-> c, at |-> 0]]
        /\ UNCHANGED <<poolVars, cacheVars>>
    BY <1>4, Zenon DEF Prefetch
  <2> QED
    BY <1>2, <2>1
<1>5. CASE InferUnknown(q, c)
  <2>1. req' = [req EXCEPT ![q] = [pc |-> "connect", kind |-> "infer", conn |-> c, at |-> 0]]
        /\ UNCHANGED <<poolVars, cacheVars>>
    BY <1>5, Zenon DEF InferUnknown
  <2> QED
    BY <1>2, <2>1
<1>6. CASE Bye(q, c)
  <2>1. req' = [req EXCEPT ![q] = [pc |-> "end", kind |-> "bye", conn |-> c, at |-> 0]]
        /\ UNCHANGED <<poolVars, cacheVars>>
    BY <1>6, Zenon DEF Bye
  <2> QED
    BY <1>2, <2>1
<1>7. CASE InferAccepted(q, c)
  <2>1. CASE UNCHANGED <<req, poolVars, cacheVars>>
    BY <2>1, SameCache DEF poolVars, cacheVars
  <2>2. CASE AsksEngine(q, [pc |-> "free", kind |-> "infer", conn |-> c, at |-> 0])
    <3> DEFINE r == [pc |-> "free", kind |-> "infer", conn |-> c, at |-> 0]
    <3>1. r \in Requests /\ r.conn \in Connections
      BY DEF Requests, Stages
    <3> HIDE DEF r
    <3>2. AsksEngine(q, r)
      BY <2>2, Zenon DEF r
    <3> QED
      BY <1>1, <3>1, <3>2, AsksKeeps
  <2> QED
    BY <1>7, <2>1, <2>2, Zenon DEF InferAccepted
<1> QED
  BY <1>3, <1>4, <1>5, <1>6, <1>7 DEF Arrives

LEMMA LoopKeeps ==
    ASSUME ServerInv, CacheInv, NEW q \in Reqs, LoopRuns(q)
    PROVE  CacheInv'
<1> USE DEF UseStages, LoadStages, CpuJobs, GpuJobs
<1>1. CASE HelloGranted(q) \/ InferGranted(q)
  <2>1. req[q].pc = "granted" /\ AsksEngine(q, req[q])
    BY <1>1, Zenon DEF HelloGranted, InferGranted, At
  <2>2. req[q] \in Requests /\ req[q].conn \in Connections
    BY <2>1 DEF ServerInv, ServerTypes, CacheInv, Known
  <2> QED
    BY <2>1, <2>2, AsksKeeps
<1>2. CASE Denied(q)
  <2>1. req[q].pc = "denied" /\ Answered(q) /\ UNCHANGED <<cpu, gpu, slots, refs>>
    BY <1>2, Zenon DEF Denied, At, poolVars, cacheVars
  <2> QED
    BY <2>1, AnsweredKeeps DEF Pool
<1>3. CASE HelloStores(q) \/ PrefetchDone(q) \/ InferRefused(q)
  <2>1. req[q].pc = "leased" /\ Answered(q) /\ Release(Model(q)) /\ UNCHANGED <<cpu, gpu>>
    BY <1>3, Zenon DEF HelloStores, PrefetchDone, InferRefused, At, poolVars
  <2> QED
    BY <2>1, AnsweredKeeps DEF Pool
<1>4. CASE InferValid(q)
  <2>1. req[q].pc = "leased" /\ Goes(q, "decode") /\ cpu' = Append(cpu, q)
        /\ UNCHANGED <<gpu, slots, refs>>
    BY <1>4, Zenon DEF InferValid, At, cacheVars
  <2> QED
    BY <2>1, GoesKeeps DEF Pool
<1>5. CASE LoadFailed(q)
  <2>1. req[q].pc = "failed" /\ UNCHANGED <<cpu, gpu, slots, refs>> /\ (Answered(q) \/ Goes(q, "end"))
    BY <1>5, Zenon DEF LoadFailed, At, poolVars, cacheVars
  <2> QED
    BY <2>1, AnsweredKeeps, GoesKeeps DEF Pool
<1> QED
  BY <1>1, <1>2, <1>3, <1>4, <1>5 DEF LoopRuns

LEMMA RowKeeps ==
    ASSUME ServerInv, CacheInv, NEW q \in Reqs, RowAnswers(q)
    PROVE  CacheInv'
<1> USE DEF UseStages, LoadStages, CpuJobs, GpuJobs
<1>1. CASE ConnectAtRow(q)
  <2>1. req[q].pc = "connect" /\ UNCHANGED <<cpu, gpu, slots, refs>>
        /\ (Goes(q, "granted") \/ Goes(q, "denied"))
    BY <1>1, Zenon DEF ConnectAtRow, At, poolVars, cacheVars
  <2> QED
    BY <2>1, GoesKeeps DEF Pool
<1>2. CASE PeekAtRow(q)
  <2>1. /\ req[q].pc = "peek" /\ UNCHANGED <<gpu, slots, refs>>
        /\ \/ Goes(q, "queued") /\ cpu' = Append(cpu, q)
           \/ Answered(q) /\ cpu' = cpu
    BY <1>2, Zenon DEF PeekAtRow, At, cacheVars
  <2> QED
    BY <2>1, GoesKeeps, AnsweredKeeps DEF Pool
<1>3. CASE EndAtRow(q)
  <2>1. req[q].pc = "end" /\ Answered(q) /\ UNCHANGED <<cpu, gpu, slots, refs>>
    BY <1>3, Zenon DEF EndAtRow, At, poolVars, cacheVars
  <2> QED
    BY <2>1, AnsweredKeeps DEF Pool
<1> QED
  BY <1>1, <1>2, <1>3 DEF RowAnswers

LEMMA ThreadKeeps ==
    ASSUME ServerInv, CacheInv, NEW q \in Reqs, ThreadRuns(q) \/ TakesKey(q)
    PROVE  CacheInv'
<1> USE DEF UseStages, LoadStages, CpuJobs, GpuJobs
<1>1. CASE Loads(q)
  <2>1. /\ req[q].pc = "loading" /\ UNCHANGED <<cpu, slots, refs>>
        /\ \/ Goes(q, "warm") /\ gpu' = Append(gpu, q)
           \/ Goes(q, "failed") /\ gpu' = gpu
    BY <1>1, Zenon DEF Loads, ToWarmUp, At, poolVars, cacheVars
  <2> QED
    BY <2>1, GoesKeeps DEF Pool
<1>2. CASE Decodes(q)
  <2>1. req[q].pc = "decoding" /\ cpu' = cpu
    BY <1>2 DEF Decodes, At
  <2>2. CASE Goes(q, "chunk") /\ gpu' = Append(gpu, q) /\ UNCHANGED cacheVars
    BY <2>1, <2>2, GoesKeeps DEF Pool, cacheVars
  <2>3. CASE Release(Model(q)) /\ Answered(q) /\ gpu' = gpu
    BY <2>1, <2>3, AnsweredKeeps DEF Pool
  <2> QED
    BY <1>2, <2>2, <2>3, Zenon DEF Decodes
<1>3. CASE TakesKey(q)
  <2>1. req[q].pc = "key" /\ KeyFree(Model(q)) /\ cpu' = cpu /\ gpu' = gpu
    BY <1>3, Zenon DEF TakesKey, At, poolVars
  <2>2. CASE Cached(Model(q)) /\ Goes(q, "leased") /\ Lease(Model(q))
    <3> DEFINE r == Onward(q, "leased")
    <3>1. /\ Changed(q, r) /\ r.pc = "leased" /\ r.conn \in Connections
          /\ ModelFor(r) = Model(q) /\ ModelFor(req[q]) = Model(q)
      BY <2>1, <2>2, OnwardIs
    <3> HIDE DEF r
    <3>2. InUse(r) /\ ~InUse(req[q])
      BY <2>1, <3>1 DEF InUse
    <3>3. CacheOK'
      BY <2>2, <3>1, <3>2, LeaseKeeps DEF CacheInv, Cached
    <3>4. Turns(q, r)
      BY <2>1, <3>1 DEF Turns, Pool
    <3> QED
      BY <3>3, <3>4, TurnKeeps
  <2>3. CASE ~Cached(Model(q)) /\ Goes(q, "loading") /\ UNCHANGED cacheVars
    BY <2>1, <2>3, GoesKeeps DEF Pool, cacheVars
  <2> QED
    BY <1>3, <2>2, <2>3, Zenon DEF TakesKey
<1> QED
  BY <1>1, <1>2, <1>3 DEF ThreadRuns

LEMMA PoolKeeps ==
    ASSUME ServerInv, CacheInv, CpuTakes \/ GpuRuns
    PROVE  CacheInv'
<1>1. CASE CpuTakes
  <2> DEFINE q == Head(cpu)
  <2>1. /\ cpu # <<>> /\ cpu' = Tail(cpu) /\ UNCHANGED <<gpu, slots, refs>>
        /\ Goes(q, IF req[q].pc = "queued" THEN "key" ELSE "decoding")
    BY <1>1, Zenon DEF CpuTakes, At, cacheVars
  <2>2. q \in Reqs /\ req[q].pc \in {"queued", "decode"} /\ q = Head(cpu)
    BY <2>1, HeadIs DEF CpuJobs
  <2> HIDE DEF q
  <2>3. CASE req[q].pc = "queued" /\ Goes(q, "key")
    BY <2>1, <2>2, <2>3, GoesKeeps DEF Pool, UseStages, LoadStages, GpuJobs
  <2>4. CASE req[q].pc = "decode" /\ Goes(q, "decoding")
    BY <2>1, <2>2, <2>4, GoesKeeps DEF Pool, UseStages, LoadStages, GpuJobs
  <2> QED
    BY <2>1, <2>2, <2>3, <2>4
<1>2. CASE GpuRuns
  <2> DEFINE q == Head(gpu)
  <2>1. /\ gpu # <<>> /\ gpu' = Tail(gpu) /\ cpu' = cpu
        /\ \/ req[q].pc = "warm" /\ Goes(q, "leased") /\ Insert(Model(q))
           \/ req[q].pc # "warm" /\ Answered(q) /\ Release(Model(q))
    BY <1>2, Zenon DEF GpuRuns, At
  <2>2. q \in Reqs /\ req[q].pc \in {"warm", "chunk"} /\ q = Head(gpu)
    BY <2>1, HeadIs DEF GpuJobs
  <2> HIDE DEF q
  <2>3. CASE req[q].pc = "warm" /\ Goes(q, "leased") /\ Insert(Model(q))
    <3> DEFINE r == Onward(q, "leased")
    <3>1. /\ Changed(q, r) /\ r.pc = "leased" /\ r.conn \in Connections
          /\ ModelFor(r) = Model(q) /\ ModelFor(req[q]) = Model(q) /\ Model(q) \in Models
      BY <2>2, <2>3, OnwardIs
    <3> HIDE DEF r
    <3>2. InUse(r) /\ InLoad(req[q])
      BY <2>3, <3>1 DEF InUse, UseStages, InLoad, LoadStages
    <3>3. CacheOK'
      BY <2>3, <3>1, <3>2, InsertKeeps DEF CacheInv
    <3>4. Turns(q, r)
      BY <2>1, <2>2, <2>3, <3>1 DEF Turns, Pool, CpuJobs
    <3> QED
      BY <3>3, <3>4, TurnKeeps
  <2>4. CASE req[q].pc = "chunk" /\ Answered(q) /\ Release(Model(q))
    BY <2>1, <2>2, <2>4, AnsweredKeeps DEF Pool, UseStages, CpuJobs
  <2> QED
    BY <2>1, <2>2, <2>3, <2>4
<1> QED
  BY <1>1, <1>2

-----------------------------------------------------------------------------
\* The invariant of the cache: who uses engines, who loads one, and who waits where.
THEOREM CacheInvariant == ServerSpec => []CacheInv
<1>1. ServerInit => CacheInv
  <2> SUFFICES ASSUME ServerInit PROVE CacheInv
    OBVIOUS
  <2>1. \A q \in Reqs : req[q].pc = "free"
    BY DEF ServerInit, Free
  <2>2. cpu = <<>> /\ gpu = <<>> /\ slots = {} /\ refs = [m \in Models |-> 0]
    BY DEF ServerInit
  <2>3. Known /\ JobsIn(cpu, req, CpuJobs) /\ JobsIn(gpu, req, GpuJobs)
    BY <2>1, <2>2 DEF Known, JobsIn
  <2>4. CacheTypes /\ Trimmed
    BY <2>2 DEF CacheTypes, Trimmed
  <2>5. Counts
    <3>1. \A m : Users(m) = {}
      BY <2>1, UsersAre DEF InUse, UseStages
    <3> QED
      BY <2>2, <3>1, FS_EmptySet DEF Counts
  <2>6. InUseCached /\ OneLoader
    BY <2>1 DEF InUseCached, OneLoader, InUse, UseStages, InLoad, LoadStages
  <2> QED
    BY <2>3, <2>4, <2>5, <2>6 DEF CacheInv, CacheOK
<1>2. ServerInv /\ CacheInv /\ [ServerNext]_serverVars => CacheInv'
  <2> SUFFICES ASSUME ServerInv, CacheInv, [ServerNext]_serverVars PROVE CacheInv'
    OBVIOUS
  <2>1. ASSUME NEW q \in Reqs, NEW c \in Connections, Arrives(q, c) PROVE CacheInv'
    BY <2>1, ArrivalKeeps
  <2>2. ASSUME NEW c \in Connections, InferClosed(c) PROVE CacheInv'
    BY <2>2, SameCache DEF InferClosed, poolVars, cacheVars
  <2>3. ASSUME NEW q \in Reqs, LoopRuns(q) \/ RowAnswers(q) \/ ThreadRuns(q) \/ TakesKey(q)
        PROVE  CacheInv'
    BY <2>3, LoopKeeps, RowKeeps, ThreadKeeps
  <2>4. ASSUME NEW t \in Tokens, RowEnds(t) \/ CheckReads(t) \/ CheckLands(t) PROVE CacheInv'
    BY <2>4, SameCache DEF RowEnds, CheckReads, CheckLands, poolVars, cacheVars
  <2>5. CASE CpuTakes \/ GpuRuns
    BY <2>5, PoolKeeps
  <2>6. CASE ServerTick
    BY <2>6, SameCache DEF ServerTick, poolVars, cacheVars
  <2>7. CASE UNCHANGED serverVars
    BY <2>7, SameCache DEF serverVars, poolVars, cacheVars
  <2> QED
    BY <2>1, <2>2, <2>3, <2>4, <2>5, <2>6, <2>7, Zenon DEF ServerNext
<1> QED
  BY <1>1, <1>2, ServerInvariant, PTL DEF ServerSpec

\* The leases are counted, for any number of requests, models and threads: an engine's count
\* is the number of the requests that compute with it, an engine in use keeps its slot, and
\* above the limit every slot is in use (EngineCache.acquire, _lease_locked, _release,
\* _evict_locked).
THEOREM LeasesCounted == ServerSpec => []EnginesCounted
<1>1. CacheInv => EnginesCounted
  <2> SUFFICES ASSUME CacheInv PROVE EnginesCounted
    OBVIOUS
  <2>1. ASSUME NEW m \in Models, Users(m) # {} PROVE Cached(m)
    BY <2>1, UsersAre DEF CacheInv, CacheOK, InUseCached, Cached
  <2> QED
    BY <2>1, Zenon DEF EnginesCounted, CacheInv, CacheOK, Counts, Trimmed
<1> QED
  BY <1>1, CacheInvariant, PTL

-----------------------------------------------------------------------------
(* Eviction takes what the loop of _evict_locked takes: there is exactly   *)
(* one choice. For that the order of the slots is one.                     *)
Orders(o, S) ==
    /\ \A a, b \in S : a # b => <<a, b>> \in o \/ <<b, a>> \in o
    /\ \A a, b \in S : <<a, b>> \in o => <<b, a>> \notin o
    /\ \A a, b, c \in S : <<a, b>> \in o /\ <<b, c>> \in o => <<a, c>> \in o

(* A finite set that is not empty has an oldest element.                   *)
LEMMA OldestOf ==
    ASSUME NEW S, IsFiniteSet(S), S # {}, NEW o, Orders(o, S)
    PROVE  \E a \in S : \A b \in S : b # a => <<a, b>> \in o
<1> DEFINE before(a) == {b \in S : <<b, a>> \in o}
           sizes == {Cardinality(before(a)) : a \in S}
<1>1. \A a \in S : IsFiniteSet(before(a)) /\ Cardinality(before(a)) \in Nat
  BY FS_Subset, FS_CardinalityType
<1>2. sizes \subseteq Nat /\ sizes # {}
  BY <1>1
<1>3. \E n \in sizes : \A m \in sizes : n <= m
  BY <1>2, LeastNumber
<1>4. PICK a \in S : \A b \in S : Cardinality(before(a)) <= Cardinality(before(b))
  BY <1>3
<1>5. ASSUME NEW b \in S, b # a, <<a, b>> \notin o PROVE FALSE
  <2>1. <<b, a>> \in o
    BY <1>5 DEF Orders
  <2>2. before(b) \subseteq before(a)
    BY <2>1 DEF Orders
  <2>3. b \in before(a) /\ b \notin before(b)
    BY <2>1 DEF Orders
  <2>4. Cardinality(before(b)) < Cardinality(before(a))
    <3>1. before(b) # before(a)
      BY <2>3
    <3>2. IsFiniteSet(before(a)) /\ Cardinality(before(a)) \in Nat /\ Cardinality(before(b)) \in Nat
      BY <1>1
    <3> HIDE DEF before
    <3> QED
      BY <2>2, <3>1, <3>2, FS_Subset
  <2>5. Cardinality(before(a)) <= Cardinality(before(b))
    BY <1>4
  <2>6. Cardinality(before(a)) \in Nat /\ Cardinality(before(b)) \in Nat
    BY <1>1
  <2> HIDE DEF before
  <2> QED
    BY <2>4, <2>5, <2>6
<1> QED
  BY <1>5

(* The victims are the only ones of their kind.                            *)
LEMMA VictimsAgree ==
    ASSUME NEW S, IsFiniteSet(S), NEW o, Orders(o, S), NEW r,
           NEW u \in Victims(S, o, r), NEW v \in Victims(S, o, r)
    PROVE  u \subseteq v
<1> SUFFICES ASSUME NEW a \in u \ v PROVE FALSE
  OBVIOUS
<1>1. /\ u \subseteq {m \in S : r[m] = 0} /\ v \subseteq {m \in S : r[m] = 0}
      /\ \A m \in u, k \in S \ u : r[k] = 0 => <<m, k>> \in o
      /\ \A m \in v, k \in S \ v : r[k] = 0 => <<m, k>> \in o
      /\ u # {} => Cardinality(S \ u) >= MaxModels
      /\ Cardinality(S \ v) > MaxModels => \A m \in S \ v : r[m] > 0
  BY DEF Victims
<1>2. v \subseteq u
  <2>1. ASSUME NEW b \in v \ u PROVE FALSE
    <3>1. <<b, a>> \in o /\ <<a, b>> \in o /\ a \in S /\ b \in S
      BY <1>1, <2>1
    <3> QED
      BY <3>1 DEF Orders
  <2> QED
    BY <2>1
<1>3. Cardinality(S \ v) > Cardinality(S \ u)
  <2>1. S \ u \subseteq S \ v /\ S \ u # S \ v /\ IsFiniteSet(S \ v) /\ IsFiniteSet(S \ u)
    BY <1>1, <1>2, FS_Subset
  <2> DEFINE su == S \ u
             sv == S \ v
  <2>2. su \subseteq sv /\ su # sv /\ IsFiniteSet(sv) /\ IsFiniteSet(su)
    BY <2>1
  <2> HIDE DEF su, sv
  <2>3. Cardinality(su) \in Nat /\ Cardinality(sv) \in Nat
    BY <2>2, FS_CardinalityType
  <2>4. Cardinality(su) <= Cardinality(sv) /\ Cardinality(su) # Cardinality(sv)
    BY <2>2, FS_Subset
  <2>5. Cardinality(sv) > Cardinality(su)
    BY <2>3, <2>4
  <2> QED
    BY <2>5 DEF su, sv
<1>4. Cardinality(S \ u) \in Nat /\ Cardinality(S \ v) \in Nat
  <2>1. IsFiniteSet(S \ u) /\ IsFiniteSet(S \ v)
    BY FS_Subset
  <2> QED
    BY <2>1, FS_CardinalityType
<1>5. MaxModels \in Nat
  BY ServerAssumption
<1>6. a \in S \ v /\ r[a] = 0
  BY <1>1
<1> QED
  BY <1>1, <1>3, <1>4, <1>5, <1>6

(* The loop ends, and what it took are victims.                            *)
LEMMA VictimsExist ==
    ASSUME NEW S, IsFiniteSet(S), NEW o, Orders(o, S), NEW r, \A m \in S : r[m] \in Nat
    PROVE  Victims(S, o, r) # {}
<1> DEFINE idle == {m \in S : r[m] = 0}
           taken == {out \in SUBSET idle :
                        /\ \A m \in out, k \in S \ out : r[k] = 0 => <<m, k>> \in o
                        /\ out # {} => Cardinality(S \ out) >= MaxModels}
           left == {Cardinality(S \ out) : out \in taken}
<1>1. MaxModels \in Nat
  BY ServerAssumption
<1>2. \A out \in SUBSET S : IsFiniteSet(S \ out) /\ Cardinality(S \ out) \in Nat
  <2>1. ASSUME NEW out \in SUBSET S PROVE IsFiniteSet(S \ out) /\ Cardinality(S \ out) \in Nat
    <3>1. S \ out \subseteq S
      OBVIOUS
    <3>2. IsFiniteSet(S \ out)
      BY <3>1, FS_Subset
    <3> QED
      BY <3>2, FS_CardinalityType
  <2> QED
    BY <2>1
<1>3. {} \in taken /\ taken \subseteq SUBSET S
  OBVIOUS
<1>4. left \subseteq Nat /\ left # {}
  BY <1>2, <1>3
<1>5. \E n \in left : \A m \in left : n <= m
  BY <1>4, LeastNumber
<1>6. PICK out \in taken : \A u \in taken : Cardinality(S \ out) <= Cardinality(S \ u)
  BY <1>5
<1>7. ASSUME Cardinality(S \ out) > MaxModels, NEW m \in S \ out, ~(r[m] > 0) PROVE FALSE
  <2> DEFINE rest == {k \in S \ out : r[k] = 0}
  <2>1. rest # {} /\ rest \subseteq S /\ IsFiniteSet(rest)
    <3>1. m \in rest
      BY <1>7
    <3> QED
      BY <3>1, FS_Subset
  <2>2. Orders(o, rest)
    BY <2>1 DEF Orders
  <2>3. PICK a \in rest : \A b \in rest : b # a => <<a, b>> \in o
    BY <2>1, <2>2, OldestOf
  <2> DEFINE u == out \cup {a}
  <2>4. a \in S \ out /\ r[a] = 0 /\ S \ u = (S \ out) \ {a} /\ u \subseteq S
    BY <1>3, <1>6, <2>3
  <2>5. Cardinality(S \ u) = Cardinality(S \ out) - 1
    <3> DEFINE kept == S \ out
    <3>1. IsFiniteSet(kept)
      BY <1>2, <1>3, <1>6
    <3>2. a \in kept /\ S \ u = kept \ {a}
      BY <2>4
    <3> HIDE DEF kept, u
    <3>3. Cardinality(kept \ {a}) = Cardinality(kept) - 1
      BY <3>1, <3>2, FS_RemoveElement
    <3> QED
      BY <3>2, <3>3 DEF kept
  <2>6. Cardinality(S \ out) \in Nat
    BY <1>2, <1>3, <1>6
  <2>7. \A k \in u, j \in S \ u : r[j] = 0 => <<k, j>> \in o
    <3>1. ASSUME NEW k \in u, NEW j \in S \ u, r[j] = 0 PROVE <<k, j>> \in o
      <4>1. j \in rest /\ j # a /\ j \in S \ out
        BY <3>1
      <4>2. CASE k = a
        BY <2>3, <4>1, <4>2
      <4>3. CASE k \in out
        BY <1>6, <3>1, <4>1, <4>3
      <4> QED
        BY <4>2, <4>3
    <3> QED
      BY <3>1
  <2>8. u \in taken
    <3>1. u \subseteq idle
      BY <1>6, <2>4
    <3>2. Cardinality(S \ u) >= MaxModels
      BY <1>1, <1>7, <2>5, <2>6
    <3> QED
      BY <2>7, <3>1, <3>2
  <2> HIDE DEF u, taken
  <2>9. Cardinality(S \ out) <= Cardinality(S \ u)
    BY <1>6, <2>8
  <2> QED
    BY <2>5, <2>6, <2>9
<1>8. out \in Victims(S, o, r)
  <2>1. Cardinality(S \ out) > MaxModels => \A m \in S \ out : r[m] > 0
    BY <1>7
  <2> QED
    BY <1>6, <2>1 DEF Victims
<1> QED
  BY <1>8

(* The order of the slots stays one.                                       *)
OrderInv == IsFiniteSet(slots) /\ Orders(older, slots)

LEMMA LeasedOrder ==
    ASSUME OrderInv, NEW m
    PROVE  IsFiniteSet(slots \cup {m}) /\ Orders(MovedToEnd(m), slots \cup {m})
<1> DEFINE S == slots \cup {m}
           o == MovedToEnd(m)
<1>1. IsFiniteSet(S)
  BY FS_AddElement DEF OrderInv
<1>2. \A a, b \in S : a # m /\ b # m => (<<a, b>> \in o <=> <<a, b>> \in older)
  BY DEF MovedToEnd
<1>3. \A a \in S : <<m, a>> \notin o /\ (a # m => <<a, m>> \in o)
  BY DEF MovedToEnd
<1> HIDE DEF o
<1>4. Orders(older, slots)
  BY DEF OrderInv
<1>5. \A a, b \in S : a # b => <<a, b>> \in o \/ <<b, a>> \in o
  BY <1>2, <1>3, <1>4 DEF Orders
<1>6. \A a, b \in S : <<a, b>> \in o => <<b, a>> \notin o
  BY <1>2, <1>3, <1>4 DEF Orders
<1>7. \A a, b, c \in S : <<a, b>> \in o /\ <<b, c>> \in o => <<a, c>> \in o
  <2> SUFFICES ASSUME NEW a \in S, NEW b \in S, NEW c \in S, <<a, b>> \in o, <<b, c>> \in o
               PROVE  <<a, c>> \in o
    OBVIOUS
  <2>1. a # m /\ b # m
    BY <1>3
  <2>2. CASE c = m
    BY <1>3, <2>1, <2>2
  <2>3. CASE c # m
    BY <1>2, <1>4, <2>1, <2>3 DEF Orders
  <2> QED
    BY <2>2, <2>3
<1> QED
  BY <1>1, <1>5, <1>6, <1>7 DEF Orders, o

LEMMA SameOrder ==
    ASSUME NEW S, NEW o, Orders(o, S), NEW T, T \subseteq S, NEW u,
           \A a, b \in T : <<a, b>> \in u <=> <<a, b>> \in o
    PROVE  Orders(u, T)
BY DEF Orders

LEMMA EvictedOrder ==
    ASSUME NEW S, IsFiniteSet(S), NEW o, Orders(o, S), NEW r, Evicts(S, o, r)
    PROVE  OrderInv'
<1>1. PICK out \in Victims(S, o, r) :
          slots' = S \ out /\ older' = {p \in o : {p[1], p[2]} \cap out = {}}
  BY DEF Evicts
<1>2. IsFiniteSet(S \ out)
  BY FS_Subset
<1>3. \A a, b \in S \ out : <<a, b>> \in older' <=> <<a, b>> \in o
  BY <1>1
<1>4. slots' \subseteq S /\ \A a, b \in slots' : <<a, b>> \in older' <=> <<a, b>> \in o
  BY <1>1, <1>3
<1>5. Orders(older', slots')
  BY <1>4, SameOrder
<1> QED
  BY <1>1, <1>2, <1>5 DEF OrderInv, Orders

(* What a step does to the slots.                                          *)
LEMMA CacheSteps ==
    ASSUME ServerNext
    PROVE  \/ UNCHANGED <<slots, older>>
           \/ \E m \in slots : Lease(m)
           \/ \E m : Release(m) \/ Insert(m)
<1>1. ASSUME NEW q, NEW r, AsksEngine(q, r)
      PROVE  UNCHANGED <<slots, older>> \/ \E m \in slots : Lease(m)
  BY <1>1, Zenon DEF AsksEngine, cacheVars, Cached
<1>2. ASSUME NEW q, NEW c, Arrives(q, c)
      PROVE  UNCHANGED <<slots, older>> \/ \E m \in slots : Lease(m)
  BY <1>1, <1>2, Zenon DEF Arrives, Hello, Prefetch, InferUnknown, InferAccepted, Bye, cacheVars
<1>3. ASSUME NEW c, InferClosed(c) PROVE UNCHANGED <<slots, older>>
  BY <1>3, Zenon DEF InferClosed, cacheVars
<1>4. ASSUME NEW q, LoopRuns(q)
      PROVE  \/ UNCHANGED <<slots, older>>
             \/ \E m \in slots : Lease(m)
             \/ \E m : Release(m)
  BY <1>1, <1>4, Zenon DEF LoopRuns, HelloGranted, InferGranted, Denied, HelloStores, PrefetchDone,
                            InferValid, InferRefused, LoadFailed, cacheVars
<1>5. ASSUME NEW q, RowAnswers(q) PROVE UNCHANGED <<slots, older>>
  BY <1>5, Zenon DEF RowAnswers, ConnectAtRow, PeekAtRow, EndAtRow, cacheVars
<1>6. ASSUME NEW q, ThreadRuns(q) PROVE UNCHANGED <<slots, older>> \/ \E m : Release(m)
  BY <1>6, Zenon DEF ThreadRuns, Loads, Decodes, cacheVars
<1>7. ASSUME NEW q, TakesKey(q) PROVE UNCHANGED <<slots, older>> \/ \E m \in slots : Lease(m)
  BY <1>7, Zenon DEF TakesKey, Cached, cacheVars
<1>8. ASSUME NEW t, RowEnds(t) \/ CheckReads(t) \/ CheckLands(t) PROVE UNCHANGED <<slots, older>>
  BY <1>8, Zenon DEF RowEnds, CheckReads, CheckLands, cacheVars
<1>9. CASE CpuTakes
  BY <1>9, Zenon DEF CpuTakes, cacheVars
<1>10. CASE GpuRuns
  BY <1>10, Zenon DEF GpuRuns
<1>11. CASE ServerTick
  BY <1>11, Zenon DEF ServerTick, cacheVars
<1> QED
  BY <1>2, <1>3, <1>4, <1>5, <1>6, <1>7, <1>8, <1>9, <1>10, <1>11, Zenon DEF ServerNext

(* Whatever the counts are, there is one way to trim the slots, and one    *)
(* after an engine is inserted.                                            *)
OneWay(S, o) == \A r \in [Models -> Nat] : \E out : Victims(S, o, r) = {out}
TrimIsDefined == OneWay(slots, older) /\ \A m \in Models : OneWay(slots \cup {m}, MovedToEnd(m))

\* The model's eviction is the loop of _evict_locked: in every state that the server reaches
\* and for all counts, exactly one set of slots can be given up, so no release or insert is
\* left without a step and none may choose.
THEOREM EvictionIsOne == ServerSpec => []TrimIsDefined
<1>1. ServerInit => OrderInv
  BY FS_EmptySet DEF ServerInit, OrderInv, Orders
<1>2. OrderInv /\ [ServerNext]_serverVars => OrderInv'
  <2> SUFFICES ASSUME OrderInv, [ServerNext]_serverVars PROVE OrderInv'
    OBVIOUS
  <2>1. CASE UNCHANGED <<slots, older>>
    BY <2>1 DEF OrderInv, Orders
  <2>2. ASSUME NEW m \in slots, Lease(m) PROVE OrderInv'
    <3>1. slots' = slots /\ older' = MovedToEnd(m) /\ slots \cup {m} = slots
      BY <2>2 DEF Lease
    <3>2. IsFiniteSet(slots') /\ Orders(older', slots')
      BY <3>1, LeasedOrder
    <3> QED
      BY <3>2 DEF OrderInv, Orders
  <2>3. ASSUME NEW m, Release(m) PROVE OrderInv'
    <3>1. \E r : Evicts(slots, older, r)
      BY <2>3, Zenon DEF Release
    <3> QED
      BY <3>1, EvictedOrder DEF OrderInv
  <2>4. ASSUME NEW m, Insert(m) PROVE OrderInv'
    <3>1. \E r : Evicts(slots \cup {m}, MovedToEnd(m), r)
      BY <2>4, Zenon DEF Insert
    <3>2. IsFiniteSet(slots \cup {m}) /\ Orders(MovedToEnd(m), slots \cup {m})
      BY LeasedOrder
    <3> QED
      BY <3>1, <3>2, EvictedOrder, Zenon
  <2>5. CASE UNCHANGED serverVars
    BY <2>1, <2>5 DEF serverVars, cacheVars
  <2> QED
    BY <2>1, <2>2, <2>3, <2>4, <2>5, CacheSteps
<1>3. CacheInv /\ OrderInv => TrimIsDefined
  <2> SUFFICES ASSUME CacheInv, OrderInv PROVE TrimIsDefined
    OBVIOUS
  <2>1. ASSUME NEW S, S \subseteq Models, IsFiniteSet(S), NEW o, Orders(o, S) PROVE OneWay(S, o)
    <3>1. ASSUME NEW r \in [Models -> Nat] PROVE \E out : Victims(S, o, r) = {out}
      <4>1. PICK out \in Victims(S, o, r) : TRUE
        BY <2>1, VictimsExist
      <4>2. \A u \in Victims(S, o, r) : u \subseteq out /\ out \subseteq u
        BY <2>1, VictimsAgree
      <4>3. Victims(S, o, r) = {out}
        BY <4>1, <4>2
      <4> QED
        BY <4>3
    <3> QED
      BY <3>1 DEF OneWay
  <2>2. slots \subseteq Models
    BY DEF CacheInv, CacheOK, CacheTypes
  <2>3. OneWay(slots, older)
    BY <2>1, <2>2 DEF OrderInv
  <2>4. ASSUME NEW m \in Models PROVE OneWay(slots \cup {m}, MovedToEnd(m))
    BY <2>1, <2>2, LeasedOrder
  <2> QED
    BY <2>3, <2>4 DEF TrimIsDefined
<1> QED
  BY <1>1, <1>2, <1>3, CacheInvariant, PTL DEF ServerSpec
===========================================================================
