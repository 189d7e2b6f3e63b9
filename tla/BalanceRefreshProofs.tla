------------------------ MODULE BalanceRefreshProofs ------------------------
(***************************************************************************)
(* What BalanceRefresh keeps, for every finite set of outputs and of       *)
(* addresses and every number of requests.  A row of either table is at a  *)
(* place: an address, or None for the wallet.  What is said of a place     *)
(* holds of both tables, and a statement of a request is at one place.     *)
(***************************************************************************)
EXTENDS BalanceRefresh, FiniteSetTheorems, TLAPS

---------------------------------------------------------------------------
(* Induction over the subsets of a finite set, and sums over it, as in     *)
(* TxLedgerProofs.                                                         *)

\* Induction over the subsets of a finite set, with the property as a set.
LEMMA SubsetInduction ==
    ASSUME NEW S, IsFiniteSet(S), NEW Good,
           ASSUME NEW T \in SUBSET S, \A U \in SUBSET T : U # T => U \in Good
           PROVE  T \in Good
    PROVE  S \in Good
<1> DEFINE Bad == {T \in SUBSET S : T \notin Good}
           R == StrictSubsetOrdering(S)
<1>1. IsWellFoundedOn(R, SUBSET S)
  BY FS_StrictSubsetOrderingWellFounded, FS_FiniteSubsetsOfFinite
<1>2. \A T, U : T \in SUBSET S /\ U \in SUBSET T /\ U # T => <<U, T>> \in R
  BY DEF StrictSubsetOrdering
<1> SUFFICES ASSUME Bad # {} PROVE FALSE
  OBVIOUS
<1>3. PICK T \in Bad : \A U \in Bad : ~(<<U, T>> \in R)
  <2> HIDE DEF R, Bad
  <2>1. Bad \subseteq SUBSET S
    BY DEF Bad
  <2> QED
    BY <1>1, <2>1, WFMin
<1>4. ASSUME NEW U \in SUBSET T, U # T
      PROVE  U \in Good
  <2>1. T \in SUBSET S /\ U \in SUBSET S
    OBVIOUS
  <2>2. <<U, T>> \in R
    BY <1>2, <1>4, <2>1
  <2> HIDE DEF R
  <2> QED
    BY <1>3, <2>1, <2>2
<1> QED
  BY <1>3, <1>4

\* The member that SumFunctionOnSet takes first.
Pick(S) == CHOOSE x \in S : TRUE

\* g holds the running sums of f over the subsets of S.
Runs(g, f, S) ==
    g = [s \in SUBSET S |-> IF s = {} THEN 0 ELSE f[Pick(s)] + g[s \ {Pick(s)}]]

\* The sum is the value at S of a function that unfolds it.
LEMMA SumIsRun ==
    ASSUME NEW f, NEW S
    PROVE  SumFunctionOnSet(f, S) = (CHOOSE g : Runs(g, f, S))[S]
  BY DEF SumFunctionOnSet, FoldFunctionOnSet, MapThenFoldSet, Runs, Pick

\* The element the sum takes next belongs to the set.
LEMMA PickIn ==
    ASSUME NEW S, S # {}
    PROVE  Pick(S) \in S
  BY DEF Pick

\* Two functions that unfold a sum agree, by induction over the subsets.
LEMMA RunsAgree ==
    ASSUME NEW S, IsFiniteSet(S), NEW f, NEW g, NEW h, NEW T, S \subseteq T, Runs(g, f, S), Runs(h, f, T)
    PROVE  g[S] = h[S]
<1> DEFINE Good == {s \in SUBSET S : g[s] = h[s]}
<1>1. ASSUME NEW s \in SUBSET S, \A u \in SUBSET s : u # s => u \in Good
      PROVE  s \in Good
  <2>1. /\ g[s] = IF s = {} THEN 0 ELSE f[Pick(s)] + g[s \ {Pick(s)}]
        /\ h[s] = IF s = {} THEN 0 ELSE f[Pick(s)] + h[s \ {Pick(s)}]
    BY DEF Runs
  <2>2. s # {} => s \ {Pick(s)} \in Good
    <3> SUFFICES ASSUME s # {} PROVE s \ {Pick(s)} \in Good
      OBVIOUS
    <3>1. Pick(s) \in s
      BY PickIn
    <3> QED
      BY <1>1, <3>1
  <2> QED
    BY <2>1, <2>2
<1> HIDE DEF Good
<1>2. S \in Good
  BY <1>1, SubsetInduction
<1> QED
  BY <1>2 DEF Good

\* There is one for every finite set.
LEMMA RunExists ==
    ASSUME NEW S, IsFiniteSet(S), NEW f
    PROVE  \E g : Runs(g, f, S)
<1> DEFINE Good == {T \in SUBSET S : \E g : Runs(g, f, T)}
<1>1. ASSUME NEW T \in SUBSET S, \A U \in SUBSET T : U # T => U \in Good
      PROVE  T \in Good
  <2> DEFINE G(s) == CHOOSE g : Runs(g, f, s)
             v(s) == IF s = {} THEN 0 ELSE f[Pick(s)] + G(s \ {Pick(s)})[s \ {Pick(s)}]
             g == [s \in SUBSET T |-> v(s)]
  <2>1. \A U \in SUBSET T : U # T => Runs(G(U), f, U)
    BY <1>1
  <2>2. \A U \in SUBSET T : U # T => G(U)[U] = v(U)
    <3> SUFFICES ASSUME NEW U \in SUBSET T, U # T PROVE G(U)[U] = v(U)
      OBVIOUS
    <3>1. Runs(G(U), f, U)
      BY <2>1
    <3>2. G(U)[U] = IF U = {} THEN 0 ELSE f[Pick(U)] + G(U)[U \ {Pick(U)}]
      <4> HIDE DEF G
      <4> QED
        BY <3>1 DEF Runs
    <3>3. CASE U = {}
      BY <3>2, <3>3
    <3>4. CASE U # {}
      <4> DEFINE W == U \ {Pick(U)}
      <4>1. Pick(U) \in U
        BY <3>4, PickIn
      <4>2. W \in SUBSET T /\ W # T /\ W \subseteq U
        BY <4>1
      <4>3. Runs(G(W), f, W)
        BY <4>2, <2>1
      <4>4. IsFiniteSet(W)
        BY <4>2, FS_Subset
      <4> HIDE DEF G, W
      <4>5. G(W)[W] = G(U)[W]
        BY <3>1, <4>2, <4>3, <4>4, RunsAgree
      <4> QED
        BY <3>2, <3>4, <4>5 DEF W
    <3> QED
      BY <3>3, <3>4
  <2>3. g = [s \in SUBSET T |-> IF s = {} THEN 0 ELSE f[Pick(s)] + g[s \ {Pick(s)}]]
    <3>1. ASSUME NEW s \in SUBSET T
          PROVE  v(s) = IF s = {} THEN 0 ELSE f[Pick(s)] + g[s \ {Pick(s)}]
      <4> SUFFICES ASSUME s # {} PROVE v(s) = f[Pick(s)] + g[s \ {Pick(s)}]
        OBVIOUS
      <4> DEFINE W == s \ {Pick(s)}
      <4>1. Pick(s) \in s
        BY PickIn
      <4>2. W \in SUBSET T /\ W # T
        BY <4>1
      <4>3. G(W)[W] = v(W)
        <5> HIDE DEF G, v, W
        <5> QED
          BY <2>2, <4>2
      <4>4. g[W] = v(W)
        <5> HIDE DEF v, W
        <5> QED
          BY <4>2
      <4>5. v(s) = f[Pick(s)] + G(W)[W]
        OBVIOUS
      <4> HIDE DEF v, g, G
      <4> QED
        BY <4>3, <4>4, <4>5
    <3>2. g = [s \in SUBSET T |-> v(s)]
      OBVIOUS
    <3> HIDE DEF v, g
    <3> QED
      BY <3>1, <3>2
  <2>4. Runs(g, f, T)
    <3> HIDE DEF g
    <3> QED
      BY <2>3 DEF Runs
  <2> QED
    BY <2>4
<1> HIDE DEF Good
<1>2. S \in Good
  BY <1>1, SubsetInduction
<1> QED
  BY <1>2 DEF Good

---------------------------------------------------------------------------
\* One unfolding of a sum: what every other fact on sums rests on.
LEMMA SumStep ==
    ASSUME NEW S, IsFiniteSet(S), NEW f
    PROVE  SumFunctionOnSet(f, S) = IF S = {} THEN 0 ELSE f[Pick(S)] + SumFunctionOnSet(f, S \ {Pick(S)})
<1> DEFINE g == CHOOSE r : Runs(r, f, S)
           T == S \ {Pick(S)}
           h == CHOOSE r : Runs(r, f, T)
<1>1. Runs(g, f, S) /\ IsFiniteSet(T) /\ T \subseteq S
  BY RunExists, FS_Subset
<1>2. Runs(h, f, T)
  BY <1>1, RunExists
<1>3. SumFunctionOnSet(f, S) = g[S] /\ SumFunctionOnSet(f, T) = h[T]
  BY SumIsRun
<1> HIDE DEF g, h
<1>4. h[T] = g[T]
  BY <1>1, <1>2, RunsAgree
<1>5. g[S] = IF S = {} THEN 0 ELSE f[Pick(S)] + g[T]
  BY <1>1 DEF Runs
<1> QED
  BY <1>3, <1>4, <1>5

\* Induction by one element at a time.
LEMMA InsertInduction ==
    ASSUME NEW S, IsFiniteSet(S), NEW Good, {} \in Good,
           ASSUME NEW T \in SUBSET S, NEW x \in T, T \ {x} \in Good
           PROVE  T \in Good
    PROVE  S \in Good
<1>1. ASSUME NEW T \in SUBSET S, \A U \in SUBSET T : U # T => U \in Good
      PROVE  T \in Good
  <2>1. CASE T = {}
    BY <2>1
  <2>2. CASE T # {}
    <3>1. PICK x \in T : TRUE
      BY <2>2
    <3>2. T \ {x} \in SUBSET T /\ T \ {x} # T
      OBVIOUS
    <3>3. T \ {x} \in Good
      BY <1>1, <3>2
    <3> QED
      BY <3>3
  <2> QED
    BY <2>1, <2>2
<1> QED
  BY <1>1, SubsetInduction

\* Sums: of nothing,
LEMMA SumEmpty ==
    ASSUME NEW f
    PROVE  SumFunctionOnSet(f, {}) = 0
  BY SumStep, FS_EmptySet

\* of integers,
LEMMA SumType ==
    ASSUME NEW S, IsFiniteSet(S), NEW f, \A x \in S : f[x] \in Int
    PROVE  SumFunctionOnSet(f, S) \in Int
<1> DEFINE Good == {T \in SUBSET S : SumFunctionOnSet(f, T) \in Int}
<1>1. ASSUME NEW T \in SUBSET S, \A U \in SUBSET T : U # T => U \in Good
      PROVE  T \in Good
  <2>1. CASE T = {}
    BY <2>1, SumEmpty
  <2>2. CASE T # {}
    <3> DEFINE U == T \ {Pick(T)}
    <3>1. Pick(T) \in T /\ U \in SUBSET T /\ U # T /\ IsFiniteSet(T)
      BY <2>2, PickIn, FS_Subset
    <3>2. SumFunctionOnSet(f, U) \in Int /\ f[Pick(T)] \in Int
      BY <1>1, <3>1
    <3>3. SumFunctionOnSet(f, T) = f[Pick(T)] + SumFunctionOnSet(f, U)
      BY <2>2, <3>1, SumStep
    <3> QED
      BY <3>2, <3>3
  <2> QED
    BY <2>1, <2>2
<1> HIDE DEF Good
<1>2. S \in Good
  BY <1>1, SubsetInduction
<1> QED
  BY <1>2 DEF Good

\* with any element taken out first,
LEMMA SumRemove ==
    ASSUME NEW S, IsFiniteSet(S), NEW f, \A x \in S : f[x] \in Int, NEW y \in S
    PROVE  SumFunctionOnSet(f, S) = f[y] + SumFunctionOnSet(f, S \ {y})
<1> DEFINE Good == {T \in SUBSET S : \A x \in T : SumFunctionOnSet(f, T) = f[x] + SumFunctionOnSet(f, T \ {x})}
<1>1. ASSUME NEW T \in SUBSET S, \A U \in SUBSET T : U # T => U \in Good, NEW x \in T
      PROVE  SumFunctionOnSet(f, T) = f[x] + SumFunctionOnSet(f, T \ {x})
  <2> DEFINE p == Pick(T)
             A == T \ {p}
             B == T \ {x}
             C == T \ {x, p}
  <2>1. p \in T /\ IsFiniteSet(T) /\ T # {}
    BY PickIn, FS_Subset
  <2>2. SumFunctionOnSet(f, T) = f[p] + SumFunctionOnSet(f, A)
    BY <2>1, SumStep
  <2>3. CASE x = p
    BY <2>2, <2>3
  <2>4. CASE x # p
    <3>1. A \in Good /\ B \in Good /\ x \in A /\ p \in B /\ A \ {x} = C /\ B \ {p} = C
      BY <1>1, <2>1, <2>4
    <3>2. C \in SUBSET S /\ IsFiniteSet(C) /\ \A z \in C : f[z] \in Int
      BY FS_Subset
    <3>3. SumFunctionOnSet(f, C) \in Int
      BY <3>2, SumType
    <3>4. SumFunctionOnSet(f, A) = f[x] + SumFunctionOnSet(f, C) /\ SumFunctionOnSet(f, B) = f[p] + SumFunctionOnSet(f, C)
      <4> HIDE DEF p, A, B, C
      <4> QED
        BY <3>1
    <3>5. f[x] \in Int /\ f[p] \in Int
      BY <2>1
    <3> HIDE DEF p, A, C
    <3> QED
      BY <2>2, <3>3, <3>4, <3>5 DEF B
  <2> QED
    BY <2>3, <2>4
<1>2. ASSUME NEW T \in SUBSET S, \A U \in SUBSET T : U # T => U \in Good
      PROVE  T \in Good
  BY <1>1, <1>2
<1> HIDE DEF Good
<1>3. S \in Good
  BY <1>2, SubsetInduction
<1> QED
  BY <1>3 DEF Good

\* A sum depends on the terms only.
\* of naturals,
LEMMA SumNat ==
    ASSUME NEW S, IsFiniteSet(S), NEW f, \A x \in S : f[x] \in Nat
    PROVE  SumFunctionOnSet(f, S) \in Nat
<1> DEFINE Good == {T \in SUBSET S : SumFunctionOnSet(f, T) \in Nat}
<1>1. {} \in Good
  BY SumEmpty
<1>2. ASSUME NEW T \in SUBSET S, NEW x \in T, T \ {x} \in Good
      PROVE  T \in Good
  <2>1. IsFiniteSet(T) /\ \A z \in T : f[z] \in Int
    BY FS_Subset
  <2>2. SumFunctionOnSet(f, T) = f[x] + SumFunctionOnSet(f, T \ {x})
    BY <2>1, SumRemove
  <2> QED
    BY <1>2, <2>2
<1> HIDE DEF Good
<1>3. S \in Good
  BY <1>1, <1>2, InsertInduction
<1> QED
  BY <1>3 DEF Good

\* over a part and the rest,
LEMMA SumUnion ==
    ASSUME NEW S, IsFiniteSet(S), NEW f, \A x \in S : f[x] \in Int, NEW A \in SUBSET S
    PROVE  SumFunctionOnSet(f, S) = SumFunctionOnSet(f, A) + SumFunctionOnSet(f, S \ A)
<1> DEFINE Good == {T \in SUBSET A : SumFunctionOnSet(f, S) = SumFunctionOnSet(f, T) + SumFunctionOnSet(f, S \ T)}
<1>0. IsFiniteSet(A) /\ SumFunctionOnSet(f, S) \in Int
  BY FS_Subset, SumType
<1>1. {} \in Good
  BY <1>0, SumEmpty
<1>2. ASSUME NEW T \in SUBSET A, NEW x \in T, T \ {x} \in Good
      PROVE  T \in Good
  <2> DEFINE U == T \ {x}
             V == S \ U
             W == S \ T
  <2>1. /\ IsFiniteSet(T) /\ IsFiniteSet(U) /\ IsFiniteSet(V) /\ IsFiniteSet(W)
        /\ T \subseteq S /\ x \in V /\ V \ {x} = W
    BY <1>0, FS_Subset
  <2>2. SumFunctionOnSet(f, T) = f[x] + SumFunctionOnSet(f, U)
    BY <2>1, SumRemove
  <2>3. SumFunctionOnSet(f, V) = f[x] + SumFunctionOnSet(f, W)
    BY <2>1, SumRemove
  <2>4. SumFunctionOnSet(f, S) = SumFunctionOnSet(f, U) + SumFunctionOnSet(f, V)
    BY <1>2
  <2>5. f[x] \in Int /\ SumFunctionOnSet(f, U) \in Int /\ SumFunctionOnSet(f, V) \in Int /\ SumFunctionOnSet(f, W) \in Int
    BY <2>1, SumType
  <2>6. SumFunctionOnSet(f, S) = SumFunctionOnSet(f, T) + SumFunctionOnSet(f, W)
    <3> HIDE DEF U, V, W
    <3> QED
      BY <2>2, <2>3, <2>4, <2>5
  <2> QED
    BY <2>6
<1> HIDE DEF Good
<1>3. A \in Good
  BY <1>0, <1>1, <1>2, InsertInduction
<1> QED
  BY <1>3 DEF Good

\* Amounts: a natural number,
LEMMA AmountNat ==
    ASSUME NEW S \in SUBSET Outputs
    PROVE  IsFiniteSet(S) /\ Amount(S) \in Nat
<1> DEFINE v == [o \in Outputs |-> Out[o].value]
<1>1. IsFiniteSet(S) /\ \A o \in S : v[o] \in Nat
  BY RefreshAssumption, FS_Subset
<1>2. Amount(S) = SumFunctionOnSet(v, S)
  BY DEF Amount
<1> HIDE DEF v
<1> QED
  BY <1>1, <1>2, SumNat

\* zero of nothing,
LEMMA AmountEmpty == Amount({}) = 0
  BY SumEmpty DEF Amount

\* and a sum over two disjoint parts.
LEMMA AmountSplit ==
    ASSUME NEW S \in SUBSET Outputs, NEW A, NEW B, A \cup B = S, A \cap B = {}
    PROVE  Amount(S) = Amount(A) + Amount(B)
<1> DEFINE v == [o \in Outputs |-> Out[o].value]
<1>1. IsFiniteSet(S) /\ (\A o \in S : v[o] \in Int) /\ A \in SUBSET S /\ S \ A = B
  BY RefreshAssumption, FS_Subset
<1>2. \A T : Amount(T) = SumFunctionOnSet(v, T)
  BY DEF Amount
<1> HIDE DEF v
<1> QED
  BY <1>1, <1>2, SumUnion

---------------------------------------------------------------------------
(* The earliest of several times. *)

\* A set of naturals has a least member.
LEMMA LeastMember ==
    ASSUME NEW T \in SUBSET Nat, NEW m \in T
    PROVE  \E x \in T : \A y \in T : x <= y
<1> DEFINE S == T \cap (0 .. m)
           Good == {V \in SUBSET S : V # {} => \E x \in V : \A y \in V : x <= y}
<1>1. IsFiniteSet(S) /\ S \subseteq Nat
  <2>1. IsFiniteSet(0 .. m) /\ S \in SUBSET (0 .. m)
    BY FS_Interval
  <2> QED
    BY <2>1, FS_Subset
<1>2. {} \in Good
  OBVIOUS
<1>3. ASSUME NEW V \in SUBSET S, NEW v \in V, V \ {v} \in Good
      PROVE  V \in Good
  <2>1. CASE V = {v}
    BY <1>1, <2>1
  <2>2. CASE V # {v}
    <3>1. PICK x \in V \ {v} : \A y \in V \ {v} : x <= y
      BY <1>3, <2>2
    <3>2. (\A y \in V : x <= y) \/ (\A y \in V : v <= y)
      BY <1>1, <3>1
    <3> QED
      BY <3>1, <3>2
  <2> QED
    BY <2>1, <2>2
<1>4. S \in Good
  <2> HIDE DEF Good, S
  <2> QED
    BY <1>1, <1>2, <1>3, InsertInduction
<1>5. PICK x \in S : \A y \in S : x <= y
  BY <1>4
<1> QED
  BY <1>5

\* The earliest is no later than any, and is one of them.
LEMMA EarliestIs ==
    ASSUME NEW times \in SUBSET (Nat \cup {None})
    PROVE  /\ Earliest(times) \in Nat \cup {None}
           /\ \A t \in times \ {None} : Earliest(times) # None /\ Earliest(times) <= t
<1> DEFINE T == times \ {None}
<1>1. T \in SUBSET Nat
  BY RefreshAssumption
<1>2. CASE T = {}
  BY <1>1, <1>2 DEF Earliest
<1>3. CASE T # {}
  <2>1. \E x \in T : \A y \in T : x <= y
    BY <1>1, <1>3, LeastMember
  <2>2. Min(T) \in T /\ \A y \in T : Min(T) <= y
    BY <2>1 DEF Min
  <2>3. Earliest(times) = Min(T)
    BY <1>3 DEF Earliest
  <2> QED
    BY <1>1, <2>2, <2>3
<1> QED
  BY <1>2, <1>3

---------------------------------------------------------------------------
(* Types, and what a statement does to the row of a place.                 *)

BalanceRow == [unlocked : Nat, locked : Nat, uAuth : BOOLEAN, lAuth : BOOLEAN, expires : Nat \cup {None}]
SignedRow == [unlocked : Int, locked : Int, uAuth : BOOLEAN, lAuth : BOOLEAN, expires : Nat \cup {None}]
Places == Addresses \cup {None}
Row(p) == IF p = None THEN walletBalance ELSE addressBalance[p]
OutputsOf(p) == IF p = None THEN Outputs ELSE At(Outputs, p)
Part(S, p) == S \cap OutputsOf(p)
LockedAt(p) == Part(LockedUnspent, p)
UnspentOf(p) == {o \in OutputsOf(p) : state[o] = "unspent"}

RequestRow == [at : {"idle", "select", "mark", "update"}, height : Nat, picked : SUBSET Outputs,
               left : SUBSET Addresses, row : Places, next : {"unlock", "authorities", "expires"}]
DaemonRow == [kind : {"none", "accept", "spend", "block"}, output : Outputs \cup {None}, open : BOOLEAN,
              now : Nat, picked : SUBSET Outputs, touched : SUBSET Outputs]

\* A request has picked outputs while it marks and updates, and has a place only while it updates.
RequestShape(q) ==
    /\ q.at \in {"mark", "update"} <=> q.picked # {}
    /\ q.at = "idle" => q = NoRequest
    /\ q.row = None => q.left = {}
    /\ q.row \notin q.left
    /\ q.at # "update" => q.row = None /\ q.next = "unlock"

\* An event that is read is still to come when it is committed.
DaemonShape ==
    /\ daemon.open => daemon.kind # "none"
    /\ daemon.kind \in {"accept", "spend"} => daemon.output \in Outputs
    /\ daemon.open /\ daemon.kind = "accept" => state[daemon.output] = "absent"
    /\ daemon.open /\ daemon.kind = "spend" => state[daemon.output] = "unspent" /\ daemon.picked \subseteq {daemon.output}
    /\ daemon.open /\ daemon.kind = "block" => height < MaxHeight

RowsTyped ==
    /\ now \in 0 .. MaxTime /\ height \in 0 .. MaxHeight
    /\ state \in [Outputs -> {"absent", "unspent", "spent"}] /\ locked \in [Outputs -> BOOLEAN]
    /\ \A o \in Outputs : locked[o] => state[o] = "unspent"
    /\ addressBalance \in [Addresses -> BalanceRow] /\ walletBalance \in BalanceRow

Types ==
    /\ RowsTyped
    /\ request \in [Requests -> RequestRow] /\ \A r \in Requests : RequestShape(request[r])
    /\ daemon \in DaemonRow /\ DaemonShape
    /\ failures \in Nat /\ crossed \in BOOLEAN

\* The row a statement of a request writes.
Statement(q) == IF q.row = None THEN updateWalletLockedBalance(q.next, q.picked)
                ELSE updateAddressLockedBalance(q.next, q.row, q.picked)

\* A place is an address or the wallet, never both.
LEMMA Placed ==
    /\ \A a \in Addresses : a # None /\ OutputsOf(a) = At(Outputs, a) /\ Row(a) = addressBalance[a]
                            /\ \A S \in SUBSET Outputs : At(S, a) = Part(S, a)
    /\ OutputsOf(None) = Outputs /\ Row(None) = walletBalance
    /\ \A S \in SUBSET Outputs : Part(S, None) = S
    /\ \A S, p : Part(S, p) \in SUBSET S
    /\ LockedUnspent \in SUBSET Outputs
    /\ \A p : OutputsOf(p) \in SUBSET Outputs
  BY RefreshAssumption DEF OutputsOf, Row, At, Part, LockedUnspent

\* The rows of the places are the two tables.
LEMMA RowsOfPlaces ==
    ASSUME Types
    PROVE  \A p \in Places : Row(p) \in BalanceRow
  BY RefreshAssumption DEF Places, Row, Types, RowsTyped

\* Locks by time are times.
LEMMA TimelocksAreTimes ==
    ASSUME NEW o \in Outputs
    PROVE  /\ timelockOf(o) \in Nat \cup {None} /\ Out[o].timelock \in Nat
           /\ Out[o].timelock # 0 => timelockOf(o) = Out[o].timelock
  BY RefreshAssumption DEF timelockOf

\* The columns of row once S is unlocked.
Moved(new, row, S) ==
    /\ new.unlocked = row.unlocked + Amount(S) /\ new.locked = row.locked - Amount(S)
    /\ new.uAuth = (row.uAuth \/ Authority(S))

\* A row in range is one of the tables.
LEMMA SignedRows ==
    /\ \A row \in BalanceRow : row \in SignedRow
    /\ \A row \in SignedRow : InRange(row) => row \in BalanceRow
  BY DEF BalanceRow, SignedRow, InRange

\* Unlock moves the amount of S between the columns, and leaves the rest.
LEMMA UnlockRow ==
    ASSUME NEW row \in SignedRow, NEW S \in SUBSET Outputs
    PROVE  /\ Moved(Unlock(row, S), row, S)
           /\ Unlock(row, S).lAuth = row.lAuth /\ Unlock(row, S).expires = row.expires
           /\ Unlock(row, S) \in SignedRow
<1> DEFINE u == row.unlocked + Amount(S)
           k == row.locked - Amount(S)
           b == row.uAuth \/ Authority(S)
           new == [row EXCEPT !.unlocked = u, !.locked = k, !.uAuth = b]
<1>1. Unlock(row, S) = new
  BY Zenon DEF Unlock
<1>2. b \in BOOLEAN /\ u \in Int /\ k \in Int
  BY AmountNat DEF SignedRow
<1>3. /\ new.unlocked = u /\ new.locked = k /\ new.uAuth = b
      /\ new.lAuth = row.lAuth /\ new.expires = row.expires
      /\ new \in SignedRow
  <2> HIDE DEF u, k, b
  <2> QED
    BY <1>2 DEF SignedRow
<1>4. Moved(new, row, S)
  <2> HIDE DEF new
  <2> QED
    BY <1>3, Zenon DEF Moved
<1> HIDE DEF new, u, k, b
<1> QED
  BY <1>1, <1>3, <1>4

\* A statement of a request, by its kind.
LEMMA Statements ==
    ASSUME Types, NEW q \in RequestRow
    PROVE  /\ q.next = "unlock" => Statement(q) = Unlock(Row(q.row), Part(q.picked, q.row))
           /\ q.next = "authorities" =>
                  \E b \in BOOLEAN : /\ Statement(q) = [Row(q.row) EXCEPT !.lAuth = b]
                                     /\ q.row = None => (b <=> \E a \in Addresses : Row(a).lAuth)
                                     /\ q.row # None => (b <=> Authority(LockedAt(q.row)))
           /\ q.next = "expires" =>
                  \E e \in Nat \cup {None} :
                      /\ Statement(q) = [Row(q.row) EXCEPT !.expires = e]
                      /\ q.row = None => \A a \in Addresses : Row(a).expires # None => e # None /\ e <= Row(a).expires
                      /\ q.row # None => \A o \in LockedAt(q.row) : Out[o].timelock # 0 => e # None /\ e <= Out[o].timelock
<1>1. q.row \in Places /\ q.picked \in SUBSET Outputs /\ q.next \in {"unlock", "authorities", "expires"}
  BY DEF RequestRow
<1>2. CASE q.row = None
  <2> DEFINE times == {addressBalance[a].expires : a \in Addresses}
  <2>1. Statement(q) = updateWalletLockedBalance(q.next, q.picked) /\ Row(q.row) = walletBalance
        /\ Part(q.picked, q.row) = q.picked /\ \A a \in Addresses : Row(a) = addressBalance[a]
    BY <1>1, <1>2, Placed DEF Statement
  <2>2. times \in SUBSET (Nat \cup {None}) /\ \A a \in Addresses : addressBalance[a].expires \in times
    BY DEF Types, RowsTyped, BalanceRow
  <2>3. Earliest(times) \in Nat \cup {None}
        /\ \A a \in Addresses : addressBalance[a].expires # None =>
               Earliest(times) # None /\ Earliest(times) <= addressBalance[a].expires
    <3> HIDE DEF times
    <3>1. Earliest(times) \in Nat \cup {None} /\ \A t \in times \ {None} : Earliest(times) # None /\ Earliest(times) <= t
      BY <2>2, EarliestIs
    <3>2. ASSUME NEW a \in Addresses, addressBalance[a].expires # None
          PROVE  Earliest(times) # None /\ Earliest(times) <= addressBalance[a].expires
      <4>1. addressBalance[a].expires \in times \ {None}
        BY <2>2, <3>2
      <4> QED
        BY <3>1, <4>1
    <3> QED
      BY <3>1, <3>2
  <2>4. q.next = "unlock" => Statement(q) = Unlock(walletBalance, q.picked)
    BY <2>1 DEF updateWalletLockedBalance
  <2>5. q.next = "authorities" => Statement(q) = [walletBalance EXCEPT !.lAuth = \E a \in Addresses : addressBalance[a].lAuth]
    BY <2>1 DEF updateWalletLockedBalance
  <2>6. q.next = "expires" => Statement(q) = [walletBalance EXCEPT !.expires = Earliest(times)]
    BY <2>1 DEF updateWalletLockedBalance
  <2>7. ASSUME q.next = "authorities"
        PROVE  \E b \in BOOLEAN : /\ Statement(q) = [walletBalance EXCEPT !.lAuth = b]
                                  /\ (b <=> \E a \in Addresses : addressBalance[a].lAuth)
    <3> WITNESS (\E a \in Addresses : addressBalance[a].lAuth) \in BOOLEAN
    <3> QED
      BY <2>5, <2>7
  <2> HIDE DEF times
  <2>8. ASSUME q.next = "expires"
        PROVE  \E e \in Nat \cup {None} :
                   /\ Statement(q) = [walletBalance EXCEPT !.expires = e]
                   /\ \A a \in Addresses : addressBalance[a].expires # None => e # None /\ e <= addressBalance[a].expires
    BY <2>3, <2>6, <2>8
  <2> QED
    BY <1>2, <2>1, <2>4, <2>7, <2>8
<1>3. CASE q.row # None
  <2> DEFINE a == q.row
             times == {timelockOf(o) : o \in LockedAt(a)}
  <2>1. /\ a \in Addresses /\ Statement(q) = updateAddressLockedBalance(q.next, a, q.picked) /\ Row(a) = addressBalance[a]
        /\ Part(q.picked, a) = At(q.picked, a) /\ LockedAt(a) = At(LockedUnspent, a) /\ LockedAt(a) \in SUBSET Outputs
    BY <1>1, <1>3, Placed DEF Statement, Places, LockedAt
  <2>2. times \in SUBSET (Nat \cup {None}) /\ \A o \in LockedAt(a) : timelockOf(o) \in times
    BY <2>1, TimelocksAreTimes
  <2>3. Earliest(times) \in Nat \cup {None}
        /\ \A o \in LockedAt(a) : timelockOf(o) # None => Earliest(times) # None /\ Earliest(times) <= timelockOf(o)
    <3> HIDE DEF times
    <3>1. Earliest(times) \in Nat \cup {None} /\ \A t \in times \ {None} : Earliest(times) # None /\ Earliest(times) <= t
      BY <2>2, EarliestIs
    <3>2. ASSUME NEW o \in LockedAt(a), timelockOf(o) # None
          PROVE  Earliest(times) # None /\ Earliest(times) <= timelockOf(o)
      <4>1. timelockOf(o) \in times \ {None}
        BY <2>2, <3>2
      <4> HIDE DEF a
      <4> QED
        BY <3>1, <4>1
    <3> QED
      BY <3>1, <3>2
  <2>4. \A o \in LockedAt(a) : Out[o].timelock # 0 => Earliest(times) # None /\ Earliest(times) <= Out[o].timelock
    <3> HIDE DEF times
    <3>1. \A o \in LockedAt(a) : Out[o].timelock # 0 => timelockOf(o) = Out[o].timelock /\ timelockOf(o) # None
      BY <2>1, TimelocksAreTimes, RefreshAssumption
    <3> QED
      BY <2>3, <3>1
  <2>5. q.next = "unlock" => Statement(q) = Unlock(addressBalance[a], At(q.picked, a))
    BY <2>1 DEF updateAddressLockedBalance
  <2>6. q.next = "authorities" => Statement(q) = [addressBalance[a] EXCEPT !.lAuth = Authority(LockedAt(a))]
    BY <2>1 DEF updateAddressLockedBalance
  <2>7. q.next = "expires" => Statement(q) = [addressBalance[a] EXCEPT !.expires = Earliest(times)]
    BY <2>1 DEF updateAddressLockedBalance
  <2>8. Authority(LockedAt(a)) \in BOOLEAN
    BY DEF Authority
  <2> HIDE DEF times, a
  <2> QED
    BY <1>3, <2>1, <2>3, <2>4, <2>5, <2>6, <2>7, <2>8 DEF a
<1> QED
  BY <1>2, <1>3

\* A statement that is in range writes a row.
LEMMA StatementTyped ==
    ASSUME Types, NEW q \in RequestRow, InRange(Statement(q))
    PROVE  Statement(q) \in BalanceRow
<1>1. q.row \in Places /\ q.picked \in SUBSET Outputs /\ q.next \in {"unlock", "authorities", "expires"}
  BY DEF RequestRow
<1>2. Row(q.row) \in BalanceRow /\ Part(q.picked, q.row) \in SUBSET Outputs
  BY <1>1, RowsOfPlaces DEF Part
<1>3. CASE q.next = "unlock"
  BY <1>2, <1>3, Statements, UnlockRow, SignedRows
<1>4. CASE q.next = "authorities"
  BY <1>2, <1>4, Statements DEF BalanceRow
<1>5. CASE q.next = "expires"
  BY <1>2, <1>5, Statements DEF BalanceRow
<1> QED
  BY <1>1, <1>3, <1>4, <1>5

---------------------------------------------------------------------------
(* What the daemon writes. *)

\* The row of a place once S is unlocked.
UnlockedAt(S, p) == IF p = None THEN WalletUnlocked(S) ELSE AddressesUnlocked(S)[p]

\* A row that the daemon unlocks, with the authorities and the expiry that are left.
Relocked(new, row, S, still, e) ==
    /\ Moved(new, row, S) /\ new \in SignedRow
    /\ new.lAuth = IF Authority(S) THEN still ELSE row.lAuth
    /\ new.expires = IF ByTime(S) # {} THEN e ELSE row.expires

LEMMA UnlockedRow ==
    ASSUME NEW row \in SignedRow, NEW S \in SUBSET Outputs, NEW still \in BOOLEAN, NEW e \in Nat \cup {None}
    PROVE  Relocked(Unlocked(row, S, still, e), row, S, still, e)
<1> DEFINE u == Unlock(row, S)
           b == IF Authority(S) THEN still ELSE u.lAuth
           x == IF ByTime(S) # {} THEN e ELSE u.expires
           new == [u EXCEPT !.lAuth = b, !.expires = x]
<1>1. Unlocked(row, S, still, e) = new
  BY Zenon DEF Unlocked
<1>2. Moved(u, row, S) /\ u \in SignedRow /\ u.lAuth = row.lAuth /\ u.expires = row.expires
  BY UnlockRow
<1> HIDE DEF u
<1>3. b \in BOOLEAN /\ x \in Nat \cup {None}
  BY <1>2 DEF SignedRow
<1>4. b = (IF Authority(S) THEN still ELSE row.lAuth) /\ x = (IF ByTime(S) # {} THEN e ELSE row.expires)
  BY <1>2, Zenon
<1> HIDE DEF b, x
<1>5. /\ new.unlocked = u.unlocked /\ new.locked = u.locked /\ new.uAuth = u.uAuth
      /\ new.lAuth = b /\ new.expires = x /\ new \in SignedRow
  BY <1>2, <1>3 DEF SignedRow
<1> HIDE DEF new
<1>6. Moved(new, row, S)
  BY <1>2, <1>5, Zenon DEF Moved
<1> QED
  BY <1>1, <1>4, <1>5, <1>6, Zenon DEF Relocked

\* The row of each place once the daemon has unlocked S.
UnlockedPlace(S, p) ==
    LET new == UnlockedAt(S, p)
        T == Part(S, p)
    IN  /\ Moved(new, Row(p), T) /\ new \in SignedRow
        /\ ~Authority(T) => new.lAuth = Row(p).lAuth
        /\ Authority(T) /\ p # None => new.lAuth = Authority(LockedAt(p) \ S)
        /\ Authority(T) /\ p = None => new.lAuth = \E a \in Addresses : UnlockedAt(S, a).lAuth
        /\ ByTime(T) = {} => new.expires = Row(p).expires
        /\ ByTime(T) # {} /\ p # None =>
               \A o \in LockedAt(p) \ S : Out[o].timelock # 0 => new.expires # None /\ new.expires <= Out[o].timelock
        /\ ByTime(T) # {} /\ p = None =>
               \A a \in Addresses : UnlockedAt(S, a).expires # None =>
                   new.expires # None /\ new.expires <= UnlockedAt(S, a).expires

LEMMA UnlockedPlaces ==
    ASSUME Types, NEW S \in SUBSET Outputs
    PROVE  \A p \in Places : UnlockedPlace(S, p)
<1>1. ASSUME NEW a \in Addresses
      PROVE  UnlockedPlace(S, a)
  <2> DEFINE left == LockedUnspent \ S
             times == {timelockOf(o) : o \in At(left, a)}
             T == Part(S, a)
             new == UnlockedAt(S, a)
             still == Authority(At(left, a))
             e == Earliest(times)
  <2>1. At(left, a) = LockedAt(a) \ S /\ At(left, a) \in SUBSET Outputs /\ At(S, a) = T /\ T \in SUBSET Outputs /\ a # None
        /\ Row(a) = addressBalance[a] /\ Row(a) \in SignedRow
    BY Placed, RowsOfPlaces, SignedRows DEF At, LockedAt, Part, Places, OutputsOf, LockedUnspent
  <2>2. new = Unlocked(Row(a), T, still, e)
    BY <2>1 DEF UnlockedAt, AddressesUnlocked
  <2>3. times \in SUBSET (Nat \cup {None})
    BY <2>1, TimelocksAreTimes
  <2>4. e \in Nat \cup {None} /\ \A t \in times \ {None} : e # None /\ e <= t
    <3> HIDE DEF times
    <3> QED
      BY <2>3, EarliestIs
  <2>5. ASSUME NEW o \in LockedAt(a) \ S, Out[o].timelock # 0
        PROVE  e # None /\ e <= Out[o].timelock
    <3>1. timelockOf(o) \in times /\ timelockOf(o) = Out[o].timelock /\ timelockOf(o) # None
      BY <2>1, <2>5, TimelocksAreTimes, RefreshAssumption
    <3> HIDE DEF times, e
    <3> QED
      BY <2>4, <3>1
  <2>6. still \in BOOLEAN /\ still = Authority(LockedAt(a) \ S)
    BY <2>1 DEF Authority
  <2> HIDE DEF still, e, T, new
  <2>7. /\ Moved(new, Row(a), T) /\ new \in SignedRow
        /\ new.lAuth = IF Authority(T) THEN still ELSE Row(a).lAuth
        /\ new.expires = IF ByTime(T) # {} THEN e ELSE Row(a).expires
    <3>1. Relocked(Unlocked(Row(a), T, still, e), Row(a), T, still, e)
      <4>1. Row(a) \in SignedRow /\ T \in SUBSET Outputs /\ still \in BOOLEAN /\ e \in Nat \cup {None}
        BY <2>1, <2>4, <2>6
      <4> QED
        BY <4>1, UnlockedRow
    <3> QED
      BY <2>2, <3>1, Zenon DEF Relocked
  <2>8. new = UnlockedAt(S, a) /\ T = Part(S, a)
    BY DEF new, T
  <2> QED
    BY <2>1, <2>5, <2>6, <2>7, <2>8, Zenon DEF UnlockedPlace
<1>2. UnlockedPlace(S, None)
  <2> DEFINE times == {UnlockedAt(S, a).expires : a \in Addresses}
             new == UnlockedAt(S, None)
             still == \E a \in Addresses : UnlockedAt(S, a).lAuth
             e == Earliest(times)
  <2>1. Part(S, None) = S /\ Row(None) = walletBalance /\ Row(None) \in SignedRow /\ \A a \in Addresses : a # None
    BY Placed, RowsOfPlaces, SignedRows DEF Places
  <2>2. \A a \in Addresses : UnlockedAt(S, a) = AddressesUnlocked(S)[a]
    BY <2>1 DEF UnlockedAt
  <2>3. new = Unlocked(walletBalance, S, \E a \in Addresses : AddressesUnlocked(S)[a].lAuth,
                       Earliest({AddressesUnlocked(S)[a].expires : a \in Addresses}))
    BY DEF UnlockedAt, WalletUnlocked
  <2>4. times = {AddressesUnlocked(S)[a].expires : a \in Addresses} /\ still = \E a \in Addresses : AddressesUnlocked(S)[a].lAuth
    BY <2>2
  <2>5. times \in SUBSET (Nat \cup {None})
    BY <1>1 DEF UnlockedPlace, SignedRow
  <2>6. e \in Nat \cup {None} /\ \A t \in times \ {None} : e # None /\ e <= t
    <3> HIDE DEF times
    <3> QED
      BY <2>5, EarliestIs
  <2>7. ASSUME NEW a \in Addresses, UnlockedAt(S, a).expires # None
        PROVE  e # None /\ e <= UnlockedAt(S, a).expires
    <3>1. UnlockedAt(S, a).expires \in times \ {None}
      BY <2>7
    <3> HIDE DEF times, e
    <3> QED
      BY <2>6, <3>1
  <2>8. still \in BOOLEAN
    OBVIOUS
  <2>9. new = Unlocked(Row(None), S, still, e)
    <3> HIDE DEF new
    <3> QED
      BY <2>1, <2>3, <2>4, Zenon
  <2> HIDE DEF new, e, still
  <2>10. /\ Moved(new, Row(None), S) /\ new \in SignedRow
         /\ new.lAuth = IF Authority(S) THEN still ELSE Row(None).lAuth
         /\ new.expires = IF ByTime(S) # {} THEN e ELSE Row(None).expires
    <3>1. Relocked(Unlocked(Row(None), S, still, e), Row(None), S, still, e)
      <4>1. Row(None) \in SignedRow /\ still \in BOOLEAN /\ e \in Nat \cup {None}
        BY <2>1, <2>6, <2>8
      <4> QED
        BY <4>1, UnlockedRow
    <3> QED
      BY <2>9, <3>1, Zenon DEF Relocked
  <2>11. new = UnlockedAt(S, None) /\ still = \E a \in Addresses : UnlockedAt(S, a).lAuth
    BY DEF new, still
  <2> QED
    BY <2>1, <2>7, <2>10, <2>11, Zenon DEF UnlockedPlace
<1> QED
  BY <1>1, <1>2 DEF Places

\* A row with an output more.
CreditedAs(new, row, o, isLocked) ==
    /\ new \in BalanceRow
    /\ isLocked => /\ new.unlocked = row.unlocked /\ new.locked = row.locked + Out[o].value
                   /\ new.uAuth = row.uAuth /\ new.lAuth = (row.lAuth \/ Out[o].authority)
                   /\ row.expires # None => new.expires # None /\ new.expires <= row.expires
                   /\ Out[o].timelock # 0 => new.expires # None /\ new.expires <= Out[o].timelock
    /\ ~isLocked => /\ new.unlocked = row.unlocked + Out[o].value /\ new.locked = row.locked
                    /\ new.uAuth = (row.uAuth \/ Out[o].authority) /\ new.lAuth = row.lAuth
                    /\ new.expires = row.expires

LEMMA CreditedRow ==
    ASSUME NEW row \in BalanceRow, NEW o \in Outputs, NEW isLocked \in BOOLEAN
    PROVE  CreditedAs(Credited(row, o, isLocked), row, o, isLocked)
<1> DEFINE value == Out[o].value
           auth == Out[o].authority
<1>0. value \in Nat /\ auth \in BOOLEAN
  BY RefreshAssumption
<1>1. CASE isLocked
  <2> DEFINE e == Earliest({row.expires, timelockOf(o)})
             k == row.locked + value
             b == row.lAuth \/ auth
             new == [row EXCEPT !.locked = k, !.lAuth = b, !.expires = e]
  <2>1. row.expires \in Nat \cup {None} /\ timelockOf(o) \in Nat \cup {None}
    BY TimelocksAreTimes DEF BalanceRow
  <2>2. e \in Nat \cup {None} /\ \A t \in {row.expires, timelockOf(o)} \ {None} : e # None /\ e <= t
    BY <2>1, EarliestIs
  <2>3. Credited(row, o, isLocked) = new
    BY <1>1, Zenon DEF Credited
  <2>4. k \in Nat /\ b \in BOOLEAN
    BY <1>0 DEF BalanceRow
  <2> HIDE DEF k, b, e
  <2>5. /\ new.unlocked = row.unlocked /\ new.locked = k /\ new.uAuth = row.uAuth /\ new.lAuth = b
        /\ new.expires = e /\ new \in BalanceRow
    BY <2>2, <2>4 DEF BalanceRow
  <2> HIDE DEF new
  <2>6. row.expires # None => e # None /\ e <= row.expires
    BY <2>2
  <2>7. Out[o].timelock # 0 => e # None /\ e <= Out[o].timelock
    BY <2>2, TimelocksAreTimes, RefreshAssumption
  <2>8. CreditedAs(new, row, o, isLocked)
    BY <1>1, <2>5, <2>6, <2>7, Zenon DEF CreditedAs, k, b, value, auth
  <2> QED
    BY <2>3, <2>8
<1>2. CASE ~isLocked
  <2> DEFINE u == row.unlocked + value
             b == row.uAuth \/ auth
             new == [row EXCEPT !.unlocked = u, !.uAuth = b]
  <2>1. Credited(row, o, isLocked) = new
    BY <1>2, Zenon DEF Credited
  <2>2. u \in Nat /\ b \in BOOLEAN
    BY <1>0 DEF BalanceRow
  <2> HIDE DEF u, b
  <2>3. /\ new.unlocked = u /\ new.locked = row.locked /\ new.uAuth = b /\ new.lAuth = row.lAuth
        /\ new.expires = row.expires /\ new \in BalanceRow
    BY <2>2 DEF BalanceRow
  <2> HIDE DEF new
  <2>4. CreditedAs(new, row, o, isLocked)
    BY <1>2, <2>3, Zenon DEF CreditedAs, u, b, value, auth
  <2> QED
    BY <2>1, <2>4
<1> QED
  BY <1>1, <1>2

\* A row with an output less.
DebitedAs(new, row, o, stillThere) ==
    /\ new \in SignedRow
    /\ new.unlocked = row.unlocked - Out[o].value /\ new.locked = row.locked
    /\ new.uAuth = IF Out[o].authority THEN stillThere ELSE row.uAuth
    /\ new.lAuth = row.lAuth /\ new.expires = row.expires

LEMMA DebitedRow ==
    ASSUME NEW row \in SignedRow, NEW o \in Outputs, NEW stillThere \in BOOLEAN
    PROVE  DebitedAs(Debited(row, o, stillThere), row, o, stillThere)
<1> DEFINE u == row.unlocked - Out[o].value
           b == IF Out[o].authority THEN stillThere ELSE row.uAuth
           new == [row EXCEPT !.unlocked = u, !.uAuth = b]
<1>1. Debited(row, o, stillThere) = new
  BY Zenon DEF Debited
<1>2. u \in Int /\ b \in BOOLEAN
  BY RefreshAssumption DEF SignedRow
<1>3. /\ new.unlocked = u /\ new.locked = row.locked /\ new.uAuth = b /\ new.lAuth = row.lAuth
      /\ new.expires = row.expires /\ new \in SignedRow
  <2> HIDE DEF u, b
  <2> QED
    BY <1>2 DEF SignedRow
<1> HIDE DEF new
<1>4. DebitedAs(new, row, o, stillThere)
  BY <1>3, Zenon DEF DebitedAs
<1> QED
  BY <1>1, <1>4

\* The outputs of a place besides o that are unspent and not locked.
StillUnlocked(p, o) == {x \in OutputsOf(p) \ {o} : state[x] = "unspent" /\ ~locked[x]}

\* An output that arrives is credited at its address and to the wallet.
LEMMA AcceptedPlaces ==
    ASSUME Types, NEW o \in Outputs, Accepts(o), NEW p \in Places
    PROVE  IF o \in OutputsOf(p) THEN CreditedAs(Row(p)', Row(p), o, markLockedOutputs(o, daemon.now))
           ELSE Row(p)' = Row(p)
<1> DEFINE isLocked == markLockedOutputs(o, daemon.now)
           a == Out[o].address
<1>1. isLocked \in BOOLEAN /\ a \in Addresses
  BY RefreshAssumption DEF markLockedOutputs
<1>2. /\ addressBalance' = [addressBalance EXCEPT ![a] = Credited(addressBalance[a], o, isLocked)]
      /\ walletBalance' = Credited(walletBalance, o, isLocked)
  BY DEF Accepts
<1> HIDE DEF isLocked
<1>3. Row(p) \in BalanceRow
  BY RowsOfPlaces
<1>4. o \in OutputsOf(p) <=> p = None \/ p = a
  BY RefreshAssumption DEF OutputsOf, At, Places
<1>5. o \in OutputsOf(p) => Row(p)' = Credited(Row(p), o, isLocked)
  BY <1>1, <1>2, <1>4, RefreshAssumption DEF Row, Types, RowsTyped
<1>6. o \notin OutputsOf(p) => Row(p)' = Row(p)
  BY <1>1, <1>2, <1>4, RefreshAssumption DEF Row, Types, RowsTyped, Places
<1>7. CreditedAs(Credited(Row(p), o, isLocked), Row(p), o, isLocked)
  BY <1>1, <1>3, CreditedRow
<1> QED
  BY <1>5, <1>6, <1>7, Zenon DEF isLocked

\* An output that is spent is unlocked, then debited, at its address and in the wallet.
LEMMA SpentPlaces ==
    ASSUME Types, NEW o \in Outputs, Spends(o), NEW p \in Places
    PROVE  IF o \in OutputsOf(p)
           THEN \E b \in BOOLEAN :
                    /\ DebitedAs(Row(p)', UnlockedAt(daemon.picked, p), o, b)
                    /\ p # None => (b <=> Authority(StillUnlocked(p, o)))
                    /\ p = None => (b <=> \E a \in Addresses : Row(a)'.uAuth)
           ELSE Row(p)' = Row(p)
<1> DEFINE S == daemon.picked
           c == Out[o].address
           b == Authority({x \in At(Outputs, c) \ {o} : state[x] = "unspent" /\ ~locked[x]})
           d == SpentAt(o).uAuth \/ \E a \in Addresses \ {c} : addressBalance[a].uAuth
<1>1. c \in Addresses /\ c # None /\ S \in SUBSET Outputs /\ addressBalance \in [Addresses -> BalanceRow]
  BY RefreshAssumption DEF Types, DaemonRow, RowsTyped
<1>2. o \in OutputsOf(p) <=> p = None \/ p = c
  BY RefreshAssumption DEF OutputsOf, At, Places
<1>3. addressBalance' = [addressBalance EXCEPT ![c] = SpentAt(o)] /\ walletBalance' = SpentInWallet(o)
  BY DEF Spends
<1>4. SpentAt(o) = Debited(UnlockedAt(S, c), o, b)
  BY <1>1, Zenon DEF SpentAt, UnlockedAt
<1>5. SpentInWallet(o) = Debited(UnlockedAt(S, None), o, d)
  BY Zenon DEF SpentInWallet, UnlockedAt
<1>6. UnlockedAt(S, c) \in SignedRow /\ UnlockedAt(S, None) \in SignedRow
  BY <1>1, UnlockedPlaces DEF UnlockedPlace, Places
<1>7. b \in BOOLEAN /\ d \in BOOLEAN /\ (b <=> Authority(StillUnlocked(c, o)))
  <2>1. b \in BOOLEAN
    BY DEF Authority
  <2>2. SpentAt(o).uAuth \in BOOLEAN
    <3> HIDE DEF b
    <3> QED
      BY <1>4, <1>6, <2>1, DebitedRow DEF DebitedAs, SignedRow
  <2>3. StillUnlocked(c, o) = {x \in At(Outputs, c) \ {o} : state[x] = "unspent" /\ ~locked[x]}
    BY <1>1 DEF StillUnlocked, OutputsOf
  <2> QED
    BY <2>1, <2>2, <2>3
<1>8. d <=> \E a \in Addresses : Row(a)'.uAuth
  BY <1>1, <1>3, Placed DEF Row
<1> HIDE DEF b, d, S, c
<1>9. DebitedAs(SpentAt(o), UnlockedAt(S, c), o, b) /\ DebitedAs(SpentInWallet(o), UnlockedAt(S, None), o, d)
  BY <1>4, <1>5, <1>6, <1>7, DebitedRow
<1>10. Row(c)' = SpentAt(o) /\ Row(None)' = SpentInWallet(o)
  BY <1>1, <1>3 DEF Row
<1>11. p # None /\ p # c => Row(p)' = Row(p)
  BY <1>1, <1>3 DEF Row, Places
<1>12. CASE p = None
  BY <1>2, <1>7, <1>8, <1>9, <1>10, <1>12, Zenon DEF S
<1>13. CASE p = c
  BY <1>1, <1>2, <1>7, <1>9, <1>10, <1>13, Zenon DEF S
<1>14. CASE p # None /\ p # c
  BY <1>2, <1>11, <1>14
<1> QED
  BY <1>12, <1>13, <1>14

\* A block unlocks what it picked, at every place.
LEMMA BlockPlaces ==
    ASSUME Types, NEW S, NewBlock(S), NEW p \in Places
    PROVE  Row(p)' = UnlockedAt(S, p)
  BY RefreshAssumption DEF NewBlock, Row, UnlockedAt, AddressesUnlocked, Places

---------------------------------------------------------------------------
(* Type correctness. *)

\* NoRequest is a request that is idle.
LEMMA NothingAsked == NoRequest \in RequestRow /\ RequestShape(NoRequest) /\ NoRequest.at = "idle" /\ NoRequest.picked = {}
  BY DEF NoRequest, RequestRow, RequestShape, Places

\* The request at the row of an address.
LEMMA BeginsTyped ==
    ASSUME NEW q \in RequestRow, q.picked # {}, NEW rest \in SUBSET Addresses, NEW p \in Begins(q, rest)
    PROVE  /\ p \in RequestRow /\ RequestShape(p)
           /\ p.at = "update" /\ p.picked = q.picked /\ p.next = "unlock"
           /\ p.row \in rest /\ p.left = rest \ {p.row}
<1>1. PICK a \in rest : p = [q EXCEPT !.at = "update", !.row = a, !.left = rest \ {a}, !.next = "unlock"]
  BY DEF Begins
<1>2. a \in Addresses /\ a # None /\ rest \ {a} \in SUBSET Addresses
  BY RefreshAssumption
<1>3. p.at = "update" /\ p.picked = q.picked /\ p.next = "unlock" /\ p.row = a /\ p.left = rest \ {a} /\ p \in RequestRow
  BY <1>1, <1>2 DEF RequestRow, Places
<1>4. RequestShape(p)
  BY <1>2, <1>3 DEF RequestShape
<1> QED
  BY <1>3, <1>4

\* The request after a statement: at the same row, at that of another address, at the
\* wallet's, or answered.
LEMMA FollowsTyped ==
    ASSUME NEW q \in RequestRow, RequestShape(q), q.at = "update", NEW p \in Follows(q)
    PROVE  /\ p \in RequestRow /\ RequestShape(p)
           /\ \/ /\ p.at = "update" /\ p.picked = q.picked /\ p.row = q.row /\ p.left = q.left
                 /\ \/ /\ q.next = "unlock"
                       /\ IF Authority(Part(q.picked, q.row)) THEN p.next = "authorities" ELSE p.next = "expires"
                    \/ q.next = "authorities" /\ p.next = "expires"
              \/ /\ p.at = "update" /\ p.picked = q.picked /\ p.next = "unlock" /\ q.next = "expires" /\ q.row # None
                 /\ p.row \in q.left /\ p.left = q.left \ {p.row}
              \/ /\ p.at = "update" /\ p.picked = q.picked /\ p.next = "unlock" /\ q.next = "expires" /\ q.row # None
                 /\ p.row = None /\ q.left = {} /\ p.left = {}
              \/ p = NoRequest /\ q.next = "expires" /\ q.row = None
<1>1. q.picked # {} /\ q.picked \in SUBSET Outputs /\ q.left \in SUBSET Addresses /\ q.row \in Places
      /\ q.next \in {"unlock", "authorities", "expires"}
  BY DEF RequestRow, RequestShape
<1>2. CASE q.next = "unlock"
  <2> DEFINE n == IF Authority(OfRow(q)) THEN "authorities" ELSE "expires"
  <2>1. p = [q EXCEPT !.next = n]
    BY <1>2 DEF Follows
  <2>2. n \in {"authorities", "expires"} /\ OfRow(q) = Part(q.picked, q.row)
    BY <1>1, Placed DEF OfRow, Places
  <2>3. p.at = q.at /\ p.picked = q.picked /\ p.row = q.row /\ p.left = q.left /\ p.next = n /\ p \in RequestRow
    <3> HIDE DEF n
    <3> QED
      BY <2>1, <2>2 DEF RequestRow
  <2>4. RequestShape(p)
    BY <2>3 DEF RequestShape
  <2> QED
    BY <1>2, <2>2, <2>3, <2>4
<1>3. CASE q.next = "authorities"
  <2>1. p = [q EXCEPT !.next = "expires"]
    BY <1>3 DEF Follows
  <2>2. p.at = q.at /\ p.picked = q.picked /\ p.row = q.row /\ p.left = q.left /\ p.next = "expires" /\ p \in RequestRow
    BY <2>1 DEF RequestRow
  <2>3. RequestShape(p)
    BY <2>2 DEF RequestShape
  <2> QED
    BY <1>3, <2>2, <2>3
<1>4. CASE q.next = "expires" /\ q.row = None
  <2>1. p = NoRequest
    BY <1>4 DEF Follows
  <2> QED
    BY <1>4, <2>1, NothingAsked
<1>5. CASE q.next = "expires" /\ q.row # None /\ q.left = {}
  <2>1. p = [q EXCEPT !.row = None, !.next = "unlock"]
    BY <1>5 DEF Follows
  <2>2. p.at = q.at /\ p.picked = q.picked /\ p.row = None /\ p.left = {} /\ p.next = "unlock" /\ p \in RequestRow
    BY <1>5, <2>1 DEF RequestRow, Places
  <2>3. RequestShape(p)
    BY <2>2 DEF RequestShape
  <2> QED
    BY <1>5, <2>2, <2>3
<1>6. CASE q.next = "expires" /\ q.row # None /\ q.left # {}
  <2>1. p \in Begins(q, q.left)
    BY <1>6 DEF Follows
  <2> QED
    BY <1>1, <1>6, <2>1, BeginsTyped
<1> QED
  BY <1>1, <1>2, <1>3, <1>4, <1>5, <1>6

\* The rows as a statement leaves them, or as they were when it is out of range.
Wrote(r) ==
    LET q == request[r]
    IN  \/ /\ InRange(Statement(q)) /\ Statement(q) \in BalanceRow
           /\ \A p \in Places : Row(p)' = IF p = q.row THEN Statement(q) ELSE Row(p)
           /\ \E p \in Follows(q) : request' = [request EXCEPT ![r] = p]
        \/ /\ ~InRange(Statement(q)) /\ \A p \in Places : Row(p)' = Row(p)
           /\ request' = [request EXCEPT ![r] = NoRequest]

LEMMA RequestWrites ==
    ASSUME Types, NEW r \in Requests, RequestUpdates(r)
    PROVE  /\ Wrote(r)
           /\ addressBalance' \in [Addresses -> BalanceRow] /\ walletBalance' \in BalanceRow
<1> DEFINE q == request[r]
<1>1. q \in RequestRow /\ q.row \in Places
  BY DEF Types, RequestRow
<1>2. IF InRange(Statement(q))
      THEN /\ IF q.row = None THEN walletBalance' = Statement(q) /\ UNCHANGED addressBalance
              ELSE addressBalance' = [addressBalance EXCEPT ![q.row] = Statement(q)] /\ UNCHANGED walletBalance
           /\ \E p \in Follows(q) : request' = [request EXCEPT ![r] = p]
      ELSE request' = [request EXCEPT ![r] = NoRequest] /\ UNCHANGED <<addressBalance, walletBalance>>
  BY Zenon DEF RequestUpdates, Statement
<1>3. addressBalance \in [Addresses -> BalanceRow] /\ walletBalance \in BalanceRow
  BY DEF Types, RowsTyped
<1> HIDE DEF q
<1>4. CASE InRange(Statement(q))
  <2>1. Statement(q) \in BalanceRow
    BY <1>1, <1>4, StatementTyped
  <2> DEFINE row == Statement(q)
  <2> HIDE DEF row
  <2>2. CASE q.row = None
    <3>1. walletBalance' = row /\ addressBalance' = addressBalance
      BY <1>2, <1>4, <2>2 DEF row
    <3>2. \A p \in Places : Row(p)' = IF p = q.row THEN row ELSE Row(p)
      BY <2>2, <3>1 DEF Row
    <3> QED
      BY <1>2, <1>3, <1>4, <2>1, <3>1, <3>2 DEF Wrote, q, row
  <2>3. CASE q.row # None
    <3>1. addressBalance' = [addressBalance EXCEPT ![q.row] = row] /\ walletBalance' = walletBalance /\ q.row \in Addresses
      BY <1>1, <1>2, <1>4, <2>3 DEF row, Places
    <3>2. \A p \in Places : Row(p)' = IF p = q.row THEN row ELSE Row(p)
      BY <1>3, <2>3, <3>1 DEF Row, Places
    <3>3. addressBalance' \in [Addresses -> BalanceRow]
      BY <1>3, <2>1, <3>1 DEF row
    <3> QED
      BY <1>2, <1>3, <1>4, <2>1, <3>1, <3>2, <3>3 DEF Wrote, q, row
  <2> QED
    BY <2>2, <2>3
<1>5. CASE ~InRange(Statement(q))
  <2>1. /\ request' = [request EXCEPT ![r] = NoRequest]
        /\ addressBalance' = addressBalance /\ walletBalance' = walletBalance
    BY <1>2, <1>5
  <2>2. \A p : Row(p)' = Row(p)
    BY <2>1 DEF Row
  <2> QED
    BY <1>3, <1>5, <2>1, <2>2 DEF Wrote, q
<1> QED
  BY <1>4, <1>5

\* The first row of a table has nothing.
LEMMA TypesInit ==
    ASSUME Init
    PROVE  Types
<1>1. NoBalance \in BalanceRow
  BY DEF NoBalance, BalanceRow
<1>2. NoEvent \in DaemonRow /\ NoEvent.open = FALSE /\ NoEvent.kind = "none"
  BY DEF NoEvent, DaemonRow
<1>3. RowsTyped
  BY <1>1, RefreshAssumption DEF Init, RowsTyped
<1>4. request \in [Requests -> RequestRow] /\ \A r \in Requests : RequestShape(request[r])
  BY NothingAsked DEF Init
<1>5. daemon \in DaemonRow /\ DaemonShape
  BY <1>2 DEF Init, DaemonShape
<1> QED
  BY <1>3, <1>4, <1>5 DEF Init, Types

\* Only one request changes at a time.
LEMMA OneRequest ==
    ASSUME Types, NEW r \in Requests, NEW q \in RequestRow, RequestShape(q),
           request' = [request EXCEPT ![r] = q]
    PROVE  /\ request' \in [Requests -> RequestRow] /\ \A s \in Requests : RequestShape(request'[s])
           /\ request'[r] = q /\ \A s \in Requests \ {r} : request'[s] = request[s]
<1>1. request \in [Requests -> RequestRow] /\ \A s \in Requests : RequestShape(request[s])
  BY DEF Types
<1>2. request'[r] = q /\ \A s \in Requests \ {r} : request'[s] = request[s]
  BY <1>1
<1> QED
  BY <1>1, <1>2

\* What the daemon picks and touches are outputs.
LEMMA PickedAreOutputs ==
    ASSUME Types, NEW kind \in {"accept", "spend", "block"}, NEW o \in Outputs \cup {None}, Arrives(kind, o)
    PROVE  /\ Unlocks(kind, o) \in SUBSET Outputs /\ Touches(kind, o) \in SUBSET Outputs
           /\ kind \in {"accept", "spend"} => o \in Outputs
           /\ kind = "accept" => state[o] = "absent" /\ Unlocks(kind, o) = {} /\ Touches(kind, o) = {}
           /\ kind = "spend" => /\ state[o] = "unspent" /\ Touches(kind, o) = {o}
                                /\ Unlocks(kind, o) = {o} \cap LockedUnspent
           /\ kind = "block" => height < MaxHeight /\ Touches(kind, o) = Unlocks(kind, o)
                                /\ Unlocks(kind, o) \subseteq LockedUnspent
<1>1. CASE kind = "accept"
  BY <1>1 DEF Arrives, Unlocks, Touches
<1>2. CASE kind = "spend"
  BY <1>2 DEF Arrives, Unlocks, Touches, Spendable
<1>3. CASE kind = "block"
  <2>1. getExpiredTimelocksUtxos \subseteq LockedUnspent
    BY DEF getExpiredTimelocksUtxos, LockedUnspent, Types, RowsTyped
  <2> QED
    BY <1>3, <2>1 DEF Arrives, Unlocks, Touches, getUtxosLockedAtHeight, LockedUnspent
<1> QED
  BY <1>1, <1>2, <1>3

\* Only one of the three is committed, and what it writes is in range.
LEMMA CommitCases ==
    ASSUME Types, DaemonCommits
    PROVE  \/ daemon.kind = "accept" /\ daemon.output \in Outputs /\ state[daemon.output] = "absent" /\ Accepts(daemon.output)
           \/ /\ daemon.kind = "spend" /\ daemon.output \in Outputs /\ state[daemon.output] = "unspent" /\ Spends(daemon.output)
              /\ daemon.picked \subseteq {daemon.output}
              /\ InRange(SpentAt(daemon.output)) /\ InRange(SpentInWallet(daemon.output))
           \/ /\ daemon.kind = "block" /\ height < MaxHeight /\ NewBlock(daemon.picked)
              /\ \A a \in Addresses : InRange(AddressesUnlocked(daemon.picked)[a])
              /\ InRange(WalletUnlocked(daemon.picked))
<1>1. daemon.open /\ Fits /\ DaemonShape
  BY DEF DaemonCommits, Types
<1>2. CASE daemon.kind = "accept"
  BY <1>1, <1>2 DEF DaemonCommits, DaemonShape
<1>3. CASE daemon.kind = "spend"
  <2>1. InRange(SpentAt(daemon.output)) /\ InRange(SpentInWallet(daemon.output))
    BY <1>1, <1>3 DEF Fits
  <2> QED
    BY <1>1, <1>3, <2>1 DEF DaemonCommits, DaemonShape
<1>4. CASE daemon.kind = "block"
  <2>1. /\ \A a \in Addresses : InRange(AddressesUnlocked(daemon.picked)[a])
        /\ InRange(WalletUnlocked(daemon.picked))
    BY <1>1, <1>4 DEF Fits
  <2> QED
    BY <1>1, <1>4, <2>1 DEF DaemonCommits, DaemonShape
<1> QED
  BY <1>2, <1>3, <1>4 DEF DaemonCommits

\* The rows are those of the places.
LEMMA PlacesAreRows ==
    ASSUME \A p \in Places : Row(p)' \in BalanceRow
    PROVE  (\A a \in Addresses : addressBalance'[a] \in BalanceRow) /\ walletBalance' \in BalanceRow
  BY RefreshAssumption DEF Row, Places

\* A committed event leaves the tables typed.
LEMMA CommitTyped ==
    ASSUME Types, DaemonCommits
    PROVE  RowsTyped'
<1> DEFINE o == daemon.output
           S == daemon.picked
<1>1. now' = now /\ now \in 0 .. MaxTime /\ height \in 0 .. MaxHeight
      /\ state \in [Outputs -> {"absent", "unspent", "spent"}] /\ locked \in [Outputs -> BOOLEAN]
      /\ (\A x \in Outputs : locked[x] => state[x] = "unspent")
      /\ addressBalance \in [Addresses -> BalanceRow] /\ MaxHeight \in Nat /\ S \in SUBSET Outputs
  BY RefreshAssumption DEF Types, RowsTyped, DaemonCommits, DaemonRow
<1>2. CASE o \in Outputs /\ Accepts(o)
  <2>1. \A p \in Places : Row(p)' \in BalanceRow
    <3> SUFFICES ASSUME NEW p \in Places PROVE Row(p)' \in BalanceRow
      OBVIOUS
    <3> QED
      BY <1>2, AcceptedPlaces, RowsOfPlaces DEF CreditedAs
  <2>2. markLockedOutputs(o, daemon.now) \in BOOLEAN
    BY DEF markLockedOutputs
  <2>3. addressBalance' = [addressBalance EXCEPT ![Out[o].address] = Credited(@, o, markLockedOutputs(o, daemon.now))]
        /\ state' = [state EXCEPT ![o] = "unspent"] /\ locked' = [locked EXCEPT ![o] = markLockedOutputs(o, daemon.now)]
        /\ height' = height
    BY <1>2 DEF Accepts
  <2> HIDE DEF o
  <2>4. addressBalance' \in [Addresses -> BalanceRow] /\ walletBalance' \in BalanceRow
    BY <1>1, <2>1, <2>3, PlacesAreRows
  <2> QED
    BY <1>1, <1>2, <2>2, <2>3, <2>4 DEF RowsTyped
<1>3. CASE o \in Outputs /\ Spends(o) /\ InRange(SpentAt(o)) /\ InRange(SpentInWallet(o))
  <2>1. addressBalance' = [addressBalance EXCEPT ![Out[o].address] = SpentAt(o)] /\ walletBalance' = SpentInWallet(o)
        /\ state' = [state EXCEPT ![o] = "spent"] /\ locked' = [locked EXCEPT ![o] = FALSE] /\ height' = height
    BY <1>3 DEF Spends
  <2>2. PICK c \in Addresses : c = Out[o].address
    BY <1>3, RefreshAssumption
  <2>3. c \in Places /\ o \in OutputsOf(c) /\ Row(c)' = SpentAt(o)
        /\ None \in Places /\ o \in OutputsOf(None) /\ Row(None)' = SpentInWallet(o)
    BY <1>1, <1>3, <2>1, <2>2, RefreshAssumption DEF Places, OutputsOf, At, Row
  <2>4. Row(c)' \in SignedRow /\ Row(None)' \in SignedRow
    BY <1>3, <2>3, SpentPlaces DEF DebitedAs
  <2>5. SpentAt(o) \in BalanceRow /\ SpentInWallet(o) \in BalanceRow
    BY <1>3, <2>3, <2>4, SignedRows
  <2> HIDE DEF o
  <2> QED
    BY <1>1, <1>3, <2>1, <2>2, <2>5 DEF RowsTyped
<1>4. CASE /\ height < MaxHeight /\ NewBlock(S)
           /\ \A a \in Addresses : InRange(AddressesUnlocked(S)[a])
           /\ InRange(WalletUnlocked(S))
  <2>1. \A p \in Places : UnlockedAt(S, p) \in SignedRow
    BY <1>1, UnlockedPlaces DEF UnlockedPlace
  <2>2. \A p \in Places : InRange(UnlockedAt(S, p))
    BY <1>4 DEF UnlockedAt, Places
  <2>3. \A p \in Places : Row(p)' = UnlockedAt(S, p)
    BY <1>4, BlockPlaces
  <2>4. (\A a \in Addresses : addressBalance'[a] \in BalanceRow) /\ walletBalance' \in BalanceRow
    BY <2>1, <2>2, <2>3, SignedRows, PlacesAreRows
  <2>5. addressBalance' = AddressesUnlocked(S) /\ height' = height + 1 /\ state' = state
        /\ locked' = [x \in Outputs |-> locked[x] /\ x \notin S]
    BY <1>4 DEF NewBlock
  <2>6. addressBalance' = [a \in Addresses |-> addressBalance'[a]]
    BY <2>5 DEF AddressesUnlocked
  <2>7. addressBalance' \in [Addresses -> BalanceRow]
    BY <2>4, <2>6
  <2>8. height' \in 0 .. MaxHeight
    BY <1>1, <1>4, <2>5
  <2>9. locked' \in [Outputs -> BOOLEAN] /\ \A x \in Outputs : locked'[x] => state'[x] = "unspent"
    BY <1>1, <2>5
  <2> QED
    BY <1>1, <2>4, <2>5, <2>7, <2>8, <2>9 DEF RowsTyped
<1> QED
  BY <1>2, <1>3, <1>4, CommitCases

\* The types are inductive.
LEMMA TypesNext ==
    ASSUME Types, [Next]_vars
    PROVE  Types'
<1>1. /\ RowsTyped /\ request \in [Requests -> RequestRow] /\ \A r \in Requests : RequestShape(request[r])
      /\ daemon \in DaemonRow /\ DaemonShape /\ failures \in Nat /\ crossed \in BOOLEAN
  BY DEF Types
<1>2. CASE UNCHANGED vars
  BY <1>1, <1>2 DEF Types, RowsTyped, DaemonShape, vars, rows
<1>3. CASE Tick
  BY <1>1, <1>3, RefreshAssumption DEF Types, RowsTyped, DaemonShape, Tick, rows
<1>4. ASSUME NEW r \in Requests, RequestReads(r)
      PROVE  Types'
  <2> DEFINE q == [NoRequest EXCEPT !.at = "select", !.height = height]
  <2>1. height \in Nat
    BY <1>1, RefreshAssumption DEF RowsTyped
  <2>2. q \in RequestRow /\ RequestShape(q)
    BY <2>1 DEF NoRequest, RequestRow, RequestShape, Places
  <2>3. request' = [request EXCEPT ![r] = q] /\ UNCHANGED <<now, height, rows, daemon, failures, crossed>>
    BY <1>4 DEF RequestReads
  <2> HIDE DEF q
  <2>4. request' \in [Requests -> RequestRow] /\ \A s \in Requests : RequestShape(request'[s])
    BY <2>2, <2>3, OneRequest
  <2> QED
    BY <1>1, <2>3, <2>4 DEF Types, RowsTyped, DaemonShape, rows
<1>5. ASSUME NEW r \in Requests, RequestSelects(r)
      PROVE  Types'
  <2> DEFINE due == getWalletUnlockedUtxos(request[r].height)
             q == IF due = {} THEN NoRequest ELSE [request[r] EXCEPT !.at = "mark", !.picked = due]
  <2>1. request' = [request EXCEPT ![r] = q] /\ UNCHANGED <<now, height, rows, daemon, failures>> /\ crossed' \in BOOLEAN
    BY <1>5 DEF RequestSelects
  <2>2. due \in SUBSET Outputs
    BY DEF getWalletUnlockedUtxos, LockedUnspent
  <2>3. q \in RequestRow /\ RequestShape(q)
    <3> HIDE DEF due
    <3>1. CASE due = {}
      BY <3>1, NothingAsked
    <3>2. CASE due # {}
      BY <1>1, <1>5, <2>2, <3>2 DEF RequestSelects, RequestRow, RequestShape
    <3> QED
      BY <3>1, <3>2
  <2> HIDE DEF q
  <2>4. request' \in [Requests -> RequestRow] /\ \A s \in Requests : RequestShape(request'[s])
    BY <2>1, <2>3, OneRequest
  <2> QED
    BY <1>1, <2>1, <2>4 DEF Types, RowsTyped, DaemonShape, rows
<1>6. ASSUME NEW r \in Requests, RequestMarks(r)
      PROVE  Types'
  <2>1. request[r] \in RequestRow /\ request[r].picked # {} /\ {Out[o].address : o \in request[r].picked} \in SUBSET Addresses
    BY <1>1, <1>6, RefreshAssumption DEF RequestMarks, RequestShape, RequestRow
  <2>2. PICK q \in Begins(request[r], {Out[o].address : o \in request[r].picked}) : request' = [request EXCEPT ![r] = q]
    BY <1>6 DEF RequestMarks
  <2>3. q \in RequestRow /\ RequestShape(q)
    BY <2>1, BeginsTyped
  <2>4. request' \in [Requests -> RequestRow] /\ \A s \in Requests : RequestShape(request'[s])
    BY <2>2, <2>3, OneRequest
  <2>5. /\ locked' = [o \in Outputs |-> locked[o] /\ o \notin request[r].picked]
        /\ UNCHANGED <<now, height, state, addressBalance, walletBalance, daemon, failures, crossed>>
    BY <1>6 DEF RequestMarks
  <2> QED
    BY <1>1, <2>4, <2>5 DEF Types, RowsTyped, DaemonShape
<1>7. ASSUME NEW r \in Requests, RequestUpdates(r)
      PROVE  Types'
  <2>1. /\ Wrote(r) /\ addressBalance' \in [Addresses -> BalanceRow] /\ walletBalance' \in BalanceRow
    BY <1>7, RequestWrites
  <2>2. PICK q \in Follows(request[r]) \cup {NoRequest} : request' = [request EXCEPT ![r] = q]
    BY <2>1 DEF Wrote
  <2>3. q \in RequestRow /\ RequestShape(q)
    <3>1. request[r] \in RequestRow /\ RequestShape(request[r]) /\ request[r].at = "update"
      BY <1>1, <1>7 DEF RequestUpdates
    <3> QED
      BY <2>2, <3>1, FollowsTyped, NothingAsked
  <2>4. request' \in [Requests -> RequestRow] /\ \A s \in Requests : RequestShape(request'[s])
    BY <2>2, <2>3, OneRequest
  <2>5. UNCHANGED <<now, height, state, locked, daemon, failures, crossed>>
    BY <1>7 DEF RequestUpdates
  <2> QED
    BY <1>1, <2>1, <2>4, <2>5 DEF Types, RowsTyped, DaemonShape
<1>8. ASSUME NEW r \in Requests, RequestDies(r)
      PROVE  Types'
  <2>1. /\ request' = [request EXCEPT ![r] = NoRequest] /\ failures' = failures + 1
        /\ UNCHANGED <<now, height, rows, daemon, crossed>>
    BY <1>8 DEF RequestDies
  <2>2. request' \in [Requests -> RequestRow] /\ \A s \in Requests : RequestShape(request'[s])
    BY <2>1, NothingAsked, OneRequest
  <2> QED
    BY <1>1, <2>1, <2>2 DEF Types, RowsTyped, DaemonShape, rows
<1>9. ASSUME NEW kind \in {"accept", "spend", "block"}, NEW o \in Outputs \cup {None}, DaemonReads(kind, o)
      PROVE  Types'
  <2> DEFINE d == [kind |-> kind, output |-> o, open |-> TRUE, now |-> now,
                   picked |-> Unlocks(kind, o), touched |-> Touches(kind, o)]
  <2>1. daemon' = d /\ UNCHANGED <<now, height, rows, request, failures>> /\ crossed' \in BOOLEAN /\ Arrives(kind, o)
    BY <1>9 DEF DaemonReads
  <2>2. /\ d.kind = kind /\ d.output = o /\ d.open /\ d.picked = Unlocks(kind, o)
    OBVIOUS
  <2>3. now \in Nat
    BY <1>1, RefreshAssumption DEF RowsTyped
  <2>4. d \in DaemonRow
    BY <2>1, <2>3, PickedAreOutputs DEF DaemonRow
  <2> HIDE DEF d
  <2>5. DaemonShape'
    BY <2>1, <2>2, PickedAreOutputs DEF DaemonShape, rows
  <2> QED
    BY <1>1, <2>1, <2>4, <2>5 DEF Types, RowsTyped, rows
<1>10. CASE DaemonCommits
  <2>1. RowsTyped'
    BY <1>10, CommitTyped
  <2>2. daemon' = NoEvent /\ UNCHANGED <<now, request, failures, crossed>>
    BY <1>10 DEF DaemonCommits
  <2>3. NoEvent \in DaemonRow /\ NoEvent.open = FALSE /\ NoEvent.kind = "none"
    BY DEF NoEvent, DaemonRow
  <2> QED
    BY <1>1, <2>1, <2>2, <2>3 DEF Types, DaemonShape
<1>11. CASE DaemonRefused
  <2> DEFINE d == [NoEvent EXCEPT !.kind = daemon.kind, !.output = daemon.output]
  <2>1. daemon' = d /\ UNCHANGED <<now, height, rows, request, failures, crossed>>
    BY <1>11 DEF DaemonRefused
  <2>2. d \in DaemonRow /\ d.open = FALSE /\ d.kind = daemon.kind /\ d.output = daemon.output
    BY <1>1 DEF NoEvent, DaemonRow
  <2> HIDE DEF d
  <2>3. DaemonShape'
    BY <1>1, <2>1, <2>2 DEF DaemonShape
  <2> QED
    BY <1>1, <2>1, <2>2, <2>3 DEF Types, RowsTyped, rows
<1> QED
  BY <1>2, <1>3, <1>4, <1>5, <1>6, <1>7, <1>8, <1>9, <1>10, <1>11 DEF Next

LEMMA TypesInvariant == Spec => []Types
<1>1. Init => Types
  BY TypesInit
<1>2. Types /\ [Next]_vars => Types'
  BY TypesNext
<1> QED
  BY <1>1, <1>2, PTL DEF Spec

\* The rows of both tables stay in their UNSIGNED range, only an output that is
\* unspent is locked, and an answered request has nothing left to do.
THEOREM RefreshTypes == Spec => []TypeOK
<1>1. Types => TypeOK
  <2> SUFFICES ASSUME Types PROVE TypeOK
    OBVIOUS
  <2>1. \A row \in {addressBalance[a] : a \in Addresses} \cup {walletBalance} : row \in BalanceRow
    BY DEF Types, RowsTyped
  <2>2. \A row \in {addressBalance[a] : a \in Addresses} \cup {walletBalance} :
            row.unlocked \in Nat /\ row.locked \in Nat /\ row.expires \in Nat \cup {None}
    BY <2>1 DEF BalanceRow
  <2>3. \A r \in Requests : request[r].at \in {"idle", "select", "mark", "update"} /\ RequestShape(request[r])
    BY DEF Types, RequestRow
  <2> QED
    BY <2>2, <2>3 DEF Types, RowsTyped, RequestShape, DaemonShape, TypeOK
<1> QED
  BY <1>1, TypesInvariant, PTL

---------------------------------------------------------------------------
(* Conservation. *)

\* An amount with an output more.
LEMMA AmountAdd ==
    ASSUME NEW S \in SUBSET Outputs, NEW o \in Outputs, o \notin S
    PROVE  Amount(S \cup {o}) = Amount(S) + Out[o].value
<1> DEFINE v == [x \in Outputs |-> Out[x].value]
           T == S \cup {o}
<1>1. IsFiniteSet(T) /\ (\A x \in T : v[x] \in Int) /\ o \in T /\ T \ {o} = S /\ v[o] = Out[o].value
      /\ Amount(S) \in Nat /\ Out[o].value \in Nat
  BY RefreshAssumption, FS_Subset, AmountNat
<1>2. Amount(T) = SumFunctionOnSet(v, T) /\ Amount(S) = SumFunctionOnSet(v, S)
  BY DEF Amount
<1> HIDE DEF v, T
<1>3. SumFunctionOnSet(v, T) = v[o] + SumFunctionOnSet(v, T \ {o})
  BY <1>1, SumRemove
<1>4. Amount(T) = Out[o].value + Amount(S)
  BY <1>1, <1>2, <1>3, Zenon
<1> QED
  BY <1>1, <1>4 DEF T

\* The two columns of a row, and what is unspent at its place.
Balanced(p) == Row(p).unlocked + Row(p).locked = Amount(UnspentOf(p))

LEMMA ConservedByPlace ==
    Conserved <=> \A p \in Places : Balanced(p)
<1>1. \A a \in Addresses : UnspentOf(a) = Unspent(a) /\ Row(a) = addressBalance[a]
  BY Placed DEF UnspentOf, Unspent
<1>2. UnspentOf(None) = AllUnspent /\ Row(None) = walletBalance
  BY Placed, RefreshAssumption DEF UnspentOf, AllUnspent, Unspent, At
<1> QED
  BY <1>1, <1>2 DEF Conserved, Balanced, Places

\* Unlocking keeps the sum of the columns.
LEMMA MovedKeeps ==
    ASSUME NEW row \in SignedRow, NEW S \in SUBSET Outputs, NEW new, Moved(new, row, S)
    PROVE  new.unlocked + new.locked = row.unlocked + row.locked
  BY AmountNat DEF Moved, SignedRow

\* So does every statement of a request.
LEMMA StatementKeeps ==
    ASSUME Types, NEW q \in RequestRow
    PROVE  Statement(q).unlocked + Statement(q).locked = Row(q.row).unlocked + Row(q.row).locked
<1>1. q.row \in Places /\ q.next \in {"unlock", "authorities", "expires"} /\ Part(q.picked, q.row) \in SUBSET Outputs
  BY Placed DEF RequestRow, Part
<1>2. Row(q.row) \in BalanceRow /\ Row(q.row) \in SignedRow
  BY <1>1, RowsOfPlaces, SignedRows
<1>3. CASE q.next = "unlock"
  BY <1>1, <1>2, <1>3, Statements, UnlockRow, MovedKeeps
<1>4. CASE q.next = "authorities"
  <2>1. PICK b \in BOOLEAN : Statement(q) = [Row(q.row) EXCEPT !.lAuth = b]
    BY <1>4, Statements
  <2> QED
    BY <1>2, <2>1 DEF BalanceRow
<1>5. CASE q.next = "expires"
  <2>1. PICK e \in Nat \cup {None} : Statement(q) = [Row(q.row) EXCEPT !.expires = e]
    BY <1>5, Statements
  <2> QED
    BY <1>2, <2>1 DEF BalanceRow
<1> QED
  BY <1>1, <1>3, <1>4, <1>5

\* Every step keeps the columns balanced.
LEMMA BalancedNext ==
    ASSUME Types, [Next]_vars, NEW p \in Places, Balanced(p)
    PROVE  Balanced(p)'
<1>0. Row(p) \in BalanceRow /\ Row(p) \in SignedRow
  BY RowsOfPlaces, SignedRows
<1>1. CASE UNCHANGED <<state, addressBalance, walletBalance>>
  BY <1>1 DEF Balanced, Row, UnspentOf
<1>2. ASSUME NEW r \in Requests, RequestUpdates(r)
      PROVE  Balanced(p)'
  <2>1. UnspentOf(p)' = UnspentOf(p)
    BY <1>2 DEF RequestUpdates, UnspentOf
  <2>2. request[r] \in RequestRow /\ Wrote(r)
    BY <1>2, RequestWrites DEF Types
  <2>3. Row(p)'.unlocked + Row(p)'.locked = Row(p).unlocked + Row(p).locked
    BY <2>2, StatementKeeps DEF Wrote
  <2> QED
    BY <2>1, <2>3 DEF Balanced
<1>3. CASE DaemonCommits
  <2>1. PICK o : o = daemon.output
    OBVIOUS
  <2>2. CASE daemon.kind = "accept" /\ o \in Outputs /\ state[o] = "absent" /\ Accepts(o)
    <3>1. state' = [state EXCEPT ![o] = "unspent"] /\ state \in [Outputs -> {"absent", "unspent", "spent"}]
      BY <2>2 DEF Accepts, Types, RowsTyped
    <3>2. UnspentOf(p) \in SUBSET Outputs /\ o \notin UnspentOf(p) /\ Out[o].value \in Nat
          /\ UnspentOf(p)' = IF o \in OutputsOf(p) THEN UnspentOf(p) \cup {o} ELSE UnspentOf(p)
      <4>1. OutputsOf(p) \in SUBSET Outputs
        BY Placed
      <4>2. \A x \in OutputsOf(p) : state'[x] = IF x = o THEN "unspent" ELSE state[x]
        BY <3>1, <4>1
      <4>3. UnspentOf(p) = {x \in OutputsOf(p) : state[x] = "unspent"} /\ UnspentOf(p)' = {x \in OutputsOf(p) : state'[x] = "unspent"}
        BY Zenon DEF UnspentOf, OutputsOf
      <4> QED
        BY <2>2, <4>1, <4>2, <4>3, RefreshAssumption
    <3>3. CASE o \in OutputsOf(p)
      <4>1. CreditedAs(Row(p)', Row(p), o, markLockedOutputs(o, daemon.now))
        BY <2>2, <3>3, AcceptedPlaces
      <4>2. Row(p)'.unlocked + Row(p)'.locked = Row(p).unlocked + Row(p).locked + Out[o].value
        BY <1>0, <3>2, <4>1 DEF CreditedAs, BalanceRow
      <4>3. Amount(UnspentOf(p) \cup {o}) = Amount(UnspentOf(p)) + Out[o].value
        BY <2>2, <3>2, AmountAdd
      <4>4. UnspentOf(p)' = UnspentOf(p) \cup {o}
        BY <3>2, <3>3
      <4> QED
        BY <4>2, <4>3, <4>4 DEF Balanced
    <3>4. CASE o \notin OutputsOf(p)
      BY <2>2, <3>2, <3>4, AcceptedPlaces DEF Balanced
    <3> QED
      BY <3>3, <3>4
  <2>3. CASE daemon.kind = "spend" /\ o \in Outputs /\ state[o] = "unspent" /\ Spends(o)
    <3>1. state' = [state EXCEPT ![o] = "spent"] /\ state \in [Outputs -> {"absent", "unspent", "spent"}]
          /\ daemon.picked \in SUBSET Outputs
      BY <2>3 DEF Spends, Types, RowsTyped, DaemonRow
    <3>2. UnspentOf(p)' \in SUBSET Outputs /\ o \notin UnspentOf(p)' /\ Out[o].value \in Nat
          /\ UnspentOf(p) = IF o \in OutputsOf(p) THEN UnspentOf(p)' \cup {o} ELSE UnspentOf(p)'
      <4>1. OutputsOf(p) \in SUBSET Outputs
        BY Placed
      <4>2. \A x \in OutputsOf(p) : state'[x] = IF x = o THEN "spent" ELSE state[x]
        BY <3>1, <4>1
      <4>3. UnspentOf(p) = {x \in OutputsOf(p) : state[x] = "unspent"} /\ UnspentOf(p)' = {x \in OutputsOf(p) : state'[x] = "unspent"}
        BY Zenon DEF UnspentOf, OutputsOf
      <4> QED
        BY <2>3, <4>1, <4>2, <4>3, RefreshAssumption
    <3>3. CASE o \in OutputsOf(p)
      <4>1. PICK b \in BOOLEAN : DebitedAs(Row(p)', UnlockedAt(daemon.picked, p), o, b)
        BY <2>3, <3>3, SpentPlaces
      <4>2. /\ Moved(UnlockedAt(daemon.picked, p), Row(p), Part(daemon.picked, p)) /\ UnlockedAt(daemon.picked, p) \in SignedRow
            /\ Part(daemon.picked, p) \in SUBSET Outputs
        BY <3>1, UnlockedPlaces DEF UnlockedPlace, Part
      <4>3. UnlockedAt(daemon.picked, p).unlocked + UnlockedAt(daemon.picked, p).locked = Row(p).unlocked + Row(p).locked
        BY <1>0, <4>2, MovedKeeps
      <4>4. Row(p)'.unlocked + Row(p)'.locked = (Row(p).unlocked + Row(p).locked) - Out[o].value
        BY <1>0, <3>2, <4>1, <4>2, <4>3 DEF DebitedAs, SignedRow
      <4>5. Amount(UnspentOf(p)' \cup {o}) = Amount(UnspentOf(p)') + Out[o].value /\ Amount(UnspentOf(p)') \in Nat
        BY <2>3, <3>2, AmountAdd, AmountNat
      <4>6. UnspentOf(p) = UnspentOf(p)' \cup {o}
        BY <3>2, <3>3
      <4>7. Amount(UnspentOf(p)') = Amount(UnspentOf(p)) - Out[o].value
        BY <3>2, <4>5, <4>6
      <4>8. Row(p).unlocked + Row(p).locked = Amount(UnspentOf(p)) /\ Amount(UnspentOf(p)) \in Nat
        BY <3>2, <4>5, <4>6 DEF Balanced
      <4>9. Row(p)'.unlocked + Row(p)'.locked = Amount(UnspentOf(p)')
        BY <4>4, <4>7, <4>8
      <4> QED
        BY <4>9 DEF Balanced
    <3>4. CASE o \notin OutputsOf(p)
      BY <2>3, <3>2, <3>4, SpentPlaces DEF Balanced
    <3> QED
      BY <3>3, <3>4
  <2>4. CASE daemon.kind = "block" /\ NewBlock(daemon.picked)
    <3>1. UnspentOf(p)' = UnspentOf(p)
      BY <2>4 DEF NewBlock, UnspentOf
    <3>2. daemon.picked \in SUBSET Outputs
      BY DEF Types, DaemonRow
    <3>3. Row(p)' = UnlockedAt(daemon.picked, p)
      BY <2>4, BlockPlaces
    <3>4. Moved(UnlockedAt(daemon.picked, p), Row(p), Part(daemon.picked, p)) /\ Part(daemon.picked, p) \in SUBSET Outputs
      BY <3>2, UnlockedPlaces DEF UnlockedPlace, Part
    <3>5. Row(p)'.unlocked + Row(p)'.locked = Row(p).unlocked + Row(p).locked
      BY <1>0, <3>3, <3>4, MovedKeeps
    <3> QED
      BY <3>1, <3>5 DEF Balanced
  <2> QED
    BY <1>3, <2>1, <2>2, <2>3, <2>4, CommitCases
<1> QED
  <2>1. Tick \/ (\E r \in Requests : RequestReads(r) \/ RequestSelects(r) \/ RequestMarks(r) \/ RequestDies(r))
        \/ (\E kind \in {"accept", "spend", "block"}, o \in Outputs \cup {None} : DaemonReads(kind, o)) \/ DaemonRefused
        \/ UNCHANGED vars
        => UNCHANGED <<state, addressBalance, walletBalance>>
    BY DEF Tick, RequestReads, RequestSelects, RequestMarks, RequestDies, DaemonReads, DaemonRefused, vars, rows
  <2> QED
    BY <1>1, <1>2, <1>3, <2>1 DEF Next

\* Whoever unlocks an output, twice or not at all, and whoever dies on the way, coins
\* only move between the two columns of a row (updateAddressLockedBalance, unlockUtxos).
THEOREM RefreshConserves == Spec => []Conserved
<1>1. Init => Conserved
  <2> SUFFICES ASSUME Init PROVE \A p \in Places : Balanced(p)
    BY ConservedByPlace
  <2> SUFFICES ASSUME NEW p \in Places PROVE Balanced(p)
    OBVIOUS
  <2>1. UnspentOf(p) = {}
    BY Placed DEF Init, UnspentOf
  <2>2. Row(p).unlocked = 0 /\ Row(p).locked = 0
    BY DEF Init, Row, Places, NoBalance
  <2> QED
    BY <2>1, <2>2, AmountEmpty DEF Balanced
<1>2. Types /\ Conserved /\ [Next]_vars => Conserved'
  <2>1. ASSUME Types, \A p \in Places : Balanced(p), [Next]_vars
        PROVE  \A p \in Places : Balanced(p)'
    BY <2>1, BalancedNext
  <2>2. Conserved' <=> (\A p \in Places : Balanced(p))'
    BY ConservedByPlace, PTL
  <2> QED
    BY <2>1, <2>2, ConservedByPlace
<1> QED
  BY <1>1, <1>2, TypesInvariant, PTL DEF Spec

---------------------------------------------------------------------------
(* Announced locks. *)

\* e is no later than the locks by time of S.
Announces(e, S) == \A o \in S : Out[o].timelock # 0 => e # None /\ e <= Out[o].timelock
Announced(p) == Announces(Row(p).expires, LockedAt(p))

LEMMA AnnouncedByPlace ==
    ExpiryIsAnnounced <=> \A p \in Places : Announced(p)
<1>1. \A o \in LockedUnspent : /\ o \in LockedAt(None) /\ o \in LockedAt(Out[o].address) /\ Out[o].address \in Addresses
                               /\ Row(Out[o].address) = addressBalance[Out[o].address]
  BY Placed, RefreshAssumption DEF LockedAt, Part, At, LockedUnspent
<1>2. \A a \in Addresses : \A o \in LockedAt(a) : Out[o].address = a /\ o \in LockedUnspent /\ Row(a) = addressBalance[a]
  BY Placed DEF LockedAt, Part, At
<1>3. Row(None) = walletBalance /\ LockedAt(None) \subseteq LockedUnspent
  BY Placed DEF LockedAt, Part
<1> QED
  BY <1>1, <1>2, <1>3 DEF ExpiryIsAnnounced, Announced, Announces, Places

\* An earlier time announces as much, and fewer locks are announced as well.
LEMMA AnnouncesLess ==
    ASSUME NEW S \in SUBSET Outputs, NEW d \in Nat \cup {None}, Announces(d, S), NEW e \in Nat \cup {None},
           NEW T \in SUBSET S, d # None => e # None /\ e <= d
    PROVE  Announces(e, T)
  BY RefreshAssumption DEF Announces

\* What is locked in the wallet is locked at an address.
LEMMA WalletAnnounces ==
    ASSUME NEW e \in Nat \cup {None}, NEW f, NEW S,
           \A a \in Addresses : f[a] \in Nat \cup {None} /\ Announces(f[a], LockedAt(a) \ S) /\ (f[a] # None => e # None /\ e <= f[a])
    PROVE  Announces(e, LockedAt(None) \ S)
<1> SUFFICES ASSUME NEW o \in LockedAt(None) \ S, Out[o].timelock # 0
             PROVE  e # None /\ e <= Out[o].timelock
  BY DEF Announces
<1>1. PICK a \in Addresses : a = Out[o].address /\ o \in LockedAt(a) \ S
  BY Placed, RefreshAssumption DEF LockedAt, Part, At, LockedUnspent
<1>2. f[a] # None /\ f[a] <= Out[o].timelock
  BY <1>1 DEF Announces
<1>3. e # None /\ e <= f[a] /\ e \in Nat /\ f[a] \in Nat /\ Out[o].timelock \in Nat
  BY <1>1, <1>2, Placed, RefreshAssumption DEF LockedAt, Part
<1> QED
  BY <1>2, <1>3

\* The daemon's unlock announces what it leaves locked.
LEMMA UnlockedAnnounces ==
    ASSUME Types, \A p \in Places : Announced(p), NEW S \in SUBSET Outputs, NEW p \in Places
    PROVE  Announces(UnlockedAt(S, p).expires, LockedAt(p) \ S)
<1>1. ASSUME NEW x \in Places, ByTime(Part(S, x)) = {}
      PROVE  Announces(UnlockedAt(S, x).expires, LockedAt(x) \ S)
  <2>1. UnlockedAt(S, x).expires = Row(x).expires
    BY <1>1, UnlockedPlaces DEF UnlockedPlace
  <2> QED
    BY <2>1 DEF Announced, Announces
<1>2. ASSUME NEW a \in Addresses
      PROVE  Announces(UnlockedAt(S, a).expires, LockedAt(a) \ S)
  <2>1. CASE ByTime(Part(S, a)) = {}
    BY <1>1, <2>1 DEF Places
  <2>2. CASE ByTime(Part(S, a)) # {}
    <3>1. a \in Places /\ a # None
      BY RefreshAssumption DEF Places
    <3> QED
      BY <2>2, <3>1, UnlockedPlaces DEF UnlockedPlace, Announces
  <2> QED
    BY <2>1, <2>2
<1>3. CASE p = None /\ ByTime(Part(S, p)) # {}
  <2> DEFINE f == [a \in Addresses |-> UnlockedAt(S, a).expires]
             e == UnlockedAt(S, None).expires
  <2>1. \A x \in Places : UnlockedAt(S, x).expires \in Nat \cup {None}
    BY UnlockedPlaces DEF UnlockedPlace, SignedRow
  <2>2. \A a \in Addresses : UnlockedAt(S, a).expires # None => e # None /\ e <= UnlockedAt(S, a).expires
    BY <1>3, UnlockedPlaces DEF UnlockedPlace
  <2>3. \A a \in Addresses : f[a] \in Nat \cup {None} /\ Announces(f[a], LockedAt(a) \ S) /\ (f[a] # None => e # None /\ e <= f[a])
    BY <1>2, <2>1, <2>2 DEF Places
  <2>4. e \in Nat \cup {None}
    BY <2>1 DEF Places
  <2> HIDE DEF f
  <2>5. Announces(e, LockedAt(None) \ S)
    <3> HIDE DEF e
    <3> QED
      BY <2>3, <2>4, WalletAnnounces
  <2> QED
    BY <1>3, <2>5
<1> QED
  BY <1>1, <1>2, <1>3 DEF Places

\* The locks a step leaves, and the expiries that are as they were.
LEMMA AnnouncedStays ==
    ASSUME NEW p, Announced(p), LockedAt(p)' \subseteq LockedAt(p), Row(p)'.expires = Row(p).expires
    PROVE  Announced(p)'
  BY DEF Announced, Announces

\* Every step announces the locks it leaves.
LEMMA AnnouncedNext ==
    ASSUME Types, \A x \in Places : Announced(x), [Next]_vars, NEW p \in Places
    PROVE  Announced(p)'
<1>0. Row(p) \in BalanceRow /\ OutputsOf(p) \in SUBSET Outputs
  BY RowsOfPlaces, Placed
<1>1. CASE UNCHANGED <<state, locked, addressBalance, walletBalance>>
  <2>1. Row(p)' = Row(p) /\ LockedAt(p)' = LockedAt(p)
    BY <1>1 DEF Row, LockedAt, Part, LockedUnspent, OutputsOf
  <2> QED
    BY <2>1, AnnouncedStays
<1>2. ASSUME NEW r \in Requests, RequestMarks(r)
      PROVE  Announced(p)'
  <2>1. Row(p)' = Row(p) /\ LockedAt(p)' \subseteq LockedAt(p)
    BY <1>0, <1>2 DEF RequestMarks, Row, LockedAt, Part, LockedUnspent, OutputsOf
  <2> QED
    BY <2>1, AnnouncedStays
<1>3. ASSUME NEW r \in Requests, RequestUpdates(r)
      PROVE  Announced(p)'
  <2>1. LockedAt(p)' = LockedAt(p)
    BY <1>3 DEF RequestUpdates, LockedAt, Part, LockedUnspent, OutputsOf
  <2>2. request[r] \in RequestRow /\ Wrote(r)
    BY <1>3, RequestWrites DEF Types
  <2> DEFINE q == request[r]
  <2>3. CASE Row(p)' = Row(p)
    BY <2>1, <2>3, AnnouncedStays
  <2>4. CASE p = q.row /\ Row(p)' = Statement(q)
    <3>1. q.next \in {"unlock", "authorities", "expires"} /\ Part(q.picked, p) \in SUBSET Outputs
      BY <1>0, <2>2 DEF RequestRow, Part
    <3>2. CASE q.next = "unlock"
      <4>1. Statement(q).expires = Row(p).expires
        BY <1>0, <2>2, <2>4, <3>1, <3>2, Statements, UnlockRow, SignedRows
      <4> QED
        BY <2>1, <2>4, <4>1, AnnouncedStays
    <3>3. CASE q.next = "authorities"
      <4>1. PICK b \in BOOLEAN : Statement(q) = [Row(p) EXCEPT !.lAuth = b]
        BY <2>2, <2>4, <3>3, Statements
      <4>2. Statement(q).expires = Row(p).expires
        BY <1>0, <4>1 DEF BalanceRow
      <4> QED
        BY <2>1, <2>4, <4>2, AnnouncedStays
    <3>4. CASE q.next = "expires"
      <4>1. PICK e \in Nat \cup {None} :
                /\ Statement(q) = [Row(p) EXCEPT !.expires = e]
                /\ p = None => \A a \in Addresses : Row(a).expires # None => e # None /\ e <= Row(a).expires
                /\ p # None => \A o \in LockedAt(p) : Out[o].timelock # 0 => e # None /\ e <= Out[o].timelock
        BY <2>2, <2>4, <3>4, Statements
      <4>2. Row(p)'.expires = e
        BY <1>0, <2>4, <4>1 DEF BalanceRow
      <4>3. Announces(e, LockedAt(p))
        <5>1. CASE p = None
          <6> DEFINE f == [a \in Addresses |-> Row(a).expires]
          <6>1. \A a \in Addresses : f[a] = Row(a).expires /\ Row(a).expires \in Nat \cup {None} /\ Announces(Row(a).expires, LockedAt(a) \ {})
            BY RowsOfPlaces DEF Places, BalanceRow, Announced, Announces
          <6>2. \A a \in Addresses : f[a] \in Nat \cup {None} /\ Announces(f[a], LockedAt(a) \ {}) /\ (f[a] # None => e # None /\ e <= f[a])
            BY <4>1, <5>1, <6>1
          <6> HIDE DEF f
          <6>3. Announces(e, LockedAt(None) \ {})
            BY <6>2, WalletAnnounces
          <6> QED
            BY <5>1, <6>3 DEF Announces
        <5>2. CASE p # None
          BY <4>1, <5>2 DEF Announces
        <5> QED
          BY <5>1, <5>2
      <4> QED
        BY <2>1, <4>2, <4>3 DEF Announced
    <3> QED
      BY <3>1, <3>2, <3>3, <3>4
  <2> QED
    BY <2>2, <2>3, <2>4 DEF Wrote
<1>4. CASE DaemonCommits
  <2>1. PICK o : o = daemon.output
    OBVIOUS
  <2>2. PICK S \in SUBSET Outputs : S = daemon.picked
    BY DEF Types, DaemonRow
  <2>3. state \in [Outputs -> {"absent", "unspent", "spent"}] /\ locked \in [Outputs -> BOOLEAN]
    BY DEF Types, RowsTyped
  <2>4. /\ LockedAt(p) = {x \in OutputsOf(p) : state[x] = "unspent" /\ locked[x]}
        /\ LockedAt(p)' = {x \in OutputsOf(p) : state'[x] = "unspent" /\ locked'[x]}
    BY <1>0 DEF LockedAt, Part, LockedUnspent, OutputsOf
  <2>5. CASE daemon.kind = "accept" /\ o \in Outputs /\ state[o] = "absent" /\ Accepts(o)
    <3>1. state' = [state EXCEPT ![o] = "unspent"] /\ locked' = [locked EXCEPT ![o] = markLockedOutputs(o, daemon.now)]
      BY <2>5 DEF Accepts
    <3>2. /\ LockedAt(p)' \subseteq LockedAt(p) \cup ({o} \cap OutputsOf(p))
          /\ ~markLockedOutputs(o, daemon.now) => o \notin LockedAt(p)'
      BY <1>0, <2>3, <2>4, <2>5, <3>1
    <3>3. CASE o \in OutputsOf(p)
      <4>1. CreditedAs(Row(p)', Row(p), o, markLockedOutputs(o, daemon.now))
        BY <2>5, <3>3, AcceptedPlaces
      <4>2. CASE markLockedOutputs(o, daemon.now)
        <5>1. /\ Row(p).expires # None => Row(p)'.expires # None /\ Row(p)'.expires <= Row(p).expires
              /\ Announces(Row(p)'.expires, {o}) /\ Row(p)'.expires \in Nat \cup {None}
          BY <4>1, <4>2 DEF CreditedAs, Announces, BalanceRow
        <5>2. Announces(Row(p)'.expires, LockedAt(p))
          <6>1. Announces(Row(p).expires, LockedAt(p)) /\ LockedAt(p) \in SUBSET Outputs /\ Row(p).expires \in Nat \cup {None}
            BY <1>0, <2>4 DEF Announced, BalanceRow
          <6> QED
            BY <5>1, <6>1, AnnouncesLess
        <5>3. Announces(Row(p)'.expires, LockedAt(p)')
          BY <3>2, <5>1, <5>2 DEF Announces
        <5> QED
          BY <5>3 DEF Announced
      <4>3. CASE ~markLockedOutputs(o, daemon.now)
        BY <3>2, <4>1, <4>3, AnnouncedStays DEF CreditedAs
      <4> QED
        BY <4>2, <4>3
    <3>4. CASE o \notin OutputsOf(p)
      BY <2>5, <3>2, <3>4, AcceptedPlaces, AnnouncedStays
    <3> QED
      BY <3>3, <3>4
  <2>6. CASE daemon.kind = "spend" /\ o \in Outputs /\ state[o] = "unspent" /\ Spends(o) /\ S \subseteq {o}
    <3>1. state' = [state EXCEPT ![o] = "spent"] /\ locked' = [locked EXCEPT ![o] = FALSE]
      BY <2>6 DEF Spends
    <3>2. LockedAt(p)' \subseteq LockedAt(p) /\ o \notin LockedAt(p)'
      BY <1>0, <2>3, <2>4, <2>6, <3>1
    <3>3. CASE o \in OutputsOf(p)
      <4>1. PICK b \in BOOLEAN : DebitedAs(Row(p)', UnlockedAt(S, p), o, b)
        BY <2>2, <2>6, <3>3, SpentPlaces
      <4>2. Row(p)'.expires = UnlockedAt(S, p).expires
        BY <4>1 DEF DebitedAs
      <4>3. Announces(Row(p)'.expires, LockedAt(p) \ S) /\ LockedAt(p)' \subseteq LockedAt(p) \ S
        BY <2>6, <3>2, <4>2, UnlockedAnnounces
      <4>4. Announces(Row(p)'.expires, LockedAt(p)')
        BY <4>3 DEF Announces
      <4> QED
        BY <4>4 DEF Announced
    <3>4. CASE o \notin OutputsOf(p)
      BY <2>6, <3>2, <3>4, SpentPlaces, AnnouncedStays
    <3> QED
      BY <3>3, <3>4
  <2>7. CASE daemon.kind = "block" /\ NewBlock(S)
    <3>1. Row(p)' = UnlockedAt(S, p)
      BY <2>7, BlockPlaces
    <3>2. LockedAt(p)' \subseteq LockedAt(p) \ S
      BY <1>0, <2>4, <2>7 DEF NewBlock
    <3>3. Announces(UnlockedAt(S, p).expires, LockedAt(p) \ S)
      BY UnlockedAnnounces
    <3>4. Announces(Row(p)'.expires, LockedAt(p)')
      BY <3>1, <3>2, <3>3 DEF Announces
    <3> QED
      BY <3>4 DEF Announced
  <2> QED
    BY <1>4, <2>1, <2>2, <2>5, <2>6, <2>7, CommitCases
<1> QED
  <2>1. Tick \/ (\E r \in Requests : RequestReads(r) \/ RequestSelects(r) \/ RequestDies(r))
        \/ (\E kind \in {"accept", "spend", "block"}, o \in Outputs \cup {None} : DaemonReads(kind, o)) \/ DaemonRefused
        \/ UNCHANGED vars
        => UNCHANGED <<state, locked, addressBalance, walletBalance>>
    BY DEF Tick, RequestReads, RequestSelects, RequestDies, DaemonReads, DaemonRefused, vars, rows
  <2> QED
    BY <1>1, <1>2, <1>3, <1>4, <2>1 DEF Next

\* The expiry of a row is never later than that of an output that is still locked at its
\* place, so getWalletBalances does look at it once it is over (commons.ts).
THEOREM RefreshAnnounces == Spec => []ExpiryIsAnnounced
<1>1. Init => ExpiryIsAnnounced
  BY DEF Init, ExpiryIsAnnounced, LockedUnspent
<1>2. Types /\ ExpiryIsAnnounced /\ [Next]_vars => ExpiryIsAnnounced'
  <2>1. ASSUME Types, \A p \in Places : Announced(p), [Next]_vars
        PROVE  (\A p \in Places : Announced(p))'
    BY <2>1, AnnouncedNext
  <2>2. ExpiryIsAnnounced' <=> (\A p \in Places : Announced(p))'
    BY AnnouncedByPlace, PTL
  <2> QED
    BY <2>1, <2>2, AnnouncedByPlace
<1> QED
  BY <1>1, <1>2, TypesInvariant, PTL DEF Spec

---------------------------------------------------------------------------
(* What the columns are while requests are under way.  As long as no two    *)
(* have unlocked the same output and nobody died, the locked column of a    *)
(* place is short of nothing but what a request still owes it, and its      *)
(* locked authorities are those of what is locked, or of what a request     *)
(* has yet to ask about.                                                    *)

Quiet == ~crossed /\ failures = 0

\* What is unlocked and unspent at a place.
FreeAt(p) == {o \in OutputsOf(p) : state[o] = "unspent" /\ ~locked[o]}

\* The request has yet to unlock its outputs at p.
UnlockDue(q, p) == q.at = "update" /\ (p \in q.left \/ (p = q.row /\ q.next = "unlock") \/ (p = None /\ q.row # None))
\* It has yet to ask for the authorities that p still has locked.
AuthDue(q, p) == q.at = "update" /\ (p \in q.left \/ (p = q.row /\ q.next # "expires") \/ (p = None /\ q.row # None))

OwedBy(R, p) == {o \in OutputsOf(p) : \E r \in R : UnlockDue(request[r], p) /\ o \in request[r].picked}
UnaskedBy(R, p) == {o \in OutputsOf(p) : \E r \in R : AuthDue(request[r], p) /\ o \in request[r].picked}
Owed(p) == OwedBy(Requests, p)
Unasked(p) == UnaskedBy(Requests, p)

\* No two have picked the same output.
Apart == /\ \A q, r \in Requests : q # r => request[q].picked \cap request[r].picked = {}
         /\ \A q \in Requests : request[q].picked \cap daemon.touched = {}
\* What a request has picked is locked until it marks it.
Marked == \A r \in Requests : \A o \in request[r].picked : state[o] = "unspent" /\ (locked[o] <=> request[r].at = "mark")
\* What the daemon has read still holds.
Held == /\ daemon.picked = daemon.touched \cap LockedUnspent
        /\ daemon.open /\ daemon.kind = "spend" => daemon.touched = {daemon.output}
        /\ ~daemon.open => daemon.touched = {}
        /\ daemon.kind # "none" => daemon.open

\* A row, for what is locked, owed, unasked and free at its place.
Covers(row, locks, owed, unasked, free) ==
    /\ row.locked = Amount(locks \cup owed)
    /\ Authority(locks) => row.lAuth
    /\ row.lAuth => Authority(locks \cup unasked)
    /\ Authority(free \ owed) => row.uAuth
    /\ row.uAuth => Authority(free)
Columns(p) == Covers(Row(p), LockedAt(p), Owed(p), Unasked(p), FreeAt(p))

Calm == Apart /\ Marked /\ Held /\ \A p \in Places : Columns(p)
Undisturbed == Quiet => Calm

\* The sets of a place.
LEMMA SetsOfPlace ==
    ASSUME Types, Marked, NEW p \in Places
    PROVE  /\ OutputsOf(p) \in SUBSET Outputs
           /\ LockedAt(p) = {o \in OutputsOf(p) : state[o] = "unspent" /\ locked[o]}
           /\ LockedAt(p) \in SUBSET Outputs /\ FreeAt(p) \in SUBSET Outputs /\ UnspentOf(p) \in SUBSET Outputs
           /\ LockedAt(p) \cap FreeAt(p) = {} /\ LockedAt(p) \cup FreeAt(p) = UnspentOf(p)
           /\ Owed(p) \in SUBSET FreeAt(p) /\ Unasked(p) \in SUBSET FreeAt(p)
<1>1. OutputsOf(p) \in SUBSET Outputs /\ locked \in [Outputs -> BOOLEAN]
  BY Placed DEF Types, RowsTyped
<1>2. LockedAt(p) = {o \in OutputsOf(p) : state[o] = "unspent" /\ locked[o]}
  BY <1>1 DEF LockedAt, Part, LockedUnspent
<1>3. Owed(p) \in SUBSET FreeAt(p)
  BY DEF Owed, OwedBy, UnlockDue, Marked, FreeAt
<1>4. Unasked(p) \in SUBSET FreeAt(p)
  BY DEF Unasked, UnaskedBy, AuthDue, Marked, FreeAt
<1> QED
  BY <1>1, <1>2, <1>3, <1>4 DEF FreeAt, UnspentOf

\* What is owed or unasked at an address is so in the wallet, by a request that is not there yet.
LEMMA AddressThenWallet ==
    ASSUME Types, NEW a \in Addresses
    PROVE  \A r \in Requests : /\ UnlockDue(request[r], a) => UnlockDue(request[r], None) /\ request[r].row # None
                               /\ AuthDue(request[r], a) => AuthDue(request[r], None) /\ request[r].row # None
<1> SUFFICES ASSUME NEW r \in Requests
             PROVE  /\ UnlockDue(request[r], a) => UnlockDue(request[r], None) /\ request[r].row # None
                    /\ AuthDue(request[r], a) => AuthDue(request[r], None) /\ request[r].row # None
  OBVIOUS
<1>1. a # None /\ RequestShape(request[r])
  BY RefreshAssumption DEF Types
<1> QED
  BY <1>1 DEF UnlockDue, AuthDue, RequestShape

LEMMA WalletOwes ==
    ASSUME Types, NEW a \in Addresses
    PROVE  /\ Owed(a) \subseteq Owed(None) /\ Unasked(a) \subseteq Unasked(None)
           /\ LockedAt(a) \subseteq LockedAt(None) /\ FreeAt(a) \subseteq FreeAt(None)
<1>1. OutputsOf(a) \subseteq OutputsOf(None)
  BY Placed
<1> QED
  BY <1>1, Placed, AddressThenWallet DEF Owed, OwedBy, Unasked, UnaskedBy, LockedAt, Part, FreeAt

\* Every output of the wallet is at an address.
LEMMA AtAnAddress ==
    ASSUME NEW o \in Outputs
    PROVE  \E a \in Addresses : \A S : S \in SUBSET Outputs /\ o \in S => o \in Part(S, a) /\ o \in OutputsOf(a)
  BY Placed, RefreshAssumption DEF Part, At

\* What one request owes, and has yet to ask about.
OwedPart(q, p) == IF UnlockDue(q, p) THEN Part(q.picked, p) ELSE {}
UnaskedPart(q, p) == IF AuthDue(q, p) THEN Part(q.picked, p) ELSE {}

\* What is owed at p, and has yet to be asked, as request r becomes q.
Owes(r, q, p) ==
    /\ Owed(p) = OwedBy(Requests \ {r}, p) \cup OwedPart(request[r], p)
    /\ Owed(p)' = OwedBy(Requests \ {r}, p) \cup OwedPart(q, p)
    /\ Unasked(p) = UnaskedBy(Requests \ {r}, p) \cup UnaskedPart(request[r], p)
    /\ Unasked(p)' = UnaskedBy(Requests \ {r}, p) \cup UnaskedPart(q, p)

\* Only the request that changes owes more or less.
LEMMA OwedOthers ==
    ASSUME Types, NEW r \in Requests, NEW q, request' = [request EXCEPT ![r] = q]
    PROVE  \A p \in Places : Owes(r, q, p)
<1> SUFFICES ASSUME NEW p \in Places PROVE Owes(r, q, p)
  OBVIOUS
<1>1. request'[r] = q /\ \A s \in Requests \ {r} : request'[s] = request[s]
  BY DEF Types
<1>2. Owed(p) = OwedBy(Requests \ {r}, p) \cup OwedPart(request[r], p)
  BY DEF Owed, OwedBy, OwedPart, Part
<1>3. Unasked(p) = UnaskedBy(Requests \ {r}, p) \cup UnaskedPart(request[r], p)
  BY DEF Unasked, UnaskedBy, UnaskedPart, Part
<1>4. Owed(p)' = {o \in OutputsOf(p) : \E s \in Requests : UnlockDue(request'[s], p) /\ o \in request'[s].picked}
  BY DEF Owed, OwedBy, UnlockDue, OutputsOf
<1>5. Unasked(p)' = {o \in OutputsOf(p) : \E s \in Requests : AuthDue(request'[s], p) /\ o \in request'[s].picked}
  BY DEF Unasked, UnaskedBy, AuthDue, OutputsOf
<1>6. Owed(p)' = OwedBy(Requests \ {r}, p) \cup OwedPart(q, p)
  BY <1>1, <1>4 DEF OwedBy, OwedPart, Part
<1>7. Unasked(p)' = UnaskedBy(Requests \ {r}, p) \cup UnaskedPart(q, p)
  BY <1>1, <1>5 DEF UnaskedBy, UnaskedPart, Part
<1> QED
  BY <1>2, <1>3, <1>6, <1>7 DEF Owes

\* Nothing is owed or unasked besides, if no request changes.
LEMMA OwedSame ==
    ASSUME request' = request, NEW p
    PROVE  Owed(p)' = Owed(p) /\ Unasked(p)' = Unasked(p)
  BY DEF Owed, OwedBy, UnlockDue, Unasked, UnaskedBy, AuthDue, OutputsOf

---------------------------------------------------------------------------
(* What an unlock, a credit and a debit make of a covered row. *)

\* What is over once a part is taken away.
LEMMA AmountLess ==
    ASSUME NEW S \in SUBSET Outputs, NEW P \in SUBSET S
    PROVE  Amount(S \ P) = Amount(S) - Amount(P) /\ Amount(P) <= Amount(S) /\ Amount(P) \in Nat /\ Amount(S) \in Nat
<1>1. Amount(S) = Amount(P) + Amount(S \ P)
  <2>1. P \cup (S \ P) = S /\ P \cap (S \ P) = {}
    OBVIOUS
  <2> QED
    BY <2>1, AmountSplit
<1>2. Amount(P) \in Nat /\ Amount(S \ P) \in Nat /\ Amount(S) \in Nat
  BY AmountNat
<1> QED
  BY <1>1, <1>2

\* A request that unlocks P owes it no longer, and has yet to ask unless P has no authority.
LEMMA CoversUnlock ==
    ASSUME NEW row \in SignedRow, NEW new \in SignedRow, NEW K \in SUBSET Outputs, NEW W \in SUBSET Outputs,
           NEW N \in SUBSET Outputs, NEW F \in SUBSET Outputs, Covers(row, K, W, N, F),
           NEW P \in SUBSET W, P \subseteq F, K \cap W = {}, Moved(new, row, P), new.lAuth = row.lAuth,
           NEW M, N \ P \subseteq M, Authority(P) => N \subseteq M
    PROVE  Covers(new, K, W \ P, M, F)
<1>1. Amount(K \cup (W \ P)) = Amount(K \cup W) - Amount(P)
  <2>1. K \cup W \in SUBSET Outputs /\ P \in SUBSET (K \cup W) /\ (K \cup W) \ P = K \cup (W \ P)
    OBVIOUS
  <2>2. Amount((K \cup W) \ P) = Amount(K \cup W) - Amount(P)
    BY <2>1, AmountLess
  <2> QED
    BY <2>1, <2>2
<1>2. new.locked = Amount(K \cup (W \ P))
  BY <1>1 DEF Covers, Moved
<1>3. Authority(K) => new.lAuth
  BY DEF Covers
<1>4. new.lAuth => Authority(K \cup M)
  BY DEF Covers, Authority
<1>5. new.uAuth <=> row.uAuth \/ Authority(P)
  BY DEF Moved, SignedRow
<1>6. Authority(F \ (W \ P)) => new.uAuth
  BY <1>5 DEF Covers, Authority
<1>7. new.uAuth => Authority(F)
  BY <1>5 DEF Covers, Authority
<1> QED
  BY <1>2, <1>3, <1>4, <1>6, <1>7 DEF Covers

\* The daemon unlocks P, which nobody owes.
LEMMA CoversRelease ==
    ASSUME NEW row \in SignedRow, NEW new \in SignedRow, NEW K \in SUBSET Outputs, NEW W \in SUBSET Outputs,
           NEW N, NEW F, Covers(row, K, W, N, F),
           NEW P \in SUBSET K, P \cap W = {}, Moved(new, row, P),
           Authority(K \ P) => new.lAuth, new.lAuth => Authority((K \ P) \cup N)
    PROVE  Covers(new, K \ P, W, N, F \cup P)
<1>1. Amount((K \ P) \cup W) = Amount(K \cup W) - Amount(P)
  <2>1. K \cup W \in SUBSET Outputs /\ P \in SUBSET (K \cup W) /\ (K \cup W) \ P = (K \ P) \cup W
    OBVIOUS
  <2>2. Amount((K \cup W) \ P) = Amount(K \cup W) - Amount(P)
    BY <2>1, AmountLess
  <2> QED
    BY <2>1, <2>2
<1>2. new.locked = Amount((K \ P) \cup W)
  BY <1>1 DEF Covers, Moved
<1>3. new.uAuth <=> row.uAuth \/ Authority(P)
  BY DEF Moved, SignedRow
<1>4. Authority((F \cup P) \ W) => new.uAuth
  BY <1>3 DEF Covers, Authority
<1>5. new.uAuth => Authority(F \cup P)
  BY <1>3 DEF Covers, Authority
<1> QED
  BY <1>2, <1>4, <1>5 DEF Covers

\* An output arrives that was at no place.
LEMMA CoversCredit ==
    ASSUME NEW row \in BalanceRow, NEW new, NEW K \in SUBSET Outputs, NEW W \in SUBSET Outputs,
           NEW N, NEW F, Covers(row, K, W, N, F), NEW o \in Outputs \ (K \cup W), NEW isLocked \in BOOLEAN,
           CreditedAs(new, row, o, isLocked)
    PROVE  IF isLocked THEN Covers(new, K \cup {o}, W, N, F) ELSE Covers(new, K, W, N, F \cup {o})
<1>1. new \in BalanceRow /\ Out[o].authority \in BOOLEAN
  BY RefreshAssumption DEF CreditedAs
<1>2. CASE isLocked
  <2>1. /\ new.locked = row.locked + Out[o].value /\ new.uAuth = row.uAuth
        /\ new.lAuth = (row.lAuth \/ Out[o].authority)
    BY <1>2 DEF CreditedAs
  <2>2. Amount((K \cup {o}) \cup W) = Amount(K \cup W) + Out[o].value
    <3>1. K \cup W \in SUBSET Outputs /\ o \notin K \cup W /\ (K \cup {o}) \cup W = (K \cup W) \cup {o}
      OBVIOUS
    <3> HIDE DEF CreditedAs
    <3>2. Amount((K \cup W) \cup {o}) = Amount(K \cup W) + Out[o].value
      BY <3>1, AmountAdd
    <3> QED
      BY <3>1, <3>2
  <2>3. new.lAuth <=> row.lAuth \/ Out[o].authority
    BY <1>1, <2>1 DEF BalanceRow
  <2>4. Authority(K \cup {o}) => new.lAuth
    BY <2>3 DEF Covers, Authority
  <2>5. new.lAuth => Authority((K \cup {o}) \cup N)
    BY <2>3 DEF Covers, Authority
  <2> QED
    BY <1>2, <2>1, <2>2, <2>4, <2>5 DEF Covers
<1>3. CASE ~isLocked
  <2>1. /\ new.locked = row.locked /\ new.lAuth = row.lAuth
        /\ new.uAuth = (row.uAuth \/ Out[o].authority)
    BY <1>3 DEF CreditedAs
  <2>2. new.uAuth <=> row.uAuth \/ Out[o].authority
    BY <1>1, <2>1 DEF BalanceRow
  <2>3. Authority((F \cup {o}) \ W) => new.uAuth
    BY <2>2 DEF Covers, Authority
  <2>4. new.uAuth => Authority(F \cup {o})
    BY <2>2 DEF Covers, Authority
  <2> QED
    BY <1>3, <2>1, <2>3, <2>4 DEF Covers
<1> QED
  BY <1>2, <1>3

\* An output goes that nobody owes, and the authorities that are left are looked up.
LEMMA CoversDebit ==
    ASSUME NEW row, NEW new, NEW K, NEW W, NEW N, NEW F, Covers(row, K, W, N, F),
           NEW o, NEW stillThere \in BOOLEAN, DebitedAs(new, row, o, stillThere),
           stillThere => Authority(F \ {o}), Authority((F \ {o}) \ W) => stillThere
    PROVE  Covers(new, K, W, N, F \ {o})
<1>1. new.locked = row.locked /\ new.lAuth = row.lAuth
      /\ new.uAuth = IF Out[o].authority THEN stillThere ELSE row.uAuth
  BY DEF DebitedAs
<1>2. CASE Out[o].authority
  BY <1>1, <1>2 DEF Covers
<1>3. CASE ~Out[o].authority
  <2>1. Authority((F \ {o}) \ W) => Authority(F \ W)
    BY DEF Authority
  <2>2. Authority(F) => Authority(F \ {o})
    BY <1>3 DEF Authority
  <2> QED
    BY <1>1, <1>3, <2>1, <2>2 DEF Covers
<1> QED
  BY <1>2, <1>3

---------------------------------------------------------------------------
(* The requests. *)

\* A step that leaves the rows, the outputs and what is owed as they were.
LEMMA ColumnsStay ==
    ASSUME NEW p \in Places, Columns(p), UNCHANGED <<state, locked>>,
           Row(p)'.locked = Row(p).locked, Row(p)'.lAuth = Row(p).lAuth, Row(p)'.uAuth = Row(p).uAuth,
           Owed(p)' = Owed(p), Unasked(p)' = Unasked(p)
    PROVE  Columns(p)'
<1>1. LockedAt(p)' = LockedAt(p) /\ FreeAt(p)' = FreeAt(p)
  BY DEF LockedAt, Part, LockedUnspent, FreeAt, OutputsOf
<1>2. Covers(Row(p)', LockedAt(p), Owed(p), Unasked(p), FreeAt(p))
  BY DEF Columns, Covers
<1>3. Columns(p)' <=> Covers(Row(p)', LockedAt(p)', Owed(p)', Unasked(p)', FreeAt(p)')
  BY DEF Columns, Covers
<1> QED
  BY <1>1, <1>2, <1>3

\* A request that has nothing to do but what it had: it starts, or it selects.
LEMMA CalmRequest ==
    ASSUME Types, Calm, NEW r \in Requests, NEW q \in RequestRow, request' = [request EXCEPT ![r] = q],
           request[r].at # "update", q.at # "update", UNCHANGED <<rows, daemon>>,
           \A o \in q.picked : o \in LockedUnspent /\ q.at = "mark" /\ o \notin daemon.touched
                               /\ \A s \in Requests \ {r} : o \notin request[s].picked
    PROVE  Calm'
<1>1. request'[r] = q /\ \A s \in Requests \ {r} : request'[s] = request[s]
  BY DEF Types
<1>2. Apart'
  BY <1>1 DEF Calm, Apart
<1>3. Marked'
  BY <1>1 DEF Calm, Marked, LockedUnspent, rows
<1>4. Held'
  BY DEF Calm, Held, LockedUnspent, rows
<1>5. ASSUME NEW p \in Places
      PROVE  Columns(p)'
  <2>1. Owed(p)' = Owed(p) /\ Unasked(p)' = Unasked(p)
    BY OwedOthers DEF Owes, OwedPart, UnaskedPart, UnlockDue, AuthDue
  <2>2. Row(p)' = Row(p) /\ UNCHANGED <<state, locked>> /\ Columns(p)
    BY DEF Row, rows, Calm
  <2> QED
    BY <2>1, <2>2, ColumnsStay
<1> QED
  BY <1>2, <1>3, <1>4, <1>5 DEF Calm

\* Two that are unlocking have not picked the same output, or they have crossed.
LEMMA CalmSelects ==
    ASSUME Types, Calm, NEW r \in Requests, RequestSelects(r), ~crossed'
    PROVE  Calm'
<1> DEFINE due == getWalletUnlockedUtxos(request[r].height)
           q == IF due = {} THEN NoRequest ELSE [request[r] EXCEPT !.at = "mark", !.picked = due]
<1>1. request' = [request EXCEPT ![r] = q] /\ UNCHANGED <<rows, daemon>> /\ request[r].at = "select" /\ request[r] \in RequestRow
  BY DEF RequestSelects, Types, rows
<1>2. due \subseteq LockedUnspent /\ due \in SUBSET Outputs
  BY DEF getWalletUnlockedUtxos, LockedUnspent
<1>3. due \cap daemon.touched = {} /\ \A s \in UnlockingNow : request[s].picked \cap due = {}
  BY DEF RequestSelects
<1>4. \A s \in Requests : request[s].picked # {} => s \in UnlockingNow
  BY DEF Types, RequestShape, UnlockingNow
<1>5. q \in RequestRow /\ q.at # "update" /\ q.picked \subseteq due /\ (q.picked # {} => q.at = "mark")
  <2> HIDE DEF due
  <2>1. CASE due = {}
    BY <2>1, NothingAsked
  <2>2. CASE due # {}
    BY <1>1, <1>2, <2>2 DEF RequestRow
  <2> QED
    BY <2>1, <2>2
<1> HIDE DEF due, q
<1> QED
  BY <1>1, <1>2, <1>3, <1>4, <1>5, CalmRequest

\* What a request marks is owed at every place from then on.
LEMMA CalmMarks ==
    ASSUME Types, Calm, NEW r \in Requests, RequestMarks(r)
    PROVE  Calm'
<1> DEFINE P == request[r].picked
<1>1. request[r].at = "mark" /\ request[r] \in RequestRow /\ P \in SUBSET Outputs /\ P # {}
  BY DEF RequestMarks, Types, RequestRow, RequestShape
<1>2. PICK q \in Begins(request[r], {Out[o].address : o \in P}) : request' = [request EXCEPT ![r] = q]
  BY DEF RequestMarks
<1>3. {Out[o].address : o \in P} \in SUBSET Addresses
  BY <1>1, RefreshAssumption
<1>4. /\ q \in RequestRow /\ q.at = "update" /\ q.picked = P /\ q.next = "unlock"
      /\ q.row \in {Out[o].address : o \in P} /\ q.left = {Out[o].address : o \in P} \ {q.row}
  BY <1>1, <1>2, <1>3, BeginsTyped
<1>5. locked' = [o \in Outputs |-> locked[o] /\ o \notin P] /\ UNCHANGED <<state, addressBalance, walletBalance, daemon>>
  BY DEF RequestMarks
<1>6. request'[r] = q /\ \A s \in Requests \ {r} : request'[s] = request[s]
  BY <1>2 DEF Types
<1>7. /\ \A o \in P : state[o] = "unspent" /\ locked[o]
      /\ \A s \in Requests \ {r} : \A o \in request[s].picked : o \in Outputs /\ o \notin P
      /\ P \cap daemon.touched = {}
  BY <1>1 DEF Calm, Marked, Apart, Types, RequestRow
<1>8. Apart'
  BY <1>4, <1>5, <1>6 DEF Calm, Apart
<1>9. Marked'
  <2>1. ASSUME NEW s \in Requests, NEW o \in request'[s].picked
        PROVE  state'[o] = "unspent" /\ (locked'[o] <=> request'[s].at = "mark")
    <3>1. CASE s = r
      BY <1>1, <1>4, <1>5, <1>6, <1>7, <3>1
    <3>2. CASE s # r
      <4>1. s \in Requests \ {r} /\ request'[s] = request[s]
        BY <1>6, <3>2
      <4>2. o \in Outputs /\ o \notin P /\ state[o] = "unspent" /\ (locked[o] <=> request[s].at = "mark")
        BY <1>7, <4>1 DEF Calm, Marked
      <4> QED
        BY <1>5, <4>1, <4>2
    <3> QED
      BY <3>1, <3>2
  <2> QED
    BY <2>1 DEF Marked
<1>10. Held'
  <2>1. daemon.touched \cap LockedUnspent' = daemon.touched \cap LockedUnspent
    BY <1>5, <1>7 DEF LockedUnspent
  <2> QED
    BY <1>5, <2>1 DEF Calm, Held
<1>11. ASSUME NEW p \in Places
       PROVE  Columns(p)'
  <2> DEFINE S == Part(P, p)
  <2>1. OutputsOf(p) \in SUBSET Outputs /\ LockedAt(p) = {o \in OutputsOf(p) : state[o] = "unspent" /\ locked[o]}
    BY SetsOfPlace DEF Calm
  <2>2. S \in SUBSET LockedAt(p)
    BY <1>7, <2>1 DEF Part
  <2>3. LockedAt(p)' = LockedAt(p) \ S
    BY <1>5, <2>1 DEF LockedAt, Part, LockedUnspent, OutputsOf
  <2>4. FreeAt(p)' = FreeAt(p) \cup S
    BY <1>5, <1>7, <2>1 DEF FreeAt, Part, OutputsOf
  <2>5. ~UnlockDue(request[r], p) /\ ~AuthDue(request[r], p)
    BY <1>1 DEF UnlockDue, AuthDue
  <2>6. UnlockDue(q, p) \/ S = {}
    BY <1>4, <2>1, RefreshAssumption DEF UnlockDue, Part, OutputsOf, At, Places
  <2>7. AuthDue(q, p) \/ S = {}
    BY <1>4, <2>6 DEF AuthDue, UnlockDue
  <2>8. Owed(p)' = Owed(p) \cup S /\ Unasked(p)' = Unasked(p) \cup S
    <3>1. S = Part(q.picked, p)
      BY <1>4
    <3> HIDE DEF P, S
    <3>2. /\ OwedPart(request[r], p) = {} /\ UnaskedPart(request[r], p) = {}
          /\ OwedPart(q, p) = S /\ UnaskedPart(q, p) = S
      BY <2>5, <2>6, <2>7, <3>1 DEF OwedPart, UnaskedPart
    <3>3. Owes(r, q, p)
      BY <1>2, OwedOthers
    <3> QED
      BY <3>2, <3>3 DEF Owes
  <2> HIDE DEF S
  <2>9. Row(p)' = Row(p) /\ Covers(Row(p), LockedAt(p), Owed(p), Unasked(p), FreeAt(p))
    BY <1>5 DEF Row, Calm, Columns
  <2>10. (LockedAt(p) \ S) \cup (Owed(p) \cup S) = LockedAt(p) \cup Owed(p)
    BY <2>2
  <2>11. Covers(Row(p), LockedAt(p) \ S, Owed(p) \cup S, Unasked(p) \cup S, FreeAt(p) \cup S)
    BY <2>9, <2>10 DEF Covers, Authority
  <2> QED
    BY <2>3, <2>4, <2>8, <2>9, <2>11 DEF Columns
<1> QED
  BY <1>8, <1>9, <1>10, <1>11 DEF Calm

\* What a statement changes of what is owed: nothing, but at its own row.
LEMMA FollowsOwes ==
    ASSUME NEW q \in RequestRow, RequestShape(q), q.at = "update", NEW f \in Follows(q)
    PROVE  /\ \A p \in Places : p # q.row \/ q.next = "expires" =>
                  OwedPart(f, p) = OwedPart(q, p) /\ UnaskedPart(f, p) = UnaskedPart(q, p)
           /\ q.next = "unlock" =>
                  /\ OwedPart(q, q.row) = Part(q.picked, q.row) /\ OwedPart(f, q.row) = {}
                  /\ UnaskedPart(f, q.row) = IF Authority(Part(q.picked, q.row)) THEN Part(q.picked, q.row) ELSE {}
           /\ q.next = "authorities" =>
                  OwedPart(q, q.row) = {} /\ OwedPart(f, q.row) = {} /\ UnaskedPart(f, q.row) = {}
<1> DEFINE P == Part(q.picked, q.row)
<1>1. RequestShape(f) /\ q.next \in {"unlock", "authorities", "expires"} /\ None \notin q.left
  BY FollowsTyped, RefreshAssumption DEF RequestRow
<1>2. CASE /\ f.at = "update" /\ f.picked = q.picked /\ f.row = q.row /\ f.left = q.left
           /\ \/ q.next = "unlock" /\ (IF Authority(P) THEN f.next = "authorities" ELSE f.next = "expires")
              \/ q.next = "authorities" /\ f.next = "expires"
  <2>1. \A p \in Places : p # q.row => OwedPart(f, p) = OwedPart(q, p) /\ UnaskedPart(f, p) = UnaskedPart(q, p)
    BY <1>2 DEF OwedPart, UnaskedPart, UnlockDue, AuthDue
  <2>2. ~UnlockDue(f, q.row) /\ (AuthDue(f, q.row) <=> f.next # "expires")
    BY <1>1, <1>2 DEF UnlockDue, AuthDue, RequestShape
  <2>3. (UnlockDue(q, q.row) <=> q.next = "unlock")
    BY <1>1 DEF UnlockDue, RequestShape
  <2> HIDE DEF P
  <2>4. q.next = "unlock" => (AuthDue(f, q.row) <=> Authority(P))
    BY <1>2, <2>2
  <2>5. q.next = "authorities" => ~AuthDue(f, q.row)
    BY <1>2, <2>2
  <2>6. f.picked = q.picked /\ q.next # "expires"
    BY <1>2
  <2> QED
    BY <2>1, <2>2, <2>3, <2>4, <2>5, <2>6 DEF OwedPart, UnaskedPart, P
<1>3. CASE /\ f.at = "update" /\ f.picked = q.picked /\ f.next = "unlock" /\ q.next = "expires" /\ q.row # None
           /\ f.row \in q.left /\ f.left = q.left \ {f.row}
  <2>1. \A p \in Places : UnlockDue(f, p) = UnlockDue(q, p) /\ AuthDue(f, p) = AuthDue(q, p)
    BY <1>1, <1>3 DEF UnlockDue, AuthDue
  <2> QED
    BY <1>3, <2>1 DEF OwedPart, UnaskedPart
<1>4. CASE /\ f.at = "update" /\ f.picked = q.picked /\ f.next = "unlock" /\ q.next = "expires" /\ q.row # None
           /\ f.row = None /\ q.left = {} /\ f.left = {}
  <2>1. \A p \in Places : UnlockDue(f, p) = UnlockDue(q, p) /\ AuthDue(f, p) = AuthDue(q, p)
    BY <1>1, <1>4 DEF UnlockDue, AuthDue
  <2> QED
    BY <1>4, <2>1 DEF OwedPart, UnaskedPart
<1>5. CASE f = NoRequest /\ q.next = "expires" /\ q.row = None
  <2>1. \A p \in Places : ~UnlockDue(f, p) /\ ~UnlockDue(q, p) /\ ~AuthDue(f, p) /\ ~AuthDue(q, p)
    BY <1>5, NothingAsked DEF UnlockDue, AuthDue, RequestShape
  <2> QED
    BY <1>5, <2>1 DEF OwedPart, UnaskedPart
<1> QED
  BY <1>2, <1>3, <1>4, <1>5, FollowsTyped

\* A statement of a request that nobody crossed is in range.
LEMMA StatementInRange ==
    ASSUME Types, Calm, NEW r \in Requests, request[r].at = "update"
    PROVE  InRange(Statement(request[r]))
<1> DEFINE q == request[r]
           P == Part(q.picked, q.row)
<1>1. q \in RequestRow /\ q.row \in Places /\ q.next \in {"unlock", "authorities", "expires"} /\ P \in SUBSET Outputs
  BY Placed DEF Types, RequestRow, Part
<1>2. Row(q.row) \in BalanceRow /\ Row(q.row) \in SignedRow
  BY <1>1, RowsOfPlaces, SignedRows
<1>3. CASE q.next = "unlock"
  <2>1. P \subseteq Owed(q.row)
    BY <1>1, <1>3 DEF Part, Owed, OwedBy, UnlockDue
  <2>2. Row(q.row).locked = Amount(LockedAt(q.row) \cup Owed(q.row)) /\ LockedAt(q.row) \cup Owed(q.row) \in SUBSET Outputs
    BY <1>1, SetsOfPlace DEF Calm, Columns, Covers
  <2>3. Amount(P) <= Amount(LockedAt(q.row) \cup Owed(q.row)) /\ Amount(P) \in Nat
    <3>1. P \in SUBSET (LockedAt(q.row) \cup Owed(q.row))
      BY <2>1
    <3> HIDE DEF P, q
    <3> QED
      BY <2>2, <3>1, AmountLess
  <2>4. Moved(Statement(q), Row(q.row), P)
    BY <1>1, <1>2, <1>3, Statements, UnlockRow
  <2> HIDE DEF P, q
  <2>5. Row(q.row).unlocked \in Nat /\ Row(q.row).locked \in Nat
    BY <1>2 DEF BalanceRow
  <2> QED
    BY <2>2, <2>3, <2>4, <2>5 DEF InRange, Moved, q
<1>4. CASE q.next = "authorities"
  <2>1. PICK b \in BOOLEAN : Statement(q) = [Row(q.row) EXCEPT !.lAuth = b]
    BY <1>1, <1>4, Statements
  <2> QED
    BY <1>2, <2>1 DEF BalanceRow, InRange
<1>5. CASE q.next = "expires"
  <2>1. PICK e \in Nat \cup {None} : Statement(q) = [Row(q.row) EXCEPT !.expires = e]
    BY <1>1, <1>5, Statements
  <2> QED
    BY <1>2, <2>1 DEF BalanceRow, InRange
<1> QED
  BY <1>1, <1>3, <1>4, <1>5

\* What the others owe at a place is not what this request owes.
LEMMA OthersApart ==
    ASSUME Apart, NEW r \in Requests, NEW p
    PROVE  OwedBy(Requests \ {r}, p) \cap Part(request[r].picked, p) = {}
  BY DEF Apart, OwedBy, Part

\* The row at which a request unlocks.
LEMMA CalmUnlocks ==
    ASSUME Types, Calm, NEW r \in Requests, request[r].at = "update", request[r].next = "unlock",
           NEW f \in Follows(request[r]), request' = [request EXCEPT ![r] = f], UNCHANGED <<state, locked>>,
           NEW p \in Places, p = request[r].row, Row(p)' = Statement(request[r])
    PROVE  Columns(p)'
<1> DEFINE q == request[r]
           P == Part(q.picked, p)
<1>1. q \in RequestRow /\ RequestShape(q) /\ P \in SUBSET Outputs
  BY Placed DEF Types, RequestRow, Part
<1>2. Row(p) \in SignedRow
  BY RowsOfPlaces, SignedRows
<1>3. Moved(Row(p)', Row(p), P) /\ Row(p)'.lAuth = Row(p).lAuth /\ Row(p)' \in SignedRow
  BY <1>1, <1>2, Statements, UnlockRow
<1>4. /\ OwedPart(q, p) = P /\ OwedPart(f, p) = {}
      /\ UnaskedPart(f, p) = IF Authority(P) THEN P ELSE {}
  BY <1>1, FollowsOwes
<1>5. UnaskedPart(q, p) = P
  BY DEF UnaskedPart, AuthDue
<1>6. \A x \in Places : Owes(r, f, x)
  BY OwedOthers
<1>7. OwedBy(Requests \ {r}, p) \cap P = {}
  BY OthersApart DEF Calm
<1>8. /\ LockedAt(p) \in SUBSET Outputs /\ FreeAt(p) \in SUBSET Outputs /\ LockedAt(p) \cap FreeAt(p) = {}
      /\ Owed(p) \in SUBSET FreeAt(p) /\ Unasked(p) \in SUBSET FreeAt(p) /\ Covers(Row(p), LockedAt(p), Owed(p), Unasked(p), FreeAt(p))
  BY SetsOfPlace DEF Calm, Columns
<1>9. LockedAt(p)' = LockedAt(p) /\ FreeAt(p)' = FreeAt(p)
  BY DEF LockedAt, Part, LockedUnspent, FreeAt, OutputsOf
<1> HIDE DEF P
<1>10. Owed(p)' = Owed(p) \ P /\ P \in SUBSET Owed(p) /\ P \subseteq FreeAt(p)
  BY <1>4, <1>6, <1>7, <1>8 DEF Owes
<1>11. Unasked(p) \ P \subseteq Unasked(p)' /\ (Authority(P) => Unasked(p) \subseteq Unasked(p)')
  BY <1>4, <1>5, <1>6 DEF Owes
<1>12. Covers(Row(p)', LockedAt(p), Owed(p) \ P, Unasked(p)', FreeAt(p))
  BY <1>2, <1>3, <1>8, <1>10, <1>11, CoversUnlock
<1> QED
  BY <1>9, <1>10, <1>12 DEF Columns

\* The row at which a request asks for the authorities that are still locked.
LEMMA CalmAsks ==
    ASSUME Types, Calm, NEW r \in Requests, request[r].at = "update", request[r].next = "authorities",
           NEW f \in Follows(request[r]), request' = [request EXCEPT ![r] = f], UNCHANGED <<state, locked>>,
           NEW p \in Places, p = request[r].row, Row(p)' = Statement(request[r])
    PROVE  Columns(p)'
<1> DEFINE q == request[r]
<1>1. q \in RequestRow /\ RequestShape(q)
  BY DEF Types
<1>2. Row(p) \in BalanceRow
  BY RowsOfPlaces
<1>3. PICK b \in BOOLEAN : /\ Row(p)' = [Row(p) EXCEPT !.lAuth = b]
                           /\ p = None => (b <=> \E a \in Addresses : Row(a).lAuth)
                           /\ p # None => (b <=> Authority(LockedAt(p)))
  BY <1>1, Statements
<1>4. Row(p)'.locked = Row(p).locked /\ Row(p)'.uAuth = Row(p).uAuth /\ Row(p)'.lAuth = b
  BY <1>2, <1>3 DEF BalanceRow
<1>5. OwedPart(q, p) = {} /\ OwedPart(f, p) = {} /\ UnaskedPart(f, p) = {}
  BY <1>1, FollowsOwes
<1>6. \A x \in Places : Owes(r, f, x)
  BY OwedOthers
<1>7. Owed(p)' = Owed(p) /\ Unasked(p)' = UnaskedBy(Requests \ {r}, p)
  BY <1>5, <1>6 DEF Owes
<1>8. \A x \in Places : Covers(Row(x), LockedAt(x), Owed(x), Unasked(x), FreeAt(x))
  BY DEF Calm, Columns
<1>9. LockedAt(p)' = LockedAt(p) /\ FreeAt(p)' = FreeAt(p)
  BY DEF LockedAt, Part, LockedUnspent, FreeAt, OutputsOf
<1>10. (Authority(LockedAt(p)) => b) /\ (b => Authority(LockedAt(p) \cup Unasked(p)'))
  <2>1. CASE p # None
    BY <1>3, <2>1 DEF Authority
  <2>2. CASE p = None
    <3>1. ASSUME Authority(LockedAt(p)) PROVE b
      <4>1. PICK o \in LockedAt(p) : Out[o].authority /\ o \in Outputs
        BY <2>2, <3>1, Placed DEF Authority, LockedAt, Part
      <4>2. PICK a \in Addresses : o \in LockedAt(a)
        BY <2>2, <4>1, AtAnAddress, Placed DEF LockedAt, Part
      <4>3. Row(a).lAuth
        BY <1>8, <4>1, <4>2 DEF Covers, Authority, Places
      <4> QED
        BY <1>3, <2>2, <4>3
    <3>2. ASSUME b PROVE Authority(LockedAt(p) \cup Unasked(p)')
      <4>1. PICK a \in Addresses : Row(a).lAuth
        BY <1>3, <2>2, <3>2
      <4>2. Authority(LockedAt(a) \cup Unasked(a))
        BY <1>8, <4>1 DEF Covers, Places
      <4>3. PICK o \in LockedAt(a) \cup Unasked(a) : Out[o].authority
        BY <4>2 DEF Authority
      <4>4. o \in LockedAt(a) => o \in LockedAt(p)
        BY <2>2, WalletOwes
      <4>5. o \in Unasked(a) => o \in UnaskedBy(Requests \ {r}, p)
        <5>1. SUFFICES ASSUME o \in Unasked(a) PROVE o \in UnaskedBy(Requests \ {r}, p)
          OBVIOUS
        <5>2. PICK s \in Requests : AuthDue(request[s], a) /\ o \in request[s].picked /\ o \in OutputsOf(a)
          BY <5>1 DEF Unasked, UnaskedBy
        <5>3. s # r /\ AuthDue(request[s], p)
          BY <2>2, <5>2, AddressThenWallet
        <5>4. o \in OutputsOf(p)
          BY <2>2, <5>2, Placed
        <5> QED
          BY <5>2, <5>3, <5>4 DEF UnaskedBy
      <4> QED
        BY <1>7, <4>3, <4>4, <4>5 DEF Authority
    <3> QED
      BY <3>1, <3>2
  <2> QED
    BY <2>1, <2>2
<1>11. Covers(Row(p)', LockedAt(p), Owed(p), Unasked(p)', FreeAt(p))
  BY <1>4, <1>8, <1>10 DEF Covers
<1> QED
  BY <1>7, <1>9, <1>11 DEF Columns

\* Every statement of a request.
LEMMA CalmUpdates ==
    ASSUME Types, Calm, NEW r \in Requests, RequestUpdates(r)
    PROVE  Calm'
<1> DEFINE q == request[r]
<1>1. q \in RequestRow /\ RequestShape(q) /\ q.at = "update" /\ q.row \in Places /\ q.next \in {"unlock", "authorities", "expires"}
  BY DEF RequestUpdates, Types, RequestRow
<1>2. UNCHANGED <<state, locked, daemon>>
  BY DEF RequestUpdates
<1>3. PICK f \in Follows(q) : /\ request' = [request EXCEPT ![r] = f]
                              /\ \A p \in Places : Row(p)' = IF p = q.row THEN Statement(q) ELSE Row(p)
  BY <1>1, RequestWrites, StatementInRange DEF Wrote
<1>4. request'[r] = f /\ \A s \in Requests \ {r} : request'[s] = request[s]
  BY <1>3 DEF Types
<1>5. f = NoRequest \/ (f.at = "update" /\ f.picked = q.picked)
  BY <1>1, FollowsTyped
<1>6. f.picked \subseteq q.picked /\ (f.picked # {} => f.at = "update")
  BY <1>5, NothingAsked
<1>7. Apart' /\ Marked' /\ Held'
  <2>1. Apart'
    BY <1>2, <1>4, <1>6 DEF Calm, Apart
  <2>2. Marked'
    BY <1>1, <1>2, <1>4, <1>6 DEF Calm, Marked
  <2>3. Held'
    BY <1>2 DEF Calm, Held, LockedUnspent
  <2> QED
    BY <2>1, <2>2, <2>3
<1>8. ASSUME NEW p \in Places
      PROVE  Columns(p)'
  <2>1. CASE p = q.row /\ q.next = "unlock"
    <3>1. Row(p)' = Statement(request[r])
      BY <1>3, <2>1
    <3> QED
      BY <1>1, <1>2, <1>3, <2>1, <3>1, CalmUnlocks
  <2>2. CASE p = q.row /\ q.next = "authorities"
    <3>1. Row(p)' = Statement(request[r])
      BY <1>3, <2>2
    <3> QED
      BY <1>1, <1>2, <1>3, <2>2, <3>1, CalmAsks
  <2>3. CASE p # q.row \/ q.next = "expires"
    <3>1. OwedPart(f, p) = OwedPart(q, p) /\ UnaskedPart(f, p) = UnaskedPart(q, p)
      BY <1>1, <2>3, FollowsOwes
    <3>2. Owes(r, f, p)
      BY <1>3, OwedOthers
    <3>3. Row(p)'.locked = Row(p).locked /\ Row(p)'.lAuth = Row(p).lAuth /\ Row(p)'.uAuth = Row(p).uAuth
      <4>1. CASE p = q.row
        <5>1. PICK e \in Nat \cup {None} : Statement(q) = [Row(p) EXCEPT !.expires = e]
          BY <1>1, <2>3, <4>1, Statements
        <5>2. Row(p) \in BalanceRow /\ Row(p)' = Statement(q)
          BY <1>3, <4>1, RowsOfPlaces
        <5> QED
          BY <5>1, <5>2 DEF BalanceRow
      <4>2. CASE p # q.row
        BY <1>3, <4>2
      <4> QED
        BY <4>1, <4>2
    <3>4. Owed(p)' = Owed(p) /\ Unasked(p)' = Unasked(p)
      BY <3>1, <3>2 DEF Owes
    <3>5. Columns(p)
      BY DEF Calm
    <3> QED
      BY <1>2, <3>3, <3>4, <3>5, ColumnsStay
  <2> QED
    BY <1>1, <2>1, <2>2, <2>3
<1> QED
  BY <1>7, <1>8 DEF Calm

---------------------------------------------------------------------------
(* The daemon. *)

\* What the daemon unlocks is owed by nobody, as it is still locked.
LEMMA CoversUnlocked ==
    ASSUME Types, Calm, NEW S \in SUBSET LockedUnspent, NEW p \in Places
    PROVE  Covers(UnlockedAt(S, p), LockedAt(p) \ S, Owed(p), Unasked(p), FreeAt(p) \cup Part(S, p))
<1>1. S \in SUBSET Outputs
  BY DEF LockedUnspent
<1>2. ASSUME NEW x \in Places
      PROVE  /\ Row(x) \in SignedRow /\ UnlockedAt(S, x) \in SignedRow /\ Moved(UnlockedAt(S, x), Row(x), Part(S, x))
             /\ LockedAt(x) \in SUBSET Outputs /\ Owed(x) \in SUBSET Outputs /\ Part(S, x) \in SUBSET LockedAt(x)
             /\ Part(S, x) \cap Owed(x) = {} /\ LockedAt(x) \ Part(S, x) = LockedAt(x) \ S
             /\ Covers(Row(x), LockedAt(x), Owed(x), Unasked(x), FreeAt(x))
             /\ ~Authority(Part(S, x)) => UnlockedAt(S, x).lAuth = Row(x).lAuth
  <2>1. Row(x) \in SignedRow
    BY RowsOfPlaces, SignedRows
  <2>2. /\ UnlockedAt(S, x) \in SignedRow /\ Moved(UnlockedAt(S, x), Row(x), Part(S, x))
        /\ ~Authority(Part(S, x)) => UnlockedAt(S, x).lAuth = Row(x).lAuth
    BY <1>1, UnlockedPlaces DEF UnlockedPlace
  <2>3. LockedAt(x) \in SUBSET Outputs /\ FreeAt(x) \in SUBSET Outputs /\ LockedAt(x) \cap FreeAt(x) = {} /\ Owed(x) \in SUBSET FreeAt(x)
    BY SetsOfPlace DEF Calm
  <2>4. Part(S, x) \in SUBSET LockedAt(x) /\ LockedAt(x) \ Part(S, x) = LockedAt(x) \ S
    BY DEF LockedAt, Part
  <2>5. Covers(Row(x), LockedAt(x), Owed(x), Unasked(x), FreeAt(x))
    BY DEF Calm, Columns
  <2> QED
    BY <2>1, <2>2, <2>3, <2>4, <2>5
\* The authorities that are left are looked up, unless none was unlocked.
<1>3. ASSUME NEW a \in Addresses
      PROVE  /\ Authority(LockedAt(a) \ S) => UnlockedAt(S, a).lAuth
             /\ UnlockedAt(S, a).lAuth => Authority((LockedAt(a) \ S) \cup Unasked(a))
  <2>1. a \in Places /\ a # None
    BY RefreshAssumption DEF Places
  <2>2. CASE Authority(Part(S, a))
    <3>1. UnlockedAt(S, a).lAuth = Authority(LockedAt(a) \ S)
      BY <1>1, <2>1, <2>2, UnlockedPlaces DEF UnlockedPlace
    <3> QED
      BY <3>1 DEF Authority
  <2>3. CASE ~Authority(Part(S, a))
    BY <1>2, <2>1, <2>3 DEF Covers, Authority
  <2> QED
    BY <2>2, <2>3
<1>4. CASE p # None
  <2>1. p \in Addresses
    BY <1>4 DEF Places
  <2>2. Covers(UnlockedAt(S, p), LockedAt(p) \ Part(S, p), Owed(p), Unasked(p), FreeAt(p) \cup Part(S, p))
    BY <1>2, <1>3, <2>1, CoversRelease
  <2> QED
    BY <1>2, <2>2
<1>5. CASE p = None
  <2>1. /\ Authority(LockedAt(p) \ S) => UnlockedAt(S, p).lAuth
        /\ UnlockedAt(S, p).lAuth => Authority((LockedAt(p) \ S) \cup Unasked(p))
    <3>1. CASE ~Authority(Part(S, p))
      BY <1>2, <3>1 DEF Covers, Authority
    <3>2. CASE Authority(Part(S, p))
      <4>1. UnlockedAt(S, p).lAuth = \E a \in Addresses : UnlockedAt(S, a).lAuth
        BY <1>1, <1>5, <3>2, UnlockedPlaces DEF UnlockedPlace
      <4>2. ASSUME Authority(LockedAt(p) \ S) PROVE UnlockedAt(S, p).lAuth
        <5>1. PICK o \in LockedAt(p) \ S : Out[o].authority
          BY <4>2 DEF Authority
        <5>2. PICK a \in Addresses : o \in LockedAt(a) \ S
          BY <1>5, <5>1, AtAnAddress, Placed DEF LockedAt, Part
        <5>3. UnlockedAt(S, a).lAuth
          BY <1>3, <5>1, <5>2 DEF Authority
        <5> QED
          BY <4>1, <5>3
      <4>3. ASSUME UnlockedAt(S, p).lAuth PROVE Authority((LockedAt(p) \ S) \cup Unasked(p))
        <5>1. PICK a \in Addresses : UnlockedAt(S, a).lAuth
          BY <4>1, <4>3
        <5>2. Authority((LockedAt(a) \ S) \cup Unasked(a))
          BY <1>3, <5>1
        <5> QED
          BY <1>5, <5>2, WalletOwes DEF Authority
      <4> QED
        BY <4>2, <4>3
    <3> QED
      BY <3>1, <3>2
  <2>2. Covers(UnlockedAt(S, p), LockedAt(p) \ Part(S, p), Owed(p), Unasked(p), FreeAt(p) \cup Part(S, p))
    <3>1. /\ Authority(LockedAt(p) \ Part(S, p)) => UnlockedAt(S, p).lAuth
          /\ UnlockedAt(S, p).lAuth => Authority((LockedAt(p) \ Part(S, p)) \cup Unasked(p))
      BY <1>2, <2>1
    <3> QED
      BY <1>2, <3>1, CoversRelease
  <2> QED
    BY <1>2, <2>2
<1> QED
  BY <1>4, <1>5

\* The two columns once S is unlocked: the locked one is what is still locked or owed,
\* the other what else is unspent.
LEMMA ColumnsUnlocked ==
    ASSUME Types, Calm, NEW S \in SUBSET LockedUnspent, NEW p \in Places, Balanced(p)
    PROVE  \E R \in SUBSET Outputs :
               /\ UnlockedAt(S, p).locked \in Nat /\ UnlockedAt(S, p).unlocked = Amount(R)
               /\ \A o \in UnspentOf(p) \ (LockedAt(p) \ S) : o \notin Owed(p) => o \in R
<1> DEFINE K == (LockedAt(p) \ S) \cup Owed(p)
           R == UnspentOf(p) \ K
<1>1. S \in SUBSET Outputs /\ Part(S, p) \in SUBSET Outputs
  BY DEF LockedUnspent, Part
<1>2. UnspentOf(p) \in SUBSET Outputs /\ K \in SUBSET UnspentOf(p) /\ R \in SUBSET Outputs
  BY SetsOfPlace DEF Calm
<1>3. UnlockedAt(S, p).locked = Amount(K)
  BY CoversUnlocked DEF Covers
<1>4. Row(p) \in SignedRow /\ UnlockedAt(S, p) \in SignedRow
  BY <1>1, RowsOfPlaces, SignedRows, UnlockedPlaces DEF UnlockedPlace
<1>5. UnlockedAt(S, p).unlocked + UnlockedAt(S, p).locked = Amount(UnspentOf(p))
  <2>1. Moved(UnlockedAt(S, p), Row(p), Part(S, p))
    BY <1>1, UnlockedPlaces DEF UnlockedPlace
  <2>2. UnlockedAt(S, p).unlocked + UnlockedAt(S, p).locked = Row(p).unlocked + Row(p).locked
    BY <1>1, <1>4, <2>1, MovedKeeps
  <2> QED
    BY <2>2 DEF Balanced
<1>6. Amount(R) = Amount(UnspentOf(p)) - Amount(K) /\ Amount(K) \in Nat /\ Amount(UnspentOf(p)) \in Nat
  <2> HIDE DEF K
  <2> QED
    BY <1>2, AmountLess
<1>7. UnlockedAt(S, p).unlocked \in Int
  BY <1>4 DEF SignedRow
<1>8. UnlockedAt(S, p).locked \in Nat /\ UnlockedAt(S, p).unlocked = Amount(R)
  <2> HIDE DEF K, R
  <2> QED
    BY <1>3, <1>5, <1>6, <1>7
<1>9. \A o \in UnspentOf(p) \ (LockedAt(p) \ S) : o \notin Owed(p) => o \in R
  OBVIOUS
<1> HIDE DEF R
<1> QED
  BY <1>2, <1>8, <1>9

\* No statement of a transaction that nobody crossed goes out of range.
LEMMA DaemonFits ==
    ASSUME Types, Calm, \A p \in Places : Balanced(p), daemon.open
    PROVE  Fits
<1> DEFINE S == daemon.picked
<1>1. S \in SUBSET LockedUnspent /\ S \in SUBSET Outputs
  BY DEF Calm, Held, LockedUnspent
<1>2. ASSUME NEW p \in Places
      PROVE  InRange(UnlockedAt(S, p))
  <2>1. PICK R \in SUBSET Outputs : UnlockedAt(S, p).locked \in Nat /\ UnlockedAt(S, p).unlocked = Amount(R)
    BY <1>1, ColumnsUnlocked
  <2> QED
    BY <2>1, AmountNat DEF InRange
<1>3. CASE daemon.kind = "accept"
  BY <1>3 DEF Fits
<1>4. CASE daemon.kind = "block"
  <2>1. \A a \in Addresses : InRange(AddressesUnlocked(S)[a])
    BY <1>2, RefreshAssumption DEF UnlockedAt, Places
  <2>2. InRange(WalletUnlocked(S))
    BY <1>2 DEF UnlockedAt, Places
  <2> QED
    BY <1>4, <2>1, <2>2 DEF Fits
<1>5. CASE daemon.kind = "spend"
  <2> DEFINE o == daemon.output
             a == Out[o].address
  <2>1. /\ o \in Outputs /\ state[o] = "unspent" /\ S \subseteq {o} /\ daemon.touched = {o}
        /\ a \in Addresses /\ a # None /\ a \in Places /\ None \in Places
        /\ o \in OutputsOf(a) /\ o \in OutputsOf(None)
    BY <1>5, RefreshAssumption DEF Types, DaemonShape, Calm, Held, Places, OutputsOf, At
  <2>2. ASSUME NEW p \in Places, o \in OutputsOf(p), NEW b \in BOOLEAN
        PROVE  InRange(Debited(UnlockedAt(S, p), o, b))
    <3>1. PICK R \in SUBSET Outputs :
              /\ UnlockedAt(S, p).locked \in Nat /\ UnlockedAt(S, p).unlocked = Amount(R)
              /\ \A x \in UnspentOf(p) \ (LockedAt(p) \ S) : x \notin Owed(p) => x \in R
      BY <1>1, ColumnsUnlocked
    <3>2. o \in UnspentOf(p) /\ o \notin Owed(p)
      BY <2>1, <2>2 DEF UnspentOf, Owed, OwedBy, Calm, Apart
    <3>3. o \notin LockedAt(p) \ S
      BY <2>1 DEF LockedAt, Part, Calm, Held
    <3>4. o \in R
      BY <3>1, <3>2, <3>3
    <3>5. Amount(R) = Amount(R \ {o}) + Out[o].value /\ Amount(R \ {o}) \in Nat /\ Out[o].value \in Nat
      <4>1. R \ {o} \in SUBSET Outputs /\ o \notin R \ {o} /\ (R \ {o}) \cup {o} = R
        BY <3>4
      <4>2. Amount((R \ {o}) \cup {o}) = Amount(R \ {o}) + Out[o].value
        BY <2>1, <4>1, AmountAdd
      <4> QED
        BY <2>1, <4>1, <4>2, AmountNat, RefreshAssumption
    <3>6. UnlockedAt(S, p) \in SignedRow
      BY <1>1, UnlockedPlaces DEF UnlockedPlace
    <3>7. DebitedAs(Debited(UnlockedAt(S, p), o, b), UnlockedAt(S, p), o, b)
      BY <2>1, <2>2, <3>6, DebitedRow
    <3> HIDE DEF o, S
    <3> QED
      BY <3>1, <3>5, <3>7 DEF DebitedAs, InRange
  <2> DEFINE b == Authority({x \in At(Outputs, a) \ {o} : state[x] = "unspent" /\ ~locked[x]})
             d == SpentAt(o).uAuth \/ \E c \in Addresses \ {a} : addressBalance[c].uAuth
  <2>3. b \in BOOLEAN
    BY DEF Authority
  <2>4. d \in BOOLEAN
    <3>1. SpentAt(o).uAuth \in BOOLEAN
      <4>1. UnlockedAt(S, a) \in SignedRow
        BY <1>1, <2>1, UnlockedPlaces DEF UnlockedPlace
      <4>2. SpentAt(o) = Debited(UnlockedAt(S, a), o, b)
        BY <2>1, Zenon DEF SpentAt, UnlockedAt
      <4> HIDE DEF b, o, a, S
      <4>3. DebitedAs(Debited(UnlockedAt(S, a), o, b), UnlockedAt(S, a), o, b)
        BY <2>1, <2>3, <4>1, DebitedRow
      <4> QED
        BY <4>2, <4>3 DEF DebitedAs, SignedRow
    <3> QED
      BY <3>1
  <2>5. SpentAt(o) = Debited(UnlockedAt(S, a), o, b) /\ SpentInWallet(o) = Debited(UnlockedAt(S, None), o, d)
    BY <2>1, Zenon DEF SpentAt, SpentInWallet, UnlockedAt
  <2> HIDE DEF b, d, o, a, S
  <2>6. InRange(SpentAt(o)) /\ InRange(SpentInWallet(o))
    BY <2>1, <2>2, <2>3, <2>4, <2>5
  <2> QED
    BY <1>5, <2>6 DEF Fits, o
<1>6. daemon.kind \in {"accept", "spend", "block"}
  BY DEF Types, DaemonShape, DaemonRow
<1> QED
  BY <1>3, <1>4, <1>5, <1>6

\* What the requests have picked is there after the daemon's transaction as before it.
LEMMA CommitApart ==
    ASSUME Types, Calm, daemon' = NoEvent, UNCHANGED request,
           \A o \in Outputs : state[o] = "unspent" /\ o \notin daemon.touched =>
               state'[o] = "unspent" /\ locked'[o] = locked[o]
    PROVE  Apart' /\ Marked' /\ Held'
<1>1. NoEvent.touched = {} /\ NoEvent.picked = {} /\ NoEvent.open = FALSE /\ NoEvent.kind = "none"
  BY DEF NoEvent
<1>2. Apart'
  BY <1>1 DEF Calm, Apart
<1>3. Held'
  BY <1>1 DEF Held
<1>4. ASSUME NEW r \in Requests, NEW o \in request[r].picked
      PROVE  state'[o] = "unspent" /\ (locked'[o] <=> request[r].at = "mark")
  <2>1. o \in Outputs /\ o \notin daemon.touched /\ state[o] = "unspent" /\ (locked[o] <=> request[r].at = "mark")
    BY <1>4 DEF Calm, Apart, Marked, Types, RequestRow
  <2> QED
    BY <2>1
<1>5. Marked'
  BY <1>4 DEF Marked
<1> QED
  BY <1>2, <1>3, <1>5

\* The sets of a place after a step.
LEMMA SetsAfter ==
    ASSUME NEW p \in Places
    PROVE  /\ LockedAt(p)' = {o \in OutputsOf(p) : state'[o] = "unspent" /\ locked'[o]}
           /\ FreeAt(p)' = {o \in OutputsOf(p) : state'[o] = "unspent" /\ ~locked'[o]}
<1>1. OutputsOf(p) \in SUBSET Outputs
  BY Placed
<1>2. OutputsOf(p)' = OutputsOf(p)
  BY DEF OutputsOf
<1> QED
  BY <1>1, <1>2 DEF LockedAt, FreeAt, Part, LockedUnspent

\* An output arrives.
LEMMA CalmAccepts ==
    ASSUME Types, Calm, NEW o \in Outputs, state[o] = "absent", Accepts(o), UNCHANGED request, NEW p \in Places
    PROVE  Columns(p)'
<1> DEFINE b == markLockedOutputs(o, daemon.now)
<1>1. b \in BOOLEAN
  BY DEF markLockedOutputs
<1>2. /\ state' = [state EXCEPT ![o] = "unspent"] /\ locked' = [locked EXCEPT ![o] = b]
      /\ state \in [Outputs -> {"absent", "unspent", "spent"}] /\ locked \in [Outputs -> BOOLEAN]
  BY DEF Accepts, Types, RowsTyped
<1>3. /\ OutputsOf(p) \in SUBSET Outputs
      /\ LockedAt(p) = {x \in OutputsOf(p) : state[x] = "unspent" /\ locked[x]}
      /\ LockedAt(p) \in SUBSET Outputs /\ FreeAt(p) \in SUBSET Outputs /\ Owed(p) \in SUBSET FreeAt(p)
  BY SetsOfPlace DEF Calm
<1>4. Owed(p)' = Owed(p) /\ Unasked(p)' = Unasked(p)
  BY OwedSame
<1>5. o \notin LockedAt(p) /\ o \notin FreeAt(p)
  BY <1>3 DEF FreeAt
<1> HIDE DEF b
<1>6. \A x \in OutputsOf(p) : /\ state'[x] = IF x = o THEN "unspent" ELSE state[x]
                              /\ locked'[x] = IF x = o THEN b ELSE locked[x]
  BY <1>2, <1>3
<1>7. Covers(Row(p), LockedAt(p), Owed(p), Unasked(p), FreeAt(p)) /\ Row(p) \in BalanceRow
  BY RowsOfPlaces DEF Calm, Columns
<1>8. CASE o \in OutputsOf(p)
  <2>1. CreditedAs(Row(p)', Row(p), o, b)
    BY <1>8, AcceptedPlaces DEF b
  <2>2. IF b THEN Covers(Row(p)', LockedAt(p) \cup {o}, Owed(p), Unasked(p), FreeAt(p))
        ELSE Covers(Row(p)', LockedAt(p), Owed(p), Unasked(p), FreeAt(p) \cup {o})
    BY <1>1, <1>3, <1>5, <1>7, <2>1, CoversCredit
  <2>3. /\ LockedAt(p)' = IF b THEN LockedAt(p) \cup {o} ELSE LockedAt(p)
        /\ FreeAt(p)' = IF b THEN FreeAt(p) ELSE FreeAt(p) \cup {o}
    BY <1>1, <1>3, <1>5, <1>6, <1>8, SetsAfter DEF FreeAt
  <2> QED
    BY <1>4, <2>2, <2>3 DEF Columns
<1>9. CASE o \notin OutputsOf(p)
  <2>1. Row(p)' = Row(p)
    BY <1>9, AcceptedPlaces
  <2>2. LockedAt(p)' = LockedAt(p) /\ FreeAt(p)' = FreeAt(p)
    BY <1>3, <1>6, <1>9, SetsAfter DEF FreeAt
  <2> QED
    BY <1>4, <1>7, <2>1, <2>2 DEF Columns
<1> QED
  BY <1>8, <1>9

\* A block unlocks.
LEMMA CalmBlock ==
    ASSUME Types, Calm, NEW S \in SUBSET LockedUnspent, NewBlock(S), UNCHANGED request, NEW p \in Places
    PROVE  Columns(p)'
<1>1. state' = state /\ locked' = [x \in Outputs |-> locked[x] /\ x \notin S]
  BY DEF NewBlock
<1>2. OutputsOf(p) \in SUBSET Outputs /\ LockedAt(p) = {x \in OutputsOf(p) : state[x] = "unspent" /\ locked[x]}
  BY SetsOfPlace DEF Calm
<1>3. LockedAt(p)' = LockedAt(p) \ S /\ FreeAt(p)' = FreeAt(p) \cup Part(S, p)
  BY <1>1, <1>2, SetsAfter DEF FreeAt, Part, LockedUnspent
<1>4. Row(p)' = UnlockedAt(S, p)
  BY BlockPlaces
<1>5. Covers(UnlockedAt(S, p), LockedAt(p) \ S, Owed(p), Unasked(p), FreeAt(p) \cup Part(S, p))
  BY CoversUnlocked
<1>6. Owed(p)' = Owed(p) /\ Unasked(p)' = Unasked(p)
  BY OwedSame
<1> QED
  BY <1>3, <1>4, <1>5, <1>6 DEF Columns

\* An output is spent: at its address the authorities that are left are looked up in
\* tx_output, in the wallet among its addresses.
LEMMA CalmSpends ==
    ASSUME Types, Calm, NEW o \in Outputs, state[o] = "unspent", Spends(o), UNCHANGED request,
           daemon.picked = {o} \cap LockedUnspent, daemon.touched = {o}
    PROVE  \A p \in Places : Columns(p)'
<1> DEFINE S == daemon.picked
<1>1. /\ state' = [state EXCEPT ![o] = "spent"] /\ locked' = [locked EXCEPT ![o] = FALSE]
      /\ state \in [Outputs -> {"absent", "unspent", "spent"}] /\ locked \in [Outputs -> BOOLEAN]
  BY DEF Spends, Types, RowsTyped
<1>2. ASSUME NEW p \in Places
      PROVE  /\ OutputsOf(p) \in SUBSET Outputs
             /\ Owed(p)' = Owed(p) /\ Unasked(p)' = Unasked(p) /\ o \notin Owed(p)
             /\ LockedAt(p)' = LockedAt(p) \ {o} /\ FreeAt(p)' = FreeAt(p) \ {o} /\ LockedAt(p) \ {o} = LockedAt(p) \ S
             /\ o \in OutputsOf(p) => (FreeAt(p) \cup Part(S, p)) \ {o} = FreeAt(p) \ {o}
             /\ o \notin OutputsOf(p) => LockedAt(p) \ {o} = LockedAt(p) /\ FreeAt(p) \ {o} = FreeAt(p)
  <2>1. OutputsOf(p) \in SUBSET Outputs /\ LockedAt(p) = {x \in OutputsOf(p) : state[x] = "unspent" /\ locked[x]}
    BY SetsOfPlace DEF Calm
  <2>2. Owed(p)' = Owed(p) /\ Unasked(p)' = Unasked(p)
    BY OwedSame
  <2>3. o \notin Owed(p)
    BY DEF Owed, OwedBy, Calm, Apart
  <2>4. \A x \in OutputsOf(p) : /\ state'[x] = IF x = o THEN "spent" ELSE state[x]
                                /\ locked'[x] = IF x = o THEN FALSE ELSE locked[x]
    BY <1>1, <2>1
  <2>5. LockedAt(p)' = LockedAt(p) \ {o} /\ FreeAt(p)' = FreeAt(p) \ {o}
    BY <2>1, <2>4, SetsAfter DEF FreeAt
  <2>6. LockedAt(p) \ {o} = LockedAt(p) \ S
    BY <2>1 DEF LockedUnspent
  <2> QED
    BY <2>1, <2>2, <2>3, <2>5, <2>6 DEF Part, FreeAt
<1>3. S \in SUBSET LockedUnspent
  OBVIOUS
<1> HIDE DEF S
<1>4. ASSUME NEW p \in Places, o \notin OutputsOf(p)
      PROVE  Columns(p)'
  <2>1. Row(p)' = Row(p)
    BY <1>4, SpentPlaces
  <2>2. Columns(p)
    BY DEF Calm
  <2>3. Covers(Row(p)', LockedAt(p)', Owed(p)', Unasked(p)', FreeAt(p)')
    BY <1>2, <1>4, <2>1, <2>2 DEF Columns
  <2> QED
    BY <2>3 DEF Columns
\* The debit, once the authorities that are left are found.
<1>5. ASSUME NEW p \in Places, o \in OutputsOf(p), NEW b \in BOOLEAN,
             DebitedAs(Row(p)', UnlockedAt(S, p), o, b),
             b => Authority(FreeAt(p)'), Authority(FreeAt(p)' \ Owed(p)) => b
      PROVE  Columns(p)'
  <2>1. Covers(UnlockedAt(S, p), LockedAt(p) \ S, Owed(p), Unasked(p), FreeAt(p) \cup Part(S, p))
    BY <1>3, CoversUnlocked
  <2>2. FreeAt(p)' = (FreeAt(p) \cup Part(S, p)) \ {o}
    BY <1>2, <1>5
  <2>3. Covers(Row(p)', LockedAt(p) \ S, Owed(p), Unasked(p), (FreeAt(p) \cup Part(S, p)) \ {o})
    <3> DEFINE F == FreeAt(p) \cup Part(S, p)
               W == Owed(p)
               row == UnlockedAt(S, p)
    <3>1. (b => Authority(F \ {o})) /\ (Authority((F \ {o}) \ W) => b)
      BY <1>5, <2>2
    <3>2. DebitedAs(Row(p)', row, o, b) /\ Covers(row, LockedAt(p) \ S, W, Unasked(p), F)
      BY <1>5, <2>1
    <3> HIDE DEF F, W, row
    <3>3. Covers(Row(p)', LockedAt(p) \ S, W, Unasked(p), F \ {o})
      BY <3>1, <3>2, CoversDebit
    <3> QED
      BY <3>3 DEF F, W
  <2>4. Covers(Row(p)', LockedAt(p)', Owed(p)', Unasked(p)', FreeAt(p)')
    BY <1>2, <2>2, <2>3
  <2> QED
    BY <2>4 DEF Columns
<1>6. ASSUME NEW a \in Addresses
      PROVE  Columns(a)'
  <2>1. a \in Places /\ a # None
    BY RefreshAssumption DEF Places
  <2>2. CASE o \in OutputsOf(a)
    <3>1. PICK b \in BOOLEAN : DebitedAs(Row(a)', UnlockedAt(S, a), o, b) /\ (b <=> Authority(StillUnlocked(a, o)))
      BY <2>1, <2>2, SpentPlaces DEF S
    <3>2. StillUnlocked(a, o) = FreeAt(a)'
      BY <1>2, <2>1 DEF StillUnlocked, FreeAt
    <3>3. Authority(FreeAt(a)' \ Owed(a)) => Authority(FreeAt(a)')
      BY DEF Authority
    <3> QED
      BY <1>5, <2>1, <2>2, <3>1, <3>2, <3>3
  <2> QED
    BY <1>4, <2>1, <2>2
<1>7. Columns(None)'
  <2>1. None \in Places /\ o \in OutputsOf(None)
    BY Placed DEF Places
  <2>2. PICK b \in BOOLEAN : DebitedAs(Row(None)', UnlockedAt(S, None), o, b) /\ (b <=> \E a \in Addresses : Row(a)'.uAuth)
    BY <2>1, SpentPlaces DEF S
  <2>3. \A a \in Addresses : /\ Owed(a) \subseteq Owed(None) /\ FreeAt(a)' \subseteq FreeAt(None)'
                             /\ Covers(Row(a)', LockedAt(a)', Owed(a), Unasked(a), FreeAt(a)')
    <3> SUFFICES ASSUME NEW a \in Addresses
                 PROVE  /\ Owed(a) \subseteq Owed(None) /\ FreeAt(a)' \subseteq FreeAt(None)'
                        /\ Covers(Row(a)', LockedAt(a)', Owed(a), Unasked(a), FreeAt(a)')
      OBVIOUS
    <3>1. a \in Places
      BY DEF Places
    <3>2. Covers(Row(a)', LockedAt(a)', Owed(a)', Unasked(a)', FreeAt(a)')
      BY <1>6 DEF Columns
    <3> QED
      BY <1>2, <2>1, <3>1, <3>2, WalletOwes
  <2>4. ASSUME b PROVE Authority(FreeAt(None)')
    <3>1. PICK a \in Addresses : Row(a)'.uAuth
      BY <2>2, <2>4
    <3>2. Authority(FreeAt(a)')
      BY <2>3, <3>1 DEF Covers
    <3> QED
      BY <2>3, <3>2 DEF Authority
  <2>5. ASSUME Authority(FreeAt(None)' \ Owed(None)) PROVE b
    <3>1. PICK x \in FreeAt(None)' \ Owed(None) : Out[x].authority
      BY <2>5 DEF Authority
    <3>2. x \in FreeAt(None) /\ x # o /\ FreeAt(None) \in SUBSET Outputs
      BY <1>2, <2>1, <3>1, Placed DEF FreeAt
    <3>3. PICK a \in Addresses : x \in FreeAt(a)
      BY <3>2, AtAnAddress DEF FreeAt
    <3>4. x \in FreeAt(a)' /\ x \notin Owed(a)
      BY <1>2, <2>3, <3>1, <3>2, <3>3 DEF Places
    <3>5. Row(a)'.uAuth
      BY <2>3, <3>1, <3>4 DEF Covers, Authority
    <3> QED
      BY <2>2, <3>5
  <2> QED
    BY <1>5, <2>1, <2>2, <2>4, <2>5
<1> QED
  BY <1>6, <1>7 DEF Places

\* The daemon's transaction.
LEMMA CalmCommits ==
    ASSUME Types, Calm, DaemonCommits
    PROVE  Calm'
<1>1. daemon' = NoEvent /\ request' = request /\ daemon.open
  BY DEF DaemonCommits
<1>2. PICK o : o = daemon.output
  OBVIOUS
<1>3. PICK S : S = daemon.picked
  OBVIOUS
<1>4. /\ S = daemon.touched \cap LockedUnspent /\ S \in SUBSET LockedUnspent
      /\ state \in [Outputs -> {"absent", "unspent", "spent"}] /\ locked \in [Outputs -> BOOLEAN]
  BY <1>3 DEF Calm, Held, Types, RowsTyped
<1>5. CASE daemon.kind = "accept" /\ o \in Outputs /\ state[o] = "absent" /\ Accepts(o)
  <2>1. \A x \in Outputs : state[x] = "unspent" /\ x \notin daemon.touched =>
            state'[x] = "unspent" /\ locked'[x] = locked[x]
    BY <1>4, <1>5 DEF Accepts
  <2>2. Apart' /\ Marked' /\ Held'
    BY <1>1, <2>1, CommitApart
  <2>3. \A p \in Places : Columns(p)'
    BY <1>1, <1>5, CalmAccepts
  <2> QED
    BY <2>2, <2>3 DEF Calm
<1>6. CASE daemon.kind = "spend" /\ o \in Outputs /\ state[o] = "unspent" /\ Spends(o)
  <2>1. daemon.touched = {o} /\ daemon.picked = {o} \cap LockedUnspent
    BY <1>1, <1>2, <1>6 DEF Calm, Held
  <2>2. \A x \in Outputs : state[x] = "unspent" /\ x \notin daemon.touched =>
            state'[x] = "unspent" /\ locked'[x] = locked[x]
    BY <1>4, <1>6, <2>1 DEF Spends
  <2>3. Apart' /\ Marked' /\ Held'
    BY <1>1, <2>2, CommitApart
  <2>4. \A p \in Places : Columns(p)'
    BY <1>1, <1>6, <2>1, CalmSpends
  <2> QED
    BY <2>3, <2>4 DEF Calm
<1>7. CASE daemon.kind = "block" /\ NewBlock(S)
  <2>1. \A x \in Outputs : state[x] = "unspent" /\ x \notin daemon.touched =>
            state'[x] = "unspent" /\ locked'[x] = locked[x]
    BY <1>4, <1>7 DEF NewBlock
  <2>2. Apart' /\ Marked' /\ Held'
    BY <1>1, <2>1, CommitApart
  <2>3. \A p \in Places : Columns(p)'
    BY <1>1, <1>4, <1>7, CalmBlock
  <2> QED
    BY <2>2, <2>3 DEF Calm
<1> QED
  BY <1>2, <1>3, <1>5, <1>6, <1>7, CommitCases

---------------------------------------------------------------------------
(* The columns of an undisturbed wallet. *)

\* Nothing is locked, owed or unlocked at first.
LEMMA CalmInit ==
    ASSUME Init
    PROVE  Calm
<1>1. Types
  BY TypesInit
<1>2. Apart /\ Marked /\ Held
  BY DEF Init, NoRequest, NoEvent, Apart, Marked, Held
<1>3. ASSUME NEW p \in Places
      PROVE  Columns(p)
  <2>1. LockedAt(p) = {} /\ FreeAt(p) = {} /\ Owed(p) = {} /\ Unasked(p) = {}
    <3>1. LockedAt(p) \in SUBSET UnspentOf(p) /\ FreeAt(p) \in SUBSET UnspentOf(p)
          /\ Owed(p) \in SUBSET FreeAt(p) /\ Unasked(p) \in SUBSET FreeAt(p)
      BY <1>1, <1>2, SetsOfPlace
    <3>2. UnspentOf(p) = {}
      BY Placed DEF Init, UnspentOf
    <3> QED
      BY <3>1, <3>2
  <2>2. Row(p).locked = 0 /\ Row(p).uAuth = FALSE /\ Row(p).lAuth = FALSE
    BY DEF Init, Row, Places, NoBalance
  <2>3. Amount({} \cup {}) = 0 /\ ~Authority({}) /\ ~Authority({} \cup {}) /\ ~Authority({} \ {})
    BY AmountEmpty DEF Authority
  <2> QED
    BY <2>1, <2>2, <2>3 DEF Columns, Covers
<1> QED
  BY <1>2, <1>3 DEF Calm

\* Every step of an undisturbed run.
LEMMA CalmNext ==
    ASSUME Types, Calm, \A p \in Places : Balanced(p), [Next]_vars, ~crossed', failures' = 0
    PROVE  Calm'
<1>1. CASE UNCHANGED <<rows, request, daemon>>
  <2>1. Apart' /\ Marked' /\ Held'
    BY <1>1 DEF Calm, Apart, Marked, Held, LockedUnspent, rows
  <2>2. ASSUME NEW p \in Places
        PROVE  Columns(p)'
    <3>1. Row(p)' = Row(p) /\ UNCHANGED <<state, locked>> /\ Columns(p)
      BY <1>1 DEF Row, rows, Calm
    <3>2. Owed(p)' = Owed(p) /\ Unasked(p)' = Unasked(p)
      BY <1>1, OwedSame
    <3> QED
      BY <3>1, <3>2, ColumnsStay
  <2> QED
    BY <2>1, <2>2 DEF Calm
<1>2. ASSUME NEW r \in Requests, RequestReads(r)
      PROVE  Calm'
  <2> DEFINE q == [NoRequest EXCEPT !.at = "select", !.height = height]
  <2>1. request' = [request EXCEPT ![r] = q] /\ UNCHANGED <<rows, daemon>> /\ request[r].at = "idle"
    BY <1>2 DEF RequestReads
  <2>2. height \in Nat
    BY RefreshAssumption DEF Types, RowsTyped
  <2>3. q \in RequestRow /\ q.at = "select" /\ q.picked = {}
    BY <2>2 DEF NoRequest, RequestRow, Places
  <2> HIDE DEF q
  <2> QED
    BY <2>1, <2>3, CalmRequest
<1>3. ASSUME NEW r \in Requests, RequestSelects(r)
      PROVE  Calm'
  BY <1>3, CalmSelects
<1>4. ASSUME NEW r \in Requests, RequestMarks(r)
      PROVE  Calm'
  BY <1>4, CalmMarks
<1>5. ASSUME NEW r \in Requests, RequestUpdates(r)
      PROVE  Calm'
  BY <1>5, CalmUpdates
\* A request that dies is a failure.
<1>6. ASSUME NEW r \in Requests, RequestDies(r)
      PROVE  FALSE
  BY <1>6 DEF RequestDies, Types
<1>7. ASSUME NEW kind \in {"accept", "spend", "block"}, NEW o \in Outputs \cup {None}, DaemonReads(kind, o)
      PROVE  Calm'
  <2>1. /\ daemon'.kind = kind /\ daemon'.output = o /\ daemon'.open
        /\ daemon'.picked = Unlocks(kind, o) /\ daemon'.touched = Touches(kind, o)
        /\ UNCHANGED <<rows, request>> /\ Arrives(kind, o)
    BY <1>7 DEF DaemonReads
  <2>2. \A s \in UnlockingNow : request[s].picked \cap Touches(kind, o) = {}
    BY <1>7 DEF DaemonReads
  <2>3. \A s \in Requests : request[s].picked # {} => s \in UnlockingNow
    BY DEF Types, RequestShape, UnlockingNow
  <2>4. Apart'
    BY <2>1, <2>2, <2>3 DEF Calm, Apart
  <2>5. Marked'
    BY <2>1 DEF Calm, Marked, rows
  <2>6. Held'
    <3>1. Unlocks(kind, o) = Touches(kind, o) \cap LockedUnspent /\ (kind = "spend" => Touches(kind, o) = {o})
      BY <2>1, PickedAreOutputs
    <3>2. LockedUnspent' = LockedUnspent
      BY <2>1 DEF LockedUnspent, rows
    <3> QED
      BY <2>1, <3>1, <3>2 DEF Held
  <2>7. ASSUME NEW p \in Places
        PROVE  Columns(p)'
    <3>1. Row(p)' = Row(p) /\ UNCHANGED <<state, locked>> /\ Columns(p) /\ request' = request
      BY <2>1 DEF Row, rows, Calm
    <3>2. Owed(p)' = Owed(p) /\ Unasked(p)' = Unasked(p)
      BY <3>1, OwedSame
    <3> QED
      BY <3>1, <3>2, ColumnsStay
  <2> QED
    BY <2>4, <2>5, <2>6, <2>7 DEF Calm
<1>8. CASE DaemonCommits
  BY <1>8, CalmCommits
\* A transaction that nobody crossed is not refused.
<1>9. CASE DaemonRefused
  BY <1>9, DaemonFits DEF DaemonRefused
<1> QED
  <2>1. UNCHANGED vars => UNCHANGED <<rows, request, daemon>>
    BY DEF vars
  <2>2. Tick => UNCHANGED <<rows, request, daemon>>
    BY DEF Tick
  <2> QED
    BY <1>1, <1>2, <1>3, <1>4, <1>5, <1>6, <1>7, <1>8, <1>9, <2>1, <2>2 DEF Next

\* Whoever has crossed or died, has.
LEMMA QuietBefore ==
    ASSUME Types, [Next]_vars, Quiet'
    PROVE  Quiet
<1>1. (crossed => crossed') /\ failures' \in {failures, failures + 1}
  <2>1. CASE UNCHANGED <<failures, crossed>>
    BY <2>1
  <2>2. ASSUME NEW r \in Requests, RequestSelects(r)
        PROVE  (crossed => crossed') /\ failures' = failures
    BY <2>2 DEF RequestSelects
  <2>3. ASSUME NEW r \in Requests, RequestDies(r)
        PROVE  crossed' = crossed /\ failures' = failures + 1
    BY <2>3 DEF RequestDies
  <2>4. ASSUME NEW kind, NEW o, DaemonReads(kind, o)
        PROVE  (crossed => crossed') /\ failures' = failures
    BY <2>4 DEF DaemonReads
  <2>5. Tick \/ (\E r \in Requests : RequestReads(r) \/ RequestMarks(r) \/ RequestUpdates(r))
        \/ DaemonCommits \/ DaemonRefused \/ UNCHANGED vars
        => UNCHANGED <<failures, crossed>>
    BY DEF Tick, RequestReads, RequestMarks, RequestUpdates, DaemonCommits, DaemonRefused, vars
  <2> QED
    BY <2>1, <2>2, <2>3, <2>4, <2>5 DEF Next
<1>2. failures \in Nat
  BY DEF Types
<1> QED
  BY <1>1, <1>2 DEF Quiet

LEMMA UndisturbedNext ==
    ASSUME Types, Conserved, Undisturbed, [Next]_vars
    PROVE  Undisturbed'
<1> SUFFICES ASSUME Quiet' PROVE Calm'
  BY DEF Undisturbed
<1>1. Calm
  BY QuietBefore DEF Undisturbed
<1>2. \A p \in Places : Balanced(p)
  BY ConservedByPlace
<1> QED
  BY <1>1, <1>2, CalmNext DEF Quiet

\* When no request is under way nothing is owed or unasked, and the columns are exact.
LEMMA CalmIsExact ==
    ASSUME Types, Conserved, Calm, UnlockingNow = {}, NEW p \in Places
    PROVE  Exact(Row(p), UnspentOf(p))
<1>1. \A r \in Requests : request[r].at # "update"
  BY DEF UnlockingNow
<1>2. Owed(p) = {} /\ Unasked(p) = {}
  BY <1>1 DEF Owed, OwedBy, UnlockDue, Unasked, UnaskedBy, AuthDue
<1>3. /\ UnspentOf(p) \in SUBSET Outputs /\ LockedAt(p) \cap FreeAt(p) = {} /\ LockedAt(p) \cup FreeAt(p) = UnspentOf(p)
      /\ OutputsOf(p) \in SUBSET Outputs
  BY SetsOfPlace DEF Calm
<1>4. {o \in UnspentOf(p) : ~locked[o]} = FreeAt(p)
  BY DEF UnspentOf, FreeAt
<1>5. UnspentOf(p) \ FreeAt(p) = LockedAt(p) /\ LockedAt(p) \cup {} = LockedAt(p) /\ FreeAt(p) \ {} = FreeAt(p)
  BY <1>3
<1>6. Covers(Row(p), LockedAt(p), {}, {}, FreeAt(p)) /\ Row(p) \in BalanceRow
  BY <1>2, RowsOfPlaces DEF Calm, Columns
<1>7. Row(p).locked = Amount(LockedAt(p)) /\ (Row(p).lAuth <=> Authority(LockedAt(p))) /\ (Row(p).uAuth <=> Authority(FreeAt(p)))
  BY <1>5, <1>6 DEF Covers
<1>8. Amount(UnspentOf(p)) = Amount(LockedAt(p)) + Amount(FreeAt(p)) /\ Amount(LockedAt(p)) \in Nat /\ Amount(FreeAt(p)) \in Nat
  <2>1. LockedAt(p) \in SUBSET Outputs /\ FreeAt(p) \in SUBSET Outputs
    BY <1>3
  <2> QED
    BY <1>3, <2>1, AmountSplit, AmountNat
<1>9. Row(p).unlocked + Row(p).locked = Amount(UnspentOf(p))
  BY ConservedByPlace DEF Balanced
<1>10. Row(p).unlocked = Amount(FreeAt(p))
  <2>1. Row(p).unlocked \in Nat
    BY <1>6 DEF BalanceRow
  <2> QED
    BY <1>7, <1>8, <1>9, <2>1
<1>11. Row(p).uAuth = Authority(FreeAt(p)) /\ Row(p).lAuth = Authority(LockedAt(p))
  <2>1. Row(p).uAuth \in BOOLEAN /\ Row(p).lAuth \in BOOLEAN
    BY <1>6 DEF BalanceRow
  <2> QED
    BY <1>7, <2>1 DEF Authority
<1> QED
  BY <1>4, <1>5, <1>7, <1>10, <1>11 DEF Exact

\* As long as no two have unlocked the same output and nobody died, the columns and the
\* authorities of both tables are those of tx_output whenever no request is under way, and
\* the daemon is never refused (getWalletBalances, unlockUtxos).
THEOREM RefreshIsExact == Spec => []ExactUnlessCrossed
<1>1. Init => Undisturbed
  BY CalmInit DEF Undisturbed
<1>2. Types /\ Conserved /\ Undisturbed /\ [Next]_vars => Undisturbed'
  BY UndisturbedNext
<1>3. Types /\ Conserved /\ Undisturbed => ExactUnlessCrossed
  <2> SUFFICES ASSUME Types, Conserved, Undisturbed, ~crossed, failures = 0
               PROVE  /\ daemon.kind # "none" => daemon.open
                      /\ UnlockingNow = {} => /\ \A a \in Addresses : Exact(addressBalance[a], Unspent(a))
                                              /\ Exact(walletBalance, AllUnspent)
    BY DEF ExactUnlessCrossed
  <2>1. Calm
    BY DEF Undisturbed, Quiet
  <2>2. daemon.kind # "none" => daemon.open
    BY <2>1 DEF Calm, Held
  <2>3. \A a \in Addresses : a \in Places /\ Row(a) = addressBalance[a] /\ UnspentOf(a) = Unspent(a)
    BY Placed DEF UnspentOf, Unspent, Places
  <2>4. None \in Places /\ Row(None) = walletBalance /\ UnspentOf(None) = AllUnspent
    BY Placed, RefreshAssumption DEF UnspentOf, AllUnspent, Unspent, At, Places
  <2> QED
    BY <2>1, <2>2, <2>3, <2>4, CalmIsExact, Zenon
<1> QED
  BY <1>1, <1>2, <1>3, TypesInvariant, RefreshConserves, PTL DEF Spec
=============================================================================
