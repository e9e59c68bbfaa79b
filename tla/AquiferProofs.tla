---------------------------- MODULE AquiferProofs ----------------------------
(***************************************************************************)
(* The subgraph's books are the chain's: for any number of strategies and  *)
(* tokens, any lists shipped, and an index any number of events behind.    *)
(***************************************************************************)
EXTENDS Aquifer, FiniteSetTheorems, SequenceTheorems, WellFoundedInduction, TLAPS

-----------------------------------------------------------------------------
(***************************************************************************)
(* Sums over a finite set, by induction on its parts.                      *)
(***************************************************************************)
AnyOf(s) == CHOOSE x \in s : TRUE
\* What the sum over every part of a set is, by induction on the parts.
IsFold(w, S, f) ==
    f = [s \in SUBSET S |-> IF s = {} THEN 0 ELSE LET x == CHOOSE x \in s : TRUE IN w[x] + f[s \ {x}]]

Total(w, S) == (CHOOSE f : IsFold(w, S, f))[S]

LEMMA Folded == ASSUME NEW w, NEW S PROVE Total(w, S) = (CHOOSE f : IsFold(w, S, f))[S]
BY DEF Total

LEMMA FoldStep ==
    ASSUME NEW w, NEW S, NEW f, IsFold(w, S, f), NEW s \in SUBSET S
    PROVE  f[s] = IF s = {} THEN 0 ELSE w[AnyOf(s)] + f[s \ {AnyOf(s)}]
<1> DEFINE g == [t \in SUBSET S |-> IF t = {} THEN 0 ELSE LET x == CHOOSE x \in t : TRUE IN w[x] + f[t \ {x}]]
<1>1. f = g
  BY DEF IsFold
<1>2. g[s] = IF s = {} THEN 0 ELSE LET x == CHOOSE x \in s : TRUE IN w[x] + f[s \ {x}]
  OBVIOUS
<1> HIDE DEF g
<1> QED
  BY <1>1, <1>2 DEF AnyOf

LEMMA AnyOfIs == ASSUME NEW s, s # {} PROVE AnyOf(s) \in s
BY DEF AnyOf

\* What holds of a finite set if it holds of every set whose smaller parts have it.
LEMMA Subsets ==
    ASSUME NEW S, IsFiniteSet(S), NEW Good,
           ASSUME NEW w, NEW T \in SUBSET S, \A U \in SUBSET T : U # T => U \in Good PROVE T \in Good
    PROVE  S \in Good
<1> DEFINE Bad == {T \in SUBSET S : T \notin Good}
<1>1. SUFFICES ASSUME Bad # {} PROVE FALSE
  OBVIOUS
<1>2. IsWellFoundedOn(StrictSubsetOrdering(S), FiniteSubsetsOf(S))
  BY FS_StrictSubsetOrderingWellFounded
<1>3. Bad \subseteq FiniteSubsetsOf(S)
  BY FS_FiniteSubsetsOfFinite
<1> HIDE DEF Bad
<1>4. PICK T \in Bad : \A U \in Bad : ~ (<<U, T>> \in StrictSubsetOrdering(S))
  BY <1>1, <1>2, <1>3, WFMin
<1>5. T \in SUBSET S /\ T \notin Good
  BY DEF Bad
<1>6. ASSUME NEW U \in SUBSET T, U # T PROVE U \in Good
  <2>1. U \in SUBSET S /\ <<U, T>> \in StrictSubsetOrdering(S)
    BY <1>5, <1>6 DEF StrictSubsetOrdering
  <2> QED
    BY <1>4, <2>1 DEF Bad
<1> QED
  BY <1>5, <1>6

\* Two such sums agree on what both are about.
LEMMA FoldUnique ==
    ASSUME NEW w, NEW S, NEW T, NEW f, NEW g, IsFold(w, S, f), IsFold(w, T, g), NEW U, U \in SUBSET S, U \in SUBSET T,
           IsFiniteSet(U)
    PROVE  f[U] = g[U]
<1> DEFINE Good == {V \in SUBSET U : f[V] = g[V]}
<1>1. ASSUME NEW V \in SUBSET U, \A W \in SUBSET V : W # V => W \in Good PROVE V \in Good
  <2>1. CASE V = {}
    BY <2>1, FoldStep
  <2>2. CASE V # {}
    <3> DEFINE W == V \ {AnyOf(V)}
    <3>1. W \in SUBSET V /\ W # V
      BY <2>2, AnyOfIs
    <3>2. f[W] = g[W]
      BY <1>1, <3>1
    <3>3. V \in SUBSET S /\ V \in SUBSET T
      OBVIOUS
    <3>4. f[V] = w[AnyOf(V)] + f[W] /\ g[V] = w[AnyOf(V)] + g[W]
      BY <2>2, <3>3, FoldStep
    <3> QED
      BY <3>2, <3>4
  <2> QED
    BY <2>1, <2>2
<1> HIDE DEF Good
<1>2. U \in Good
  BY <1>1, Subsets
<1> QED
  BY <1>2 DEF Good

LEMMA FoldExists == ASSUME NEW w, NEW S, IsFiniteSet(S) PROVE \E f : IsFold(w, S, f)
<1> DEFINE Good == {T \in SUBSET S : \E f : IsFold(w, T, f)}
<1>1. ASSUME NEW T \in SUBSET S, \A U \in SUBSET T : U # T => U \in Good PROVE T \in Good
  <2> DEFINE h(U) == CHOOSE f : IsFold(w, U, f)
             f == [s \in SUBSET T |-> IF s = {} THEN 0
                       ELSE LET x == CHOOSE x \in s : TRUE IN w[x] + h(s \ {x})[s \ {x}]]
             g == [s \in SUBSET T |-> IF s = {} THEN 0
                       ELSE LET x == CHOOSE x \in s : TRUE IN w[x] + f[s \ {x}]]
  <2>1. ASSUME NEW U \in SUBSET T, U # T PROVE IsFold(w, U, h(U)) /\ IsFiniteSet(U)
    <3>1. \E k : IsFold(w, U, k)
      BY <1>1, <2>1
    <3>2. IsFiniteSet(U)
      BY FS_Subset
    <3> QED
      BY <3>1, <3>2
  <2>2. ASSUME NEW s \in SUBSET T
        PROVE f[s] = IF s = {} THEN 0 ELSE w[AnyOf(s)] + h(s \ {AnyOf(s)})[s \ {AnyOf(s)}]
    BY DEF AnyOf
  <2>7. ASSUME NEW s \in SUBSET T
        PROVE g[s] = IF s = {} THEN 0 ELSE w[AnyOf(s)] + f[s \ {AnyOf(s)}]
    BY DEF AnyOf
  <2>8. f = [s \in SUBSET T |-> f[s]] /\ g = [s \in SUBSET T |-> g[s]]
    OBVIOUS
  <2>9. IsFold(w, T, f) <=> f = g
    BY DEF IsFold
  <2> HIDE DEF h, f, g
  <2>3. ASSUME NEW U \in SUBSET T, U # T PROVE f[U] = h(U)[U]
    <3>1. IsFold(w, U, h(U))
      BY <2>1, <2>3
    <3>2. CASE U = {}
      <4>1. h(U)[U] = 0
        BY <3>1, <3>2, FoldStep
      <4> QED
        BY <2>2, <3>2, <4>1
    <3>3. CASE U # {}
      <4> DEFINE W == U \ {AnyOf(U)}
      <4>1. W \in SUBSET U /\ W \in SUBSET T /\ W # T
        BY <3>3, <2>3, AnyOfIs
      <4>2. h(U)[U] = w[AnyOf(U)] + h(U)[W]
        BY <3>1, <3>3, FoldStep
      <4>3. IsFold(w, W, h(W)) /\ IsFiniteSet(W)
        BY <2>1, <4>1
      <4>4. h(U)[W] = h(W)[W]
        BY <3>1, <4>1, <4>3, FoldUnique
      <4>5. f[U] = w[AnyOf(U)] + h(W)[W]
        BY <2>2, <3>3
      <4> QED
        BY <4>2, <4>4, <4>5
    <3> QED
      BY <3>2, <3>3
  <2>4. ASSUME NEW s \in SUBSET T PROVE f[s] = g[s]
    <3>1. CASE s = {}
      BY <2>2, <2>7, <3>1
    <3>2. CASE s # {}
      <4> DEFINE W == s \ {AnyOf(s)}
      <4>1. W \in SUBSET T /\ W # T
        BY <3>2, AnyOfIs
      <4>2. f[W] = h(W)[W]
        BY <2>3, <4>1
      <4> QED
        BY <2>2, <2>7, <3>2, <4>2
    <3> QED
      BY <3>1, <3>2
  <2>5. f = g
    BY <2>4, <2>8
  <2> QED
    BY <2>5, <2>9
<1> HIDE DEF Good
<1>2. S \in Good
  BY <1>1, Subsets
<1> QED
  BY <1>2 DEF Good

LEMMA FoldOf ==
    ASSUME NEW w, NEW S, IsFiniteSet(S), NEW f, IsFold(w, S, f), NEW T \in SUBSET S
    PROVE  Total(w, T) = f[T]
<1> DEFINE g == CHOOSE f_1 : IsFold(w, T, f_1)
<1>1. IsFiniteSet(T)
  BY FS_Subset
<1>2. IsFold(w, T, g)
  BY <1>1, FoldExists
<1>3. Total(w, T) = g[T]
  BY Folded
<1> HIDE DEF g
<1> QED
  BY <1>1, <1>2, <1>3, FoldUnique

\* A sum is one of its terms and the sum of the others.
LEMMA SumStep ==
    ASSUME NEW w, NEW S, IsFiniteSet(S)
    PROVE  Total(w, S) = IF S = {} THEN 0 ELSE w[AnyOf(S)] + Total(w, S \ {AnyOf(S)})
<1>1. PICK f : IsFold(w, S, f)
  BY FoldExists
<1>2. Total(w, S) = f[S] /\ Total(w, S \ {AnyOf(S)}) = f[S \ {AnyOf(S)}]
  BY <1>1, FoldOf
<1> QED
  BY <1>1, <1>2, FoldStep

Weighed(w, S) == \A s \in S : w[s] \in Nat

LEMMA SumNat == ASSUME NEW w, NEW S, IsFiniteSet(S), Weighed(w, S) PROVE Total(w, S) \in Nat
<1> DEFINE Good == {T \in SUBSET S : Total(w, T) \in Nat}
<1>1. ASSUME NEW T \in SUBSET S, \A U \in SUBSET T : U # T => U \in Good PROVE T \in Good
  <2>1. IsFiniteSet(T)
    BY FS_Subset
  <2>2. CASE T = {}
    <3>1. Total(w, T) = 0
      BY <2>1, <2>2, SumStep
    <3> QED
      BY <3>1
  <2>3. CASE T # {}
    <3>1. AnyOf(T) \in T
      BY <2>3, AnyOfIs
    <3>2. Total(w, T \ {AnyOf(T)}) \in Nat /\ w[AnyOf(T)] \in Nat
      BY <1>1, <3>1 DEF Weighed
    <3> QED
      BY <2>1, <2>3, <3>2, SumStep
  <2> QED
    BY <2>2, <2>3
<1> HIDE DEF Good
<1>2. S \in Good
  BY <1>1, Subsets
<1> QED
  BY <1>2 DEF Good

LEMMA SumLess ==
    ASSUME NEW w, NEW S, IsFiniteSet(S), Weighed(w, S), NEW x \in S
    PROVE  Total(w, S) = w[x] + Total(w, S \ {x})
<1> DEFINE Good == {T \in SUBSET S : \A y \in T : Total(w, T) = w[y] + Total(w, T \ {y})}
<1>1. ASSUME NEW T \in SUBSET S, \A U \in SUBSET T : U # T => U \in Good PROVE T \in Good
  <2>1. SUFFICES ASSUME NEW y \in T PROVE Total(w, T) = w[y] + Total(w, T \ {y})
    OBVIOUS
  <2> DEFINE p == AnyOf(T)
             U == T \ {p}
             V == T \ {y}
             W == T \ {p, y}
  <2>2. p \in T /\ IsFiniteSet(T) /\ IsFiniteSet(U) /\ IsFiniteSet(V) /\ IsFiniteSet(W)
    BY AnyOfIs, FS_Subset
  <2>3. Total(w, T) = w[p] + Total(w, U)
    BY <2>2, SumStep
  <2>4. CASE y = p
    BY <2>3, <2>4
  <2>5. CASE y # p
    <3>1. U \in Good /\ V \in Good
      BY <1>1, <2>2
    <3>2. y \in U /\ p \in V /\ U \ {y} = W /\ V \ {p} = W
      BY <2>2, <2>5
    <3>3. Total(w, U) = w[y] + Total(w, W) /\ Total(w, V) = w[p] + Total(w, W)
      BY <3>1, <3>2
    <3>4. w[y] \in Nat /\ w[p] \in Nat
      BY <2>2 DEF Weighed
    <3>5. Total(w, W) \in Nat
      <4>1. Weighed(w, W)
        BY DEF Weighed
      <4> QED
        BY <2>2, <4>1, SumNat
    <3> HIDE DEF p, U, V, W, Good
    <3>6. Total(w, T) = w[y] + Total(w, V)
      BY <2>3, <3>3, <3>4, <3>5
    <3> QED
      BY <3>6 DEF V
  <2> QED
    BY <2>4, <2>5
<1> HIDE DEF Good
<1>2. S \in Good
  BY <1>1, Subsets
<1> QED
  BY <1>2 DEF Good

LEMMA SumSame ==
    ASSUME NEW S, IsFiniteSet(S), NEW w, NEW v, \A x \in S : w[x] = v[x]
    PROVE  Total(w, S) = Total(v, S)
<1>1. PICK f : IsFold(w, S, f)
  BY FoldExists
<1> DEFINE a == [s \in SUBSET S |-> IF s = {} THEN 0 ELSE LET x == CHOOSE x \in s : TRUE IN w[x] + f[s \ {x}]]
           b == [s \in SUBSET S |-> IF s = {} THEN 0 ELSE LET x == CHOOSE x \in s : TRUE IN v[x] + f[s \ {x}]]
<1>2. ASSUME NEW s \in SUBSET S PROVE a[s] = b[s]
  <2>1. a[s] = IF s = {} THEN 0 ELSE w[AnyOf(s)] + f[s \ {AnyOf(s)}]
    BY DEF AnyOf
  <2>2. b[s] = IF s = {} THEN 0 ELSE v[AnyOf(s)] + f[s \ {AnyOf(s)}]
    BY DEF AnyOf
  <2>3. s # {} => AnyOf(s) \in S
    BY AnyOfIs
  <2> HIDE DEF a, b
  <2> QED
    BY <2>1, <2>2, <2>3
<1>3. a = [s \in SUBSET S |-> a[s]] /\ b = [s \in SUBSET S |-> b[s]]
  OBVIOUS
<1>4. f = a /\ (IsFold(v, S, f) <=> f = b)
  BY <1>1 DEF IsFold
<1> HIDE DEF a, b
<1>5. IsFold(v, S, f)
  BY <1>2, <1>3, <1>4
<1>6. S \in SUBSET S
  OBVIOUS
<1> QED
  BY <1>1, <1>5, <1>6, FoldOf

\* Two sums that differ in one term differ by it.
LEMMA SumChange ==
    ASSUME NEW S, IsFiniteSet(S), NEW w, NEW v, Weighed(w, S), Weighed(v, S), NEW x \in S,
           \A y \in S \ {x} : w[y] = v[y]
    PROVE  /\ Total(w, S) \in Nat /\ Total(v, S) \in Nat
           /\ Total(w, S) + v[x] = Total(v, S) + w[x]
           /\ w[x] <= Total(w, S)
<1> DEFINE R == S \ {x}
<1>1. IsFiniteSet(R) /\ Weighed(w, R)
  BY FS_Subset DEF Weighed
<1>2. Total(w, R) = Total(v, R)
  BY <1>1, SumSame
<1>3. Total(w, S) = w[x] + Total(w, R) /\ Total(v, S) = v[x] + Total(v, R)
  BY SumLess
<1>4. Total(w, R) \in Nat /\ w[x] \in Nat /\ v[x] \in Nat
  BY <1>1, SumNat DEF Weighed
<1> HIDE DEF R
<1> QED
  BY <1>2, <1>3, <1>4

\* What Aqua's books promise of a token, as such a sum.
LEMMA PromisedIs ==
    ASSUME NEW t, NEW w, \A x \in Strategies : w[x] = aqua[x][t].balance
    PROVE  Promised(t) = Total(w, Strategies)
<1> DEFINE S == Strategies
           P(f) == f = [s \in SUBSET S |-> IF s = {} THEN 0
                          ELSE LET x == CHOOSE x \in s : TRUE IN aqua[x][t].balance + f[s \ {x}]]
           g == CHOOSE f : P(f)
<1>1. Promised(t) = g[S]
  BY DEF Promised, MapThenSumSet, MapThenFoldSet
<1>2. ASSUME NEW f PROVE P(f) <=> IsFold(w, S, f)
  <2> DEFINE a == [s \in SUBSET S |-> IF s = {} THEN 0 ELSE LET x == CHOOSE x \in s : TRUE IN w[x] + f[s \ {x}]]
             b == [s \in SUBSET S |-> IF s = {} THEN 0
                          ELSE LET x == CHOOSE x \in s : TRUE IN aqua[x][t].balance + f[s \ {x}]]
  <2>1. ASSUME NEW s \in SUBSET S PROVE a[s] = b[s]
    <3>1. a[s] = IF s = {} THEN 0 ELSE w[AnyOf(s)] + f[s \ {AnyOf(s)}]
      BY DEF AnyOf
    <3>2. b[s] = IF s = {} THEN 0 ELSE aqua[AnyOf(s)][t].balance + f[s \ {AnyOf(s)}]
      BY DEF AnyOf
    <3>3. s # {} => AnyOf(s) \in S
      BY AnyOfIs
    <3> HIDE DEF a, b
    <3> QED
      BY <3>1, <3>2, <3>3
  <2>2. a = [s \in SUBSET S |-> a[s]] /\ b = [s \in SUBSET S |-> b[s]]
    OBVIOUS
  <2>3. (P(f) <=> f = b) /\ (IsFold(w, S, f) <=> f = a)
    BY DEF IsFold
  <2> HIDE DEF a, b
  <2> QED
    BY <2>1, <2>2, <2>3
<1>3. IsFiniteSet(S)
  BY AquiferAssumption
<1>4. \E f : IsFold(w, S, f)
  BY <1>3, FoldExists
<1> HIDE DEF P, S
<1>5. P(g)
  BY <1>2, <1>4
<1> HIDE DEF g
<1>6. IsFold(w, S, g) /\ S \in SUBSET S
  BY <1>2, <1>5
<1>7. Total(w, S) = g[S]
  BY <1>3, <1>6, FoldOf
<1> QED
  BY <1>1, <1>7 DEF S
-----------------------------------------------------------------------------
(***************************************************************************)
(* What the index knows, as a view: what each strategy is held to owe, and *)
(* which strategies are on.                                                *)
(***************************************************************************)
Holding == {None} \cup 0 .. MaxBalance
Base(n) == IF n = None THEN 0 ELSE n

Seen == [held |-> remaining, on |-> {s \in Strategies : strategy[s].active}]

Holders(v, t) == {s \in v.on : v.held[s][t] # None}
Row(v, t) == [s \in Strategies |-> Base(v.held[s][t])]
Owed(v, t) == Total(Row(v, t), Strategies)

\* A strategy that is off owes nothing, and what one holds is of one list.
Settled(v) == \A s \in Strategies \ v.on, t \in Tokens : v.held[s][t] \in {None, 0}
Listed(v) ==
    \A s \in v.on : (\E t \in Tokens : v.held[s][t] # None) =>
        \E list \in ShipLists[s] : \A t \in Tokens : v.held[s][t] # None => t \in ToSet(list)

Views == {v \in [held : [Strategies -> [Tokens -> Holding]], on : SUBSET Strategies] : Settled(v) /\ Listed(v)}

Agrees(v) ==
    \A s \in Strategies :
        /\ s \in v.on <=> LiveBook(s)
        /\ \A t \in Tokens : /\ IsLive(s, t) <=> s \in v.on /\ v.held[s][t] # None
                             /\ aqua[s][t].balance = Base(v.held[s][t])

(***************************************************************************)
(* What an event makes of a view, and what was so when it was emitted.     *)
(***************************************************************************)
OnShipped(v, s) == [held |-> [v.held EXCEPT ![s] = [t \in Tokens |-> None]], on |-> v.on \cup {s}]
OnDocked(v, s) ==
    [held |-> [v.held EXCEPT ![s] = [t \in Tokens |-> IF v.held[s][t] = None THEN None ELSE 0]], on |-> v.on \ {s}]
Paid(v, s, t, n) == [held |-> [v.held EXCEPT ![s] = [v.held[s] EXCEPT ![t] = n]], on |-> v.on]

Follows(v, e, w) ==
    \/ e.kind = "Shipped" /\ e.s \notin v.on /\ w = OnShipped(v, e.s)
    \/ e.kind = "Docked" /\ e.s \in v.on /\ w = OnDocked(v, e.s)
    \/ e.kind = "Pushed" /\ e.s \in v.on /\ w = Paid(v, e.s, e.t, Base(v.held[e.s][e.t]) + e.amount)
    \/ /\ e.kind = "Pulled" /\ e.s \in v.on /\ v.held[e.s][e.t] # None /\ e.amount <= v.held[e.s][e.t]
       /\ w = Paid(v, e.s, e.t, v.held[e.s][e.t] - e.amount)
    \/ e.kind = "EncumbranceApplied" /\ e.due = Owed(v, e.t) /\ w = v

Event ==
    [kind : {"Shipped", "Docked"}, s : Strategies]
        \cup [kind : {"Pushed", "Pulled"}, s : Strategies, t : Tokens, amount : Amounts]
        \cup [kind : {"EncumbranceApplied"}, s : Strategies, t : Tokens, backing : Amounts, due : Nat]

\* The views along a list of events, from v on.
Trace(h, events, v) ==
    /\ h \in [0 .. Len(events) -> Views] /\ h[0] = v
    /\ \A i \in 1 .. Len(events) : Follows(h[i - 1], events[i], h[i])

-----------------------------------------------------------------------------
(* The inductive invariant.                                                 *)

Books == [count : Nat, balance : 0 .. MaxBalance]

\* A live book is one list: what was shipped together.
OneList(s, list) ==
    \A t \in Tokens : /\ IsLive(s, t) <=> t \in ToSet(list)
                      /\ IsLive(s, t) => aqua[s][t].count = Len(list)

ChainOK ==
    /\ aqua \in [Strategies -> [Tokens -> Books]]
    /\ \A s \in Strategies : LiveBook(s) => \E list \in ShipLists[s] : OneList(s, list)

Entity == [known : BOOLEAN, active : BOOLEAN, tokens : Seq(Tokens), siblings : SUBSET Hashes]
Observed == {NeverObserved} \cup [backing : Amounts, util : Nat, due : Nat]
Position == [totalCommitted : Nat, activeStrategies : Nat, live : SUBSET Hashes, observed : Observed]

RowsOK ==
    /\ strategy \in [Strategies -> Entity] /\ position \in [Tokens -> Position]
    /\ active \in Nat /\ halted \in BOOLEAN
    /\ \A s \in Strategies :
          /\ IsInjective(strategy[s].tokens)
          /\ strategy[s].active => strategy[s].known
          /\ ToSet(strategy[s].tokens) = {t \in Tokens : remaining[s][t] # None}

CountsOK ==
    /\ active = Cardinality(Seen.on)
    /\ \A t \in Tokens :
          /\ position[t].totalCommitted = Owed(Seen, t)
          /\ position[t].activeStrategies = Cardinality(Holders(Seen, t))

ComesOut == \E h : Trace(h, log, Seen) /\ Agrees(h[Len(log)])

IInv == ChainOK /\ RowsOK /\ CountsOK /\ UtilIsOneInstant /\ log \in Seq(Event) /\ Len(log) <= MaxLag /\ ComesOut

-----------------------------------------------------------------------------
(* Views.                                                                   *)

LEMMA ViewIs ==
    ASSUME NEW v \in Views
    PROVE  /\ v = [held |-> v.held, on |-> v.on]
           /\ v.held \in [Strategies -> [Tokens -> Holding]] /\ v.on \in SUBSET Strategies
           /\ Settled(v) /\ Listed(v) /\ IsFiniteSet(Strategies)
BY AquiferAssumption DEF Views

LEMMA BaseIs == ASSUME NEW n \in Holding PROVE Base(n) \in 0 .. MaxBalance /\ Base(n) \in Nat /\ (n = None \/ n \in Nat)
BY AquiferAssumption DEF Holding, Base, None

LEMMA RowIs ==
    ASSUME NEW v \in Views, NEW t \in Tokens
    PROVE  /\ Weighed(Row(v, t), Strategies) /\ Owed(v, t) \in Nat
           /\ \A s \in Strategies : Row(v, t)[s] = Base(v.held[s][t]) /\ v.held[s][t] \in Holding
<1>1. \A s \in Strategies : Row(v, t)[s] = Base(v.held[s][t]) /\ v.held[s][t] \in Holding
  BY ViewIs DEF Row
<1>2. Weighed(Row(v, t), Strategies)
  BY <1>1, BaseIs DEF Weighed
<1> QED
  BY <1>1, <1>2, ViewIs, SumNat DEF Owed

LEMMA ShippedOwes ==
    ASSUME NEW v \in Views, NEW s \in Strategies, s \notin v.on, NEW t \in Tokens, OnShipped(v, s) \in Views
    PROVE  /\ Owed(OnShipped(v, s), t) = Owed(v, t)
           /\ Holders(OnShipped(v, s), t) = Holders(v, t)
<1> DEFINE w == OnShipped(v, s)
<1>1. w.on = v.on \cup {s} /\ w.held[s][t] = None /\ \A r \in Strategies \ {s} : w.held[r] = v.held[r]
  BY ViewIs DEF OnShipped
<1>2. v.held[s][t] \in {None, 0}
  BY ViewIs DEF Settled
<1> HIDE DEF w
<1>3. \A r \in Strategies : Row(w, t)[r] = Row(v, t)[r]
  BY <1>1, <1>2 DEF Row, Base
<1>4. Total(Row(w, t), Strategies) = Total(Row(v, t), Strategies)
  BY <1>3, SumSame, ViewIs
<1>5. Holders(w, t) = Holders(v, t)
  BY <1>1, ViewIs DEF Holders
<1> QED
  BY <1>4, <1>5 DEF Owed, w

\* One row is changed at one token.
LEMMA RowChange ==
    ASSUME NEW v \in Views, NEW w \in Views, NEW s \in Strategies, NEW t \in Tokens,
           \A r \in Strategies \ {s} : w.held[r][t] = v.held[r][t]
    PROVE  /\ Owed(w, t) \in Nat /\ Owed(v, t) \in Nat /\ Base(v.held[s][t]) \in Nat /\ Base(w.held[s][t]) \in Nat
           /\ Owed(w, t) + Base(v.held[s][t]) = Owed(v, t) + Base(w.held[s][t])
           /\ Base(v.held[s][t]) <= Owed(v, t)
<1>1. \A r \in Strategies \ {s} : Row(w, t)[r] = Row(v, t)[r]
  BY RowIs
<1>2. Weighed(Row(w, t), Strategies) /\ Weighed(Row(v, t), Strategies)
  BY RowIs
<1>3. /\ Total(Row(w, t), Strategies) + Row(v, t)[s] = Total(Row(v, t), Strategies) + Row(w, t)[s]
      /\ Row(v, t)[s] <= Total(Row(v, t), Strategies)
  <2>1. IsFiniteSet(Strategies)
    BY ViewIs
  <2>2. Total(Row(w, t), Strategies) + Row(v, t)[s] = Total(Row(v, t), Strategies) + Row(w, t)[s]
    BY <1>1, <1>2, <2>1, SumChange
  <2>3. Row(v, t)[s] <= Total(Row(v, t), Strategies)
    BY <1>1, <1>2, <2>1, SumChange
  <2> QED
    BY <2>2, <2>3
<1>4. Row(w, t)[s] = Base(w.held[s][t]) /\ Row(v, t)[s] = Base(v.held[s][t])
  BY RowIs
<1>5. Base(v.held[s][t]) \in Nat /\ Base(w.held[s][t]) \in Nat
  BY RowIs, BaseIs
<1> QED
  BY <1>3, <1>4, <1>5, RowIs DEF Owed

LEMMA DockedOwes ==
    ASSUME NEW v \in Views, NEW s \in Strategies, s \in v.on, NEW t \in Tokens, OnDocked(v, s) \in Views
    PROVE  /\ Owed(OnDocked(v, s), t) = Owed(v, t) - Base(v.held[s][t])
           /\ Owed(v, t) \in Nat /\ Base(v.held[s][t]) \in Nat /\ Base(v.held[s][t]) <= Owed(v, t)
           /\ Holders(OnDocked(v, s), t) = Holders(v, t) \ {s}
<1> DEFINE w == OnDocked(v, s)
<1>1. /\ w.on = v.on \ {s} /\ w.held[s][t] \in {None, 0}
      /\ \A r \in Strategies \ {s} : w.held[r][t] = v.held[r][t]
  BY ViewIs DEF OnDocked
<1> HIDE DEF w
<1>2. w \in Views
  BY DEF w
<1>3. Base(w.held[s][t]) = 0
  BY <1>1 DEF Base
<1>4. /\ Owed(w, t) \in Nat /\ Owed(v, t) \in Nat /\ Base(v.held[s][t]) \in Nat
      /\ Owed(w, t) + Base(v.held[s][t]) = Owed(v, t) + Base(w.held[s][t]) /\ Base(v.held[s][t]) <= Owed(v, t)
  BY <1>1, <1>2, RowChange
<1>5. Holders(w, t) = Holders(v, t) \ {s}
  BY <1>1, ViewIs DEF Holders
<1>6. Owed(w, t) = Owed(v, t) - Base(v.held[s][t])
  BY <1>3, <1>4
<1> QED
  BY <1>4, <1>5, <1>6 DEF w

LEMMA PaidOwes ==
    ASSUME NEW v \in Views, NEW s \in v.on, NEW t \in Tokens, NEW n \in Nat, Paid(v, s, t, n) \in Views
    PROVE  /\ Owed(Paid(v, s, t, n), t) = Owed(v, t) - Base(v.held[s][t]) + n
           /\ Owed(v, t) \in Nat /\ Base(v.held[s][t]) \in Nat /\ Base(v.held[s][t]) <= Owed(v, t)
           /\ Holders(Paid(v, s, t, n), t) = Holders(v, t) \cup {s}
           /\ \A u \in Tokens \ {t} : /\ Owed(Paid(v, s, t, n), u) = Owed(v, u)
                                      /\ Holders(Paid(v, s, t, n), u) = Holders(v, u)
<1> DEFINE w == Paid(v, s, t, n)
<1>1. /\ w.on = v.on /\ w.held[s][t] = n /\ \A r \in Strategies \ {s} : w.held[r] = v.held[r]
      /\ \A u \in Tokens \ {t} : w.held[s][u] = v.held[s][u]
  BY ViewIs DEF Paid
<1> HIDE DEF w
<1>2. w \in Views /\ s \in Strategies /\ n # None /\ Base(n) = n
  BY ViewIs DEF w, None, Base
<1>3. /\ Owed(w, t) \in Nat /\ Owed(v, t) \in Nat /\ Base(v.held[s][t]) \in Nat
      /\ Owed(w, t) + Base(v.held[s][t]) = Owed(v, t) + n /\ Base(v.held[s][t]) <= Owed(v, t)
  BY <1>1, <1>2, RowChange
<1>4. Owed(w, t) = Owed(v, t) - Base(v.held[s][t]) + n
  BY <1>3
<1>5. Holders(w, t) = Holders(v, t) \cup {s}
  BY <1>1, <1>2, ViewIs DEF Holders
<1>6. ASSUME NEW u \in Tokens \ {t} PROVE Owed(w, u) = Owed(v, u) /\ Holders(w, u) = Holders(v, u)
  <2>1. \A r \in Strategies : w.held[r][u] = v.held[r][u]
    BY <1>1
  <2>2. \A r \in Strategies : Row(w, u)[r] = Row(v, u)[r]
    BY <1>2, <2>1, RowIs
  <2>3. Owed(w, u) = Owed(v, u)
    BY <2>2, ViewIs, SumSame DEF Owed
  <2> QED
    BY <1>1, <2>1, <2>3, ViewIs DEF Holders
<1> QED
  BY <1>3, <1>4, <1>5, <1>6 DEF w

-----------------------------------------------------------------------------
(* Traces.                                                                  *)

\* The oldest event leads to the next view; the rest lead on from there.
LEMMA TraceTail ==
    ASSUME NEW L \in Seq(Event), L # <<>>, NEW v, NEW h, Trace(h, L, v)
    PROVE  /\ h[1] \in Views /\ v \in Views /\ Follows(v, Head(L), h[1]) /\ Head(L) \in Event
           /\ \E k : Trace(k, Tail(L), h[1]) /\ k[Len(Tail(L))] = h[Len(L)]
<1> DEFINE n == Len(L)
           k == [i \in 0 .. n - 1 |-> h[i + 1]]
<1>1. n \in Nat /\ n >= 1 /\ Tail(L) \in Seq(Event) /\ Len(Tail(L)) = n - 1 /\ Head(L) = L[1] /\ Head(L) \in Event
      /\ \A i \in 1 .. n - 1 : Tail(L)[i] = L[i + 1]
  OBVIOUS
<1> HIDE DEF n
<1>2. h \in [0 .. n -> Views] /\ h[0] = v /\ \A i \in 1 .. n : Follows(h[i - 1], L[i], h[i])
  BY DEF Trace, n
<1>3. h[1] \in Views /\ v \in Views /\ Follows(v, Head(L), h[1])
  <2>1. 1 \in 1 .. n /\ 0 \in 0 .. n /\ 1 \in 0 .. n
    BY <1>1
  <2>2. Follows(h[1 - 1], L[1], h[1])
    BY <1>2, <2>1
  <2> QED
    BY <1>1, <1>2, <2>1, <2>2
<1>4. k \in [0 .. n - 1 -> Views] /\ k[0] = h[1] /\ k[n - 1] = h[n]
  <2>1. \A i \in 0 .. n - 1 : i + 1 \in 0 .. n
    BY <1>1
  <2> QED
    BY <1>1, <1>2, <2>1
<1>5. ASSUME NEW i \in 1 .. n - 1 PROVE Follows(k[i - 1], Tail(L)[i], k[i])
  <2>1. i + 1 \in 1 .. n /\ i - 1 \in 0 .. n - 1 /\ i \in 0 .. n - 1 /\ (i + 1) - 1 = i /\ (i - 1) + 1 = i
    BY <1>1
  <2>2. k[i - 1] = h[i] /\ k[i] = h[i + 1]
    BY <2>1
  <2>3. Follows(h[(i + 1) - 1], L[i + 1], h[i + 1])
    BY <1>2, <2>1
  <2> QED
    BY <1>1, <2>1, <2>2, <2>3
<1>6. Trace(k, Tail(L), h[1])
  <2> HIDE DEF k
  <2> QED
    BY <1>1, <1>4, <1>5 DEF Trace
<1>7. k[Len(Tail(L))] = h[Len(L)]
  BY <1>1, <1>4 DEF n
<1> QED
  BY <1>1, <1>3, <1>6, <1>7

LEMMA TraceJoin ==
    ASSUME NEW L \in Seq(Event), NEW M \in Seq(Event), NEW v, NEW h, Trace(h, L, v), NEW g, Trace(g, M, h[Len(L)])
    PROVE  L \o M \in Seq(Event) /\ \E k : Trace(k, L \o M, v) /\ k[Len(L \o M)] = g[Len(M)]
<1> DEFINE n == Len(L)
           m == Len(M)
           k == [i \in 0 .. n + m |-> IF i <= n THEN h[i] ELSE g[i - n]]
<1>1. n \in Nat /\ m \in Nat /\ L \o M \in Seq(Event) /\ Len(L \o M) = n + m
      /\ \A i \in 1 .. n + m : (L \o M)[i] = IF i <= n THEN L[i] ELSE M[i - n]
  OBVIOUS
<1>2. h \in [0 .. n -> Views] /\ h[0] = v /\ \A i \in 1 .. n : Follows(h[i - 1], L[i], h[i])
  BY DEF Trace
<1>3. g \in [0 .. m -> Views] /\ g[0] = h[n] /\ \A i \in 1 .. m : Follows(g[i - 1], M[i], g[i])
  BY DEF Trace
<1> HIDE DEF n, m
<1>4. \A i \in 0 .. n + m : (i <= n => i \in 0 .. n) /\ (~ (i <= n) => i - n \in 1 .. m)
  BY <1>1
<1>5. k \in [0 .. n + m -> Views]
  <2>1. ASSUME NEW i \in 0 .. n + m PROVE (IF i <= n THEN h[i] ELSE g[i - n]) \in Views
    <3>1. \A j \in 1 .. m : j \in 0 .. m
      BY <1>1
    <3> QED
      BY <1>2, <1>3, <1>4, <3>1
  <2> QED
    BY <2>1
<1>6. \A i \in 0 .. n + m : k[i] = IF i <= n THEN h[i] ELSE g[i - n]
  OBVIOUS
<1> HIDE DEF k
<1>7. k[0] = v
  <2>1. 0 \in 0 .. n + m /\ 0 <= n
    BY <1>1
  <2> QED
    BY <1>2, <1>6, <2>1
<1>8. k[n + m] = g[m]
  <2>1. CASE m = 0
    <3>1. n + m = n /\ n \in 0 .. n + m
      BY <1>1, <2>1
    <3>2. k[n + m] = h[n]
      BY <1>1, <1>6, <3>1
    <3> QED
      BY <1>3, <2>1, <3>2
  <2>2. CASE m # 0
    <3>1. n + m \in 0 .. n + m /\ ~ (n + m <= n) /\ (n + m) - n = m
      BY <1>1, <2>2
    <3>2. k[n + m] = g[(n + m) - n]
      BY <1>6, <3>1
    <3> QED
      BY <3>1, <3>2
  <2> QED
    BY <2>1, <2>2
<1>9. ASSUME NEW i \in 1 .. n + m PROVE Follows(k[i - 1], (L \o M)[i], k[i])
  <2>1. CASE i <= n
    <3>1. i \in 1 .. n /\ i - 1 \in 0 .. n + m /\ i \in 0 .. n + m /\ i - 1 <= n
      BY <1>1, <2>1
    <3>2. k[i - 1] = h[i - 1] /\ k[i] = h[i] /\ (L \o M)[i] = L[i]
      BY <1>1, <1>6, <2>1, <3>1
    <3> QED
      BY <1>2, <3>1, <3>2
  <2>2. CASE ~ (i <= n)
    <3> DEFINE j == i - n
    <3>1. j \in 1 .. m /\ i - 1 \in 0 .. n + m /\ i \in 0 .. n + m /\ (i - 1) - n = j - 1
          /\ (i - 1 <= n <=> j = 1) /\ (j = 1 => i - 1 = n)
      BY <1>1, <2>2
    <3>2. k[i] = g[j] /\ (L \o M)[i] = M[j]
      BY <1>1, <1>6, <2>2, <3>1
    <3>3. k[i - 1] = g[j - 1]
      <4>1. CASE j = 1
        <5>1. k[i - 1] = h[n] /\ j - 1 = 0
          BY <1>6, <3>1, <4>1
        <5> QED
          BY <1>3, <5>1
      <4>2. CASE j # 1
        BY <1>6, <3>1, <4>2
      <4> QED
        BY <4>1, <4>2
    <3> HIDE DEF j
    <3> QED
      BY <1>3, <3>1, <3>2, <3>3
  <2> QED
    BY <2>1, <2>2
<1>10. Trace(k, L \o M, v)
  BY <1>1, <1>5, <1>7, <1>9 DEF Trace
<1>11. k[Len(L \o M)] = g[Len(M)]
  BY <1>1, <1>8 DEF m
<1> QED
  BY <1>1, <1>10, <1>11

-----------------------------------------------------------------------------
(* The chain: what is emitted leads from the last view to the books.        *)

LEMMA ListCount ==
    ASSUME NEW list \in Seq(Tokens), IsInjective(list)
    PROVE  IsFiniteSet(ToSet(list)) /\ Cardinality(ToSet(list)) = Len(list)
<1> DEFINE n == Len(list)
<1>1. n \in Nat /\ DOMAIN list = 1 .. n /\ list \in [1 .. n -> ToSet(list)]
  BY DEF ToSet
<1>2. list \in Bijection(1 .. n, ToSet(list))
  BY <1>1 DEF Bijection, Injection, Surjection, IsInjective, ToSet
<1>3. ExistsBijection(1 .. n, ToSet(list))
  BY <1>2 DEF ExistsBijection
<1>4. IsFiniteSet(1 .. n) /\ Cardinality(1 .. n) = n
  BY <1>1, FS_Interval
<1> QED
  BY <1>3, <1>4, FS_Bijection

LEMMA ListIs ==
    ASSUME NEW s \in Strategies, NEW list \in ShipLists[s]
    PROVE  /\ list \in Seq(Tokens) /\ Len(list) \in Nat /\ Len(list) >= 1 /\ Len(list) # NeverShipped /\ Len(list) # Docked
           /\ IsInjective(list) /\ DOMAIN list = 1 .. Len(list) /\ ToSet(list) \subseteq Tokens /\ ToSet(list) # {}
<1>1. list \in Seq(Tokens) /\ Len(list) \in 1 .. 254 /\ IsInjective(list)
  <2>1. list \in Seq(Tokens) /\ Len(list) \in 1 .. Docked - 1 /\ IsInjective(list)
    BY AquiferAssumption
  <2>2. Docked - 1 = 254
    BY DEF Docked
  <2> QED
    BY <2>1, <2>2
<1> DEFINE n == Len(list)
<1>a. n \in 1 .. 254
  BY <1>1
<1>b. \A i \in 1 .. 254 : i \in Nat /\ i >= 1 /\ i # 0 /\ i # 255
  OBVIOUS
<1>2. Len(list) \in Nat /\ Len(list) >= 1 /\ Len(list) # 0 /\ Len(list) # 255
  BY <1>a, <1>b
<1>3. ToSet(list) \subseteq Tokens /\ list[1] \in ToSet(list)
  BY <1>1, <1>2 DEF ToSet
<1> QED
  BY <1>1, <1>2, <1>3 DEF NeverShipped, Docked

LEMMA OneEvent ==
    ASSUME NEW v \in Views, NEW w \in Views, NEW e \in Event, Follows(v, e, w)
    PROVE  <<e>> \in Seq(Event) /\ \E g : Trace(g, <<e>>, v) /\ g[Len(<<e>>)] = w
<1> DEFINE g == [i \in 0 .. 1 |-> IF i = 0 THEN v ELSE w]
<1>1. <<e>> \in Seq(Event) /\ Len(<<e>>) = 1 /\ <<e>>[1] = e
  OBVIOUS
<1>2. g \in [0 .. 1 -> Views] /\ g[0] = v /\ g[1] = w
  OBVIOUS
<1>3. \A i \in 1 .. 1 : i = 1 /\ i - 1 = 0
  OBVIOUS
<1> HIDE DEF g
<1>4. Trace(g, <<e>>, v)
  BY <1>1, <1>2, <1>3 DEF Trace
<1> QED
  BY <1>1, <1>2, <1>4

\* What the chain does is enough told by what it emits.
LEMMA EmitKeeps ==
    ASSUME IInv, UNCHANGED index, ChainOK', NEW M \in Seq(Event), Emit(M),
           \A v \in Views : Agrees(v) => \E g : Trace(g, M, v) /\ Agrees(g[Len(M)])'
    PROVE  IInv'
<1>1. RowsOK' /\ CountsOK' /\ UtilIsOneInstant'
  BY DEF IInv, index, RowsOK, CountsOK, UtilIsOneInstant, Seen
<1>2. PICK h : Trace(h, log, Seen) /\ Agrees(h[Len(log)])
  BY DEF IInv, ComesOut
<1>3. log \in Seq(Event) /\ Len(log) \in Nat /\ h[Len(log)] \in Views
  <2>1. log \in Seq(Event) /\ Len(log) \in Nat /\ Len(log) \in 0 .. Len(log)
    BY DEF IInv
  <2> QED
    BY <1>2, <2>1 DEF Trace
<1>4. PICK g : Trace(g, M, h[Len(log)]) /\ Agrees(g[Len(M)])'
  BY <1>2, <1>3
<1>5. log' = log \o M /\ Len(log') <= MaxLag
  BY <1>3 DEF Emit
<1>6. log \o M \in Seq(Event) /\ \E k : Trace(k, log \o M, Seen) /\ k[Len(log \o M)] = g[Len(M)]
  BY <1>2, <1>3, <1>4, TraceJoin
<1>7. Seen' = Seen
  BY DEF Seen, index
<1>8. PICK k : Trace(k, log', Seen) /\ k[Len(log')] = g[Len(M)]
  BY <1>5, <1>6
<1>9. Trace(k, log', Seen')
  BY <1>7, <1>8
<1>10. Agrees(k[Len(log)])'
  BY <1>4, <1>8 DEF Agrees, LiveBook, IsLive
<1>11. ComesOut'
  BY <1>9, <1>10 DEF ComesOut
<1> QED
  BY <1>1, <1>5, <1>6, <1>11 DEF IInv

LEMMA AquaIs ==
    ASSUME ChainOK, NEW s \in Strategies, NEW t \in Tokens
    PROVE  /\ aqua[s][t] \in Books /\ aqua[s][t].count \in Nat /\ aqua[s][t].balance \in 0 .. MaxBalance
           /\ aqua[s] \in [Tokens -> Books]
BY DEF ChainOK, Books

\* One strategy's view changes, and its books with it.
LEMMA AgreesElse ==
    ASSUME NEW v, NEW w, NEW s \in Strategies, Agrees(v),
           \A r \in Strategies \ {s} : aqua'[r] = aqua[r] /\ w.held[r] = v.held[r] /\ (r \in w.on <=> r \in v.on),
           s \in w.on <=> LiveBook(s)',
           \A t \in Tokens : /\ IsLive(s, t)' <=> s \in w.on /\ w.held[s][t] # None
                             /\ aqua'[s][t].balance = Base(w.held[s][t])
    PROVE  Agrees(w)'
BY DEF Agrees, LiveBook, IsLive

\* A row whose markers are kept is still of the list it was of.
LEMMA ListKept ==
    ASSUME NEW s, NEW list, \A t \in Tokens : aqua'[s][t].count = aqua[s][t].count
    PROVE  /\ OneList(s, list) => OneList(s, list)'
           /\ LiveBook(s)' <=> LiveBook(s)
           /\ \A t \in Tokens : IsLive(s, t)' <=> IsLive(s, t)
BY DEF OneList, LiveBook, IsLive

LEMMA ChainElse ==
    ASSUME ChainOK, NEW s \in Strategies, aqua' \in [Strategies -> [Tokens -> Books]],
           \A r \in Strategies \ {s} : aqua'[r] = aqua[r],
           LiveBook(s)' => \E list \in ShipLists[s] : OneList(s, list)'
    PROVE  ChainOK'
<1>1. ASSUME NEW r \in Strategies, LiveBook(r)'
      PROVE  \E list \in ShipLists[r] : OneList(r, list)'
  <2>1. CASE r = s
    BY <1>1, <2>1
  <2>2. CASE r # s
    <3>1. \A t \in Tokens : aqua'[r][t].count = aqua[r][t].count
      BY <2>2
    <3>2. LiveBook(r)
      BY <1>1, <3>1, ListKept
    <3>3. PICK list \in ShipLists[r] : OneList(r, list)
      BY <3>2 DEF ChainOK
    <3>4. OneList(r, list)'
      BY <3>1, <3>3, ListKept
    <3> QED
      BY <3>4
  <2> QED
    BY <2>1, <2>2
<1> QED
  BY <1>1 DEF ChainOK

LEMMA PaidView ==
    ASSUME NEW v \in Views, NEW s \in v.on, NEW t \in Tokens, v.held[s][t] # None, NEW n \in 0 .. MaxBalance
    PROVE  /\ Paid(v, s, t, n) \in Views /\ Paid(v, s, t, n).on = v.on
           /\ \A r \in Strategies \ {s} : Paid(v, s, t, n).held[r] = v.held[r]
           /\ \A u \in Tokens : Paid(v, s, t, n).held[s][u] = IF u = t THEN n ELSE v.held[s][u]
<1> DEFINE w == Paid(v, s, t, n)
<1>0. s \in Strategies /\ n \in Holding /\ n # None
  <2>1. \A i \in 0 .. MaxBalance : i # -1
    BY AquiferAssumption
  <2> QED
    BY <2>1, ViewIs DEF Holding, None
<1>1. w.held = [v.held EXCEPT ![s] = [v.held[s] EXCEPT ![t] = n]] /\ w.on = v.on
      /\ w = [held |-> w.held, on |-> w.on]
  BY DEF Paid
<1>2. w.held \in [Strategies -> [Tokens -> Holding]] /\ v.held \in [Strategies -> [Tokens -> Holding]]
  BY <1>0, <1>1, ViewIs
<1>3. \A r \in Strategies \ {s} : w.held[r] = v.held[r]
  BY <1>1, <1>2
<1>4. \A u \in Tokens : w.held[s][u] = IF u = t THEN n ELSE v.held[s][u]
  BY <1>0, <1>1, <1>2
<1> HIDE DEF w
<1>5. Settled(w)
  BY <1>0, <1>1, <1>3, ViewIs DEF Settled
<1>6. \A r \in Strategies, u \in Tokens : w.held[r][u] # None <=> v.held[r][u] # None
  BY <1>0, <1>3, <1>4
<1>7. Listed(w)
  <2>1. Listed(v) /\ v.on \subseteq Strategies
    BY ViewIs
  <2> QED
    BY <1>1, <1>6, <2>1 DEF Listed
<1>8. w \in [held : [Strategies -> [Tokens -> Holding]], on : SUBSET Strategies]
  BY <1>1, <1>2, ViewIs
<1> QED
  BY <1>1, <1>3, <1>4, <1>5, <1>7, <1>8 DEF w, Views

LEMMA DockedView ==
    ASSUME NEW v \in Views, NEW s \in v.on
    PROVE  /\ OnDocked(v, s) \in Views /\ OnDocked(v, s).on = v.on \ {s}
           /\ \A r \in Strategies \ {s} : OnDocked(v, s).held[r] = v.held[r]
           /\ \A u \in Tokens : OnDocked(v, s).held[s][u] = IF v.held[s][u] = None THEN None ELSE 0
<1> DEFINE w == OnDocked(v, s)
           row == [t \in Tokens |-> IF v.held[s][t] = None THEN None ELSE 0]
<1>0. s \in Strategies /\ 0 \in Holding /\ None \in Holding
  BY ViewIs, AquiferAssumption DEF Holding
<1>1. w.held = [v.held EXCEPT ![s] = row] /\ w.on = v.on \ {s} /\ w = [held |-> w.held, on |-> w.on]
  BY DEF OnDocked
<1>2. w.held \in [Strategies -> [Tokens -> Holding]] /\ v.held \in [Strategies -> [Tokens -> Holding]]
  BY <1>0, <1>1, ViewIs
<1>3. \A r \in Strategies \ {s} : w.held[r] = v.held[r]
  BY <1>1, <1>2
<1>4. \A u \in Tokens : w.held[s][u] = IF v.held[s][u] = None THEN None ELSE 0
  BY <1>0, <1>1, <1>2
<1> HIDE DEF w, row
<1>5. Settled(w)
  <2>1. ASSUME NEW r \in Strategies \ w.on, NEW t \in Tokens PROVE w.held[r][t] \in {None, 0}
    <3>1. CASE r = s
      BY <1>4, <3>1
    <3>2. CASE r # s
      BY <1>1, <1>3, <2>1, <3>2, ViewIs DEF Settled
    <3> QED
      BY <3>1, <3>2
  <2> QED
    BY <2>1 DEF Settled
<1>6. Listed(w)
  <2>1. Listed(v) /\ v.on \subseteq Strategies
    BY ViewIs
  <2> QED
    BY <1>1, <1>3, <2>1 DEF Listed
<1>7. w \in [held : [Strategies -> [Tokens -> Holding]], on : SUBSET Strategies]
  BY <1>1, <1>2, ViewIs
<1> QED
  BY <1>1, <1>3, <1>4, <1>5, <1>6, <1>7 DEF w, Views

LEMMA PushKeeps ==
    ASSUME IInv, NEW s \in Strategies, NEW t \in Tokens, NEW amount \in Amounts, Push(s, t, amount)
    PROVE  IInv'
<1> DEFINE bal == aqua[s][t].balance + amount
<1>0. ChainOK /\ amount \in Nat /\ amount \in 1 .. MaxBalance
  BY AquiferAssumption DEF IInv
<1>1. bal \in 0 .. MaxBalance /\ aqua[s][t].balance \in Nat
  <2>1. aqua[s][t].balance \in 0 .. MaxBalance
    BY <1>0, AquaIs
  <2> QED
    BY <1>0, <2>1, AquiferAssumption DEF Push
<1>2. aqua' = [aqua EXCEPT ![s] = [aqua[s] EXCEPT ![t] = [aqua[s][t] EXCEPT !.balance = bal]]]
  BY DEF Push
<1>3. aqua[s][t] \in Books /\ aqua[s] \in [Tokens -> Books] /\ aqua \in [Strategies -> [Tokens -> Books]]
  BY <1>0, AquaIs DEF ChainOK
<1> HIDE DEF bal
<1>4. [aqua[s][t] EXCEPT !.balance = bal] \in Books
  BY <1>1, <1>3 DEF Books
<1>5. aqua' \in [Strategies -> [Tokens -> Books]]
  BY <1>2, <1>3, <1>4
<1>6. /\ \A r \in Strategies \ {s} : aqua'[r] = aqua[r]
      /\ \A u \in Tokens : aqua'[s][u].count = aqua[s][u].count
      /\ \A u \in Tokens : aqua'[s][u].balance = IF u = t THEN bal ELSE aqua[s][u].balance
  <2>1. \A r \in Strategies \ {s} : aqua'[r] = aqua[r]
    BY <1>2, <1>3
  <2>2. aqua'[s] = [aqua[s] EXCEPT ![t] = [aqua[s][t] EXCEPT !.balance = bal]]
    BY <1>2, <1>3
  <2>3. [aqua[s][t] EXCEPT !.balance = bal].count = aqua[s][t].count /\ [aqua[s][t] EXCEPT !.balance = bal].balance = bal
    BY <1>3 DEF Books
  <2>4. \A u \in Tokens : aqua'[s][u] = IF u = t THEN [aqua[s][t] EXCEPT !.balance = bal] ELSE aqua[s][u]
    BY <1>3, <2>2
  <2> QED
    BY <2>1, <2>3, <2>4
<1>7. \A u \in Tokens : IsLive(s, u)' <=> IsLive(s, u)
  BY <1>6 DEF IsLive
<1>8. LiveBook(s)' <=> LiveBook(s)
  BY <1>7 DEF LiveBook
<1>9. ChainOK'
  <2>1. LiveBook(s)' => \E list \in ShipLists[s] : OneList(s, list)'
    BY <1>0, <1>6, <1>8, ListKept DEF ChainOK
  <2> QED
    BY <1>0, <1>5, <1>6, <2>1, ChainElse
<1> DEFINE e == [kind |-> "Pushed", s |-> s, t |-> t, amount |-> amount]
<1>10. e \in Event /\ e.kind = "Pushed" /\ e.s = s /\ e.t = t /\ e.amount = amount
  BY DEF Event
<1>11. Emit(<<e>>) /\ UNCHANGED index /\ IsLive(s, t)
  BY DEF Push
<1> HIDE DEF e
<1>12. ASSUME NEW v \in Views, Agrees(v) PROVE \E g : Trace(g, <<e>>, v) /\ Agrees(g[Len(<<e>>)])'
  <2>1. s \in v.on /\ v.held[s][t] # None /\ aqua[s][t].balance = Base(v.held[s][t]) /\ LiveBook(s)
    BY <1>11, <1>12 DEF Agrees, LiveBook
  <2> PICK w : w = Paid(v, s, t, bal)
    OBVIOUS
  <2>2. /\ w \in Views /\ w.on = v.on /\ \A r \in Strategies \ {s} : w.held[r] = v.held[r]
        /\ \A u \in Tokens : w.held[s][u] = IF u = t THEN bal ELSE v.held[s][u]
    BY <1>1, <2>1, PaidView
  <2>3. bal = Base(v.held[s][t]) + amount
    BY <2>1 DEF bal
  <2>4. Follows(v, e, w)
    BY <1>10, <2>1, <2>3 DEF Follows
  <2>5. bal # None /\ Base(bal) = bal
    BY <1>1, AquiferAssumption DEF None, Base
  <2>6. \A u \in Tokens : /\ IsLive(s, u)' <=> s \in w.on /\ w.held[s][u] # None
                          /\ aqua'[s][u].balance = Base(w.held[s][u])
    BY <1>6, <1>7, <1>11, <1>12, <2>1, <2>2, <2>5 DEF Agrees
  <2>7. Agrees(w)'
    BY <1>6, <1>8, <1>12, <2>1, <2>2, <2>6, AgreesElse
  <2>8. PICK g : Trace(g, <<e>>, v) /\ g[Len(<<e>>)] = w
    BY <1>10, <2>2, <2>4, OneEvent
  <2>9. Agrees(g[Len(<<e>>)])'
    BY <2>7, <2>8
  <2> QED
    BY <2>8, <2>9
<1>13. PICK M \in Seq(Event) : M = <<e>>
  <2>1. <<e>> \in Seq(Event)
    BY <1>10
  <2> QED
    BY <2>1
<1>14. Emit(M) /\ \A v \in Views : Agrees(v) => \E g : Trace(g, M, v) /\ Agrees(g[Len(M)])'
  BY <1>11, <1>12, <1>13
<1> QED
  BY <1>9, <1>11, <1>14, EmitKeeps

LEMMA DockKeeps ==
    ASSUME IInv, NEW s \in Strategies, NEW list \in ShipLists[s], Dock(s, list)
    PROVE  IInv'
<1> DEFINE new == [t \in Tokens |-> IF t \in ToSet(list) THEN [count |-> Docked, balance |-> 0] ELSE aqua[s][t]]
<1>0. ChainOK /\ ToSet(list) \subseteq Tokens /\ ToSet(list) # {} /\ Len(list) # NeverShipped /\ Len(list) # Docked
  BY ListIs DEF IInv
<1>1. aqua' = [aqua EXCEPT ![s] = new] /\ UNCHANGED index /\ Emit(<<[kind |-> "Docked", s |-> s]>>)
      /\ \A t \in ToSet(list) : aqua[s][t].count = Len(list)
  BY DEF Dock
<1>2. aqua[s] \in [Tokens -> Books] /\ aqua \in [Strategies -> [Tokens -> Books]]
  BY <1>0 DEF ChainOK
<1>3. [count |-> Docked, balance |-> 0] \in Books
  <2>1. MaxBalance \in Nat
    BY AquiferAssumption
  <2> QED
    BY <2>1 DEF Books, Docked
<1>4. new \in [Tokens -> Books]
  BY <1>2, <1>3
<1>5. aqua' \in [Strategies -> [Tokens -> Books]]
  BY <1>1, <1>2, <1>4
<1>6. /\ \A r \in Strategies \ {s} : aqua'[r] = aqua[r]
      /\ \A t \in Tokens : aqua'[s][t] = IF t \in ToSet(list) THEN [count |-> Docked, balance |-> 0] ELSE aqua[s][t]
  BY <1>1, <1>2
<1> HIDE DEF new
<1>7. \A t \in ToSet(list) : IsLive(s, t)
  BY <1>0, <1>1 DEF IsLive
<1>8. LiveBook(s)
  BY <1>0, <1>7 DEF LiveBook
\* The list docked is the list shipped.
<1>9. \A t \in Tokens : IsLive(s, t) <=> t \in ToSet(list)
  <2>1. PICK l \in ShipLists[s] : OneList(s, l)
    BY <1>0, <1>8 DEF ChainOK
  <2>2. PICK t \in ToSet(list) : TRUE
    BY <1>0
  <2>3. Len(list) = Len(l)
    BY <1>0, <1>1, <1>7, <2>1, <2>2 DEF OneList
  <2>4. ToSet(list) \subseteq ToSet(l)
    BY <1>0, <1>7, <2>1 DEF OneList
  <2>5. /\ IsFiniteSet(ToSet(l)) /\ Cardinality(ToSet(l)) = Len(l)
        /\ IsFiniteSet(ToSet(list)) /\ Cardinality(ToSet(list)) = Len(list)
    BY ListIs, ListCount
  <2>6. ToSet(list) = ToSet(l)
    BY <2>3, <2>4, <2>5, FS_Subset
  <2> QED
    BY <2>1, <2>6 DEF OneList
<1>10. \A t \in Tokens : ~ IsLive(s, t)'
  BY <1>6, <1>9 DEF IsLive, Docked
<1>11. ~ LiveBook(s)'
  BY <1>10 DEF LiveBook
<1>12. ChainOK'
  BY <1>0, <1>5, <1>6, <1>11, ChainElse
<1> DEFINE e == [kind |-> "Docked", s |-> s]
<1>13. e \in Event /\ e.kind = "Docked" /\ e.s = s /\ Emit(<<e>>)
  BY <1>1 DEF Event
<1> HIDE DEF e
<1>14. ASSUME NEW v \in Views, Agrees(v) PROVE \E g : Trace(g, <<e>>, v) /\ Agrees(g[Len(<<e>>)])'
  <2>1. s \in v.on
    BY <1>8, <1>14 DEF Agrees
  <2> PICK w : w = OnDocked(v, s)
    OBVIOUS
  <2>2. /\ w \in Views /\ w.on = v.on \ {s} /\ \A r \in Strategies \ {s} : w.held[r] = v.held[r]
        /\ \A t \in Tokens : w.held[s][t] = IF v.held[s][t] = None THEN None ELSE 0
    BY <2>1, DockedView
  <2>3. Follows(v, e, w)
    BY <1>13, <2>1 DEF Follows
  <2>4. ASSUME NEW t \in Tokens PROVE aqua'[s][t].balance = 0
    <3>1. CASE t \in ToSet(list)
      BY <1>6, <3>1
    <3>2. CASE t \notin ToSet(list)
      <4>1. ~ IsLive(s, t) /\ aqua'[s][t] = aqua[s][t]
        BY <1>6, <1>9, <3>2
      <4>2. v.held[s][t] = None /\ aqua[s][t].balance = Base(v.held[s][t])
        BY <1>14, <2>1, <4>1 DEF Agrees
      <4> QED
        BY <4>1, <4>2 DEF Base
    <3> QED
      BY <3>1, <3>2
  <2>5. \A t \in Tokens : Base(w.held[s][t]) = 0
    BY <2>2 DEF Base
  <2>6. \A t \in Tokens : /\ IsLive(s, t)' <=> s \in w.on /\ w.held[s][t] # None
                          /\ aqua'[s][t].balance = Base(w.held[s][t])
    BY <1>10, <2>2, <2>4, <2>5
  <2>7. Agrees(w)'
    BY <1>6, <1>11, <1>14, <2>2, <2>6, AgreesElse
  <2>8. PICK g : Trace(g, <<e>>, v) /\ g[Len(<<e>>)] = w
    BY <1>13, <2>2, <2>3, OneEvent
  <2>9. Agrees(g[Len(<<e>>)])'
    BY <2>7, <2>8
  <2> QED
    BY <2>8, <2>9
<1>15. PICK M \in Seq(Event) : M = <<e>>
  <2>1. <<e>> \in Seq(Event)
    BY <1>13
  <2> QED
    BY <2>1
<1>16. Emit(M) /\ \A v \in Views : Agrees(v) => \E g : Trace(g, M, v) /\ Agrees(g[Len(M)])'
  BY <1>13, <1>14, <1>15
<1> QED
  BY <1>1, <1>12, <1>16, EmitKeeps

\* A capped strategy's report comes first, and tells what Aqua's books promise.
LEMMA PullKeeps ==
    ASSUME IInv, NEW s \in Strategies, NEW t \in Tokens, NEW amount \in Amounts, NEW backing \in Amounts,
           Pull(s, t, amount, backing)
    PROVE  IInv'
<1> DEFINE bal == aqua[s][t].balance - amount
<1>0. ChainOK /\ amount \in Nat /\ amount \in 1 .. MaxBalance
  BY AquiferAssumption DEF IInv
<1>1. bal \in 0 .. MaxBalance /\ aqua[s][t].balance \in Nat
  <2>1. aqua[s][t].balance \in 0 .. MaxBalance
    BY <1>0, AquaIs
  <2> QED
    BY <1>0, <2>1, AquiferAssumption DEF Pull
<1>2. aqua' = [aqua EXCEPT ![s] = [aqua[s] EXCEPT ![t] = [aqua[s][t] EXCEPT !.balance = bal]]]
  BY DEF Pull
<1>3. aqua[s][t] \in Books /\ aqua[s] \in [Tokens -> Books] /\ aqua \in [Strategies -> [Tokens -> Books]]
  BY <1>0, AquaIs DEF ChainOK
<1> HIDE DEF bal
<1>4. [aqua[s][t] EXCEPT !.balance = bal] \in Books
  BY <1>1, <1>3 DEF Books
<1>5. aqua' \in [Strategies -> [Tokens -> Books]]
  BY <1>2, <1>3, <1>4
<1>6. /\ \A r \in Strategies \ {s} : aqua'[r] = aqua[r]
      /\ \A u \in Tokens : aqua'[s][u].count = aqua[s][u].count
      /\ \A u \in Tokens : aqua'[s][u].balance = IF u = t THEN bal ELSE aqua[s][u].balance
  <2>1. \A r \in Strategies \ {s} : aqua'[r] = aqua[r]
    BY <1>2, <1>3
  <2>2. aqua'[s] = [aqua[s] EXCEPT ![t] = [aqua[s][t] EXCEPT !.balance = bal]]
    BY <1>2, <1>3
  <2>3. [aqua[s][t] EXCEPT !.balance = bal].count = aqua[s][t].count /\ [aqua[s][t] EXCEPT !.balance = bal].balance = bal
    BY <1>3 DEF Books
  <2>4. \A u \in Tokens : aqua'[s][u] = IF u = t THEN [aqua[s][t] EXCEPT !.balance = bal] ELSE aqua[s][u]
    BY <1>3, <2>2
  <2> QED
    BY <2>1, <2>3, <2>4
<1>7. \A u \in Tokens : IsLive(s, u)' <=> IsLive(s, u)
  BY <1>6 DEF IsLive
<1>8. LiveBook(s)' <=> LiveBook(s)
  BY <1>7 DEF LiveBook
<1>9. ChainOK'
  <2>1. LiveBook(s)' => \E list \in ShipLists[s] : OneList(s, list)'
    BY <1>0, <1>6, <1>8, ListKept DEF ChainOK
  <2> QED
    BY <1>0, <1>5, <1>6, <2>1, ChainElse
<1> DEFINE e == [kind |-> "Pulled", s |-> s, t |-> t, amount |-> amount]
<1>10. e \in Event /\ e.kind = "Pulled" /\ e.s = s /\ e.t = t /\ e.amount = amount
  BY DEF Event
<1>11. UNCHANGED index /\ IsLive(s, t) /\ amount <= aqua[s][t].balance
  BY DEF Pull
<1> HIDE DEF e
<1>12. ASSUME NEW v \in Views, Agrees(v) PROVE \E g : Trace(g, <<e>>, v) /\ Agrees(g[Len(<<e>>)])'
  <2>1. s \in v.on /\ v.held[s][t] # None /\ aqua[s][t].balance = Base(v.held[s][t]) /\ LiveBook(s)
    BY <1>11, <1>12 DEF Agrees, LiveBook
  <2> PICK w : w = Paid(v, s, t, bal)
    OBVIOUS
  <2>2. /\ w \in Views /\ w.on = v.on /\ \A r \in Strategies \ {s} : w.held[r] = v.held[r]
        /\ \A u \in Tokens : w.held[s][u] = IF u = t THEN bal ELSE v.held[s][u]
    BY <1>1, <2>1, PaidView
  <2>3. bal = v.held[s][t] - amount /\ amount <= v.held[s][t]
    BY <1>11, <2>1 DEF bal, Base
  <2>4. Follows(v, e, w)
    BY <1>10, <2>1, <2>3 DEF Follows
  <2>5. bal # None /\ Base(bal) = bal
    BY <1>1, AquiferAssumption DEF None, Base
  <2>6. \A u \in Tokens : /\ IsLive(s, u)' <=> s \in w.on /\ w.held[s][u] # None
                          /\ aqua'[s][u].balance = Base(w.held[s][u])
    BY <1>6, <1>7, <1>11, <1>12, <2>1, <2>2, <2>5 DEF Agrees
  <2>7. Agrees(w)'
    BY <1>6, <1>8, <1>12, <2>1, <2>2, <2>6, AgreesElse
  <2>8. PICK g : Trace(g, <<e>>, v) /\ g[Len(<<e>>)] = w
    BY <1>10, <2>2, <2>4, OneEvent
  <2>9. Agrees(g[Len(<<e>>)])'
    BY <2>7, <2>8
  <2> QED
    BY <2>8, <2>9
<1>13. <<e>> \in Seq(Event)
  BY <1>10
<1>14. CASE ~ UsesEncumbrance[s]
  <2>1. PICK M \in Seq(Event) : M = <<e>>
    BY <1>13
  <2>2. Emit(M) /\ \A v \in Views : Agrees(v) => \E g : Trace(g, M, v) /\ Agrees(g[Len(M)])'
    BY <1>12, <1>14, <2>1 DEF Pull, e
  <2> QED
    BY <1>9, <1>11, <2>2, EmitKeeps
<1>15. CASE UsesEncumbrance[s]
  <2> DEFINE applied == [kind |-> "EncumbranceApplied", s |-> s, t |-> t, backing |-> backing, due |-> Promised(t)]
  <2>1. ASSUME NEW v \in Views, Agrees(v) PROVE Promised(t) = Owed(v, t) /\ Promised(t) \in Nat
    <3>1. \A r \in Strategies : Row(v, t)[r] = aqua[r][t].balance
      BY <2>1 DEF Agrees, Row
    <3> QED
      BY <3>1, <2>1, PromisedIs, RowIs DEF Owed
  <2>2. PICK d : d = applied
    OBVIOUS
  <2>3. PICK M : M = <<d, e>>
    OBVIOUS
  <2>4. Emit(M)
    BY <1>15, <2>2, <2>3 DEF Pull, e
  <2>5. ASSUME NEW v \in Views, Agrees(v)
        PROVE  M \in Seq(Event) /\ \E g : Trace(g, M, v) /\ Agrees(g[Len(M)])'
    <3>1. d \in Event /\ Follows(v, d, v)
      BY <2>1, <2>2, <2>5 DEF Event, Follows
    <3>2. <<d>> \in Seq(Event) /\ M = <<d>> \o <<e>>
      BY <1>10, <2>3, <3>1
    <3>3. PICK h : Trace(h, <<d>>, v) /\ h[Len(<<d>>)] = v
      BY <3>1, OneEvent
    <3>4. PICK g : Trace(g, <<e>>, v) /\ Agrees(g[Len(<<e>>)])'
      BY <1>12, <2>5
    <3>5. M \in Seq(Event) /\ \E k : Trace(k, M, v) /\ k[Len(M)] = g[Len(<<e>>)]
      <4>1. ASSUME NEW K \in Seq(Event), NEW L \in Seq(Event), Trace(h, K, v), h[Len(K)] = v, Trace(g, L, v)
            PROVE  K \o L \in Seq(Event) /\ \E k : Trace(k, K \o L, v) /\ k[Len(K \o L)] = g[Len(L)]
        BY <4>1, TraceJoin
      <4>2. /\ <<d>> \o <<e>> \in Seq(Event)
            /\ \E k : Trace(k, <<d>> \o <<e>>, v) /\ k[Len(<<d>> \o <<e>>)] = g[Len(<<e>>)]
        BY <1>13, <3>2, <3>3, <3>4, <4>1
      <4> QED
        BY <3>2, <4>2
    <3>6. PICK k : Trace(k, M, v) /\ k[Len(M)] = g[Len(<<e>>)]
      BY <3>5
    <3>7. Agrees(k[Len(M)])'
      BY <3>4, <3>6
    <3> QED
      BY <3>5, <3>6, <3>7
  <2>6. M \in Seq(Event)
    <3>1. PICK h : Trace(h, log, Seen) /\ Agrees(h[Len(log)])
      BY DEF IInv, ComesOut
    <3>2. Len(log) \in 0 .. Len(log)
      BY DEF IInv
    <3>3. h[Len(log)] \in Views
      BY <3>1, <3>2 DEF Trace
    <3> QED
      BY <2>5, <3>1, <3>3
  <2> QED
    BY <1>9, <1>11, <2>4, <2>5, <2>6, EmitKeeps
<1> QED
  BY <1>14, <1>15

(***************************************************************************)
(* A ship: the view once s is on and the first j tokens are pushed.        *)
(***************************************************************************)
First(list, j) == {list[i] : i \in 1 .. j}

ShipView(v, s, list, a, j) ==
    [held |-> [v.held EXCEPT ![s] = [t \in Tokens |-> IF t \in First(list, j) THEN a ELSE None]], on |-> v.on \cup {s}]

LEMMA ShipViewIs ==
    ASSUME NEW v \in Views, NEW s \in Strategies, NEW list \in ShipLists[s], NEW a \in Amounts, NEW j \in 0 .. Len(list)
    PROVE  /\ ShipView(v, s, list, a, j) \in Views /\ ShipView(v, s, list, a, j).on = v.on \cup {s}
           /\ \A r \in Strategies \ {s} : ShipView(v, s, list, a, j).held[r] = v.held[r]
           /\ \A t \in Tokens : ShipView(v, s, list, a, j).held[s][t] = IF t \in First(list, j) THEN a ELSE None
           /\ a \in Nat /\ a \in 0 .. MaxBalance /\ a # None /\ a \in Holding
<1> DEFINE w == ShipView(v, s, list, a, j)
           row == [t \in Tokens |-> IF t \in First(list, j) THEN a ELSE None]
<1>0. a \in Nat /\ a \in 0 .. MaxBalance /\ a # None /\ a \in Holding /\ None \in Holding
  <2>1. a \in 1 .. MaxBalance /\ MaxBalance \in Nat
    BY AquiferAssumption
  <2> QED
    BY <2>1 DEF Holding, None
<1>1. w.held = [v.held EXCEPT ![s] = row] /\ w.on = v.on \cup {s} /\ w = [held |-> w.held, on |-> w.on]
  BY DEF ShipView
<1>2. w.held \in [Strategies -> [Tokens -> Holding]] /\ v.held \in [Strategies -> [Tokens -> Holding]]
  BY <1>0, <1>1, ViewIs
<1>3. \A r \in Strategies \ {s} : w.held[r] = v.held[r]
  BY <1>1, <1>2
<1>4. \A t \in Tokens : w.held[s][t] = IF t \in First(list, j) THEN a ELSE None
  BY <1>1, <1>2
<1> HIDE DEF w, row
<1>5. Settled(w)
  BY <1>1, <1>3, ViewIs DEF Settled
<1>6. First(list, j) \subseteq ToSet(list)
  <2>1. \A i \in 1 .. j : i \in 1 .. Len(list)
    BY ListIs
  <2> QED
    BY <2>1, ListIs DEF First, ToSet
<1>7. Listed(w)
  <2>1. ASSUME NEW r \in w.on, \E t \in Tokens : w.held[r][t] # None
        PROVE  \E l \in ShipLists[r] : \A t \in Tokens : w.held[r][t] # None => t \in ToSet(l)
    <3>1. CASE r = s
      <4>1. \A t \in Tokens : w.held[s][t] # None => t \in ToSet(list)
        BY <1>4, <1>6
      <4> QED
        BY <3>1, <4>1
    <3>2. CASE r # s
      <4>1. w.held[r] = v.held[r] /\ r \in v.on
        BY <1>1, <1>3, <2>1, <3>2, ViewIs
      <4> QED
        BY <2>1, <4>1, ViewIs DEF Listed
    <3> QED
      BY <3>1, <3>2
  <2> QED
    BY <2>1 DEF Listed
<1>8. w \in [held : [Strategies -> [Tokens -> Holding]], on : SUBSET Strategies]
  BY <1>1, <1>2, ViewIs
<1> QED
  BY <1>0, <1>1, <1>3, <1>4, <1>5, <1>7, <1>8 DEF w, Views

LEMMA ShipBegins ==
    ASSUME NEW v \in Views, NEW s \in Strategies, NEW list, NEW a
    PROVE  OnShipped(v, s) = ShipView(v, s, list, a, 0)
<1>1. First(list, 0) = {}
  BY DEF First
<1> QED
  BY <1>1 DEF OnShipped, ShipView

LEMMA ShipPushes ==
    ASSUME NEW v \in Views, NEW s \in Strategies, NEW list \in ShipLists[s], NEW a \in Amounts, NEW j \in 1 .. Len(list),
           NEW e, e = [kind |-> "Pushed", s |-> s, t |-> list[j], amount |-> a]
    PROVE  Follows(ShipView(v, s, list, a, j - 1), e, ShipView(v, s, list, a, j))
<1> DEFINE t == list[j]
<1>1. Len(list) \in Nat /\ j \in Nat /\ j - 1 \in 0 .. Len(list) /\ j \in 0 .. Len(list) /\ t \in Tokens
      /\ list \in Seq(Tokens) /\ IsInjective(list)
  BY ListIs
<1>2. t \notin First(list, j - 1) /\ First(list, j) = First(list, j - 1) \cup {t}
  <2>1. \A i \in 1 .. j - 1 : i \in 1 .. Len(list) /\ i # j
    BY <1>1
  <2>2. \A i \in 1 .. j : i = j \/ i \in 1 .. j - 1
    BY <1>1
  <2>3. \A i \in 1 .. j - 1 : i \in 1 .. j
    BY <1>1
  <2>4. \A i \in 1 .. j - 1 : list[i] # t
    BY <1>1, <2>1 DEF IsInjective
  <2>5. j \in 1 .. j
    BY <1>1
  <2> HIDE DEF t
  <2>6. t = list[j]
    BY DEF t
  <2> QED
    BY <2>2, <2>3, <2>4, <2>5, <2>6 DEF First
<1> PICK p : p = ShipView(v, s, list, a, j - 1)
  OBVIOUS
<1> PICK w : w = ShipView(v, s, list, a, j)
  OBVIOUS
<1> HIDE DEF t
<1>3. /\ p.on = v.on \cup {s} /\ p.held[s][t] = None /\ a \in Nat
  BY <1>1, <1>2, ShipViewIs
<1>4. p.held = [v.held EXCEPT ![s] = [u \in Tokens |-> IF u \in First(list, j - 1) THEN a ELSE None]]
  BY DEF ShipView
<1>5. w = [held |-> [v.held EXCEPT ![s] = [u \in Tokens |-> IF u \in First(list, j) THEN a ELSE None]], on |-> v.on \cup {s}]
  BY DEF ShipView
<1>6. p.held[s] = [u \in Tokens |-> IF u \in First(list, j - 1) THEN a ELSE None]
  BY <1>4, ViewIs
<1>7. [p.held[s] EXCEPT ![t] = a] = [u \in Tokens |-> IF u \in First(list, j) THEN a ELSE None]
  BY <1>1, <1>2, <1>6
<1>8. [p.held EXCEPT ![s] = [p.held[s] EXCEPT ![t] = a]]
        = [v.held EXCEPT ![s] = [u \in Tokens |-> IF u \in First(list, j) THEN a ELSE None]]
  BY <1>4, <1>7, ViewIs
<1>9. w = Paid(p, s, t, a)
  BY <1>3, <1>5, <1>8 DEF Paid
<1>10. Base(p.held[s][t]) + a = a
  BY <1>3 DEF Base
<1>11. e.kind = "Pushed" /\ e.s = s /\ e.t = t /\ e.amount = a
  BY DEF t
<1>12. Follows(p, e, w)
  BY <1>3, <1>9, <1>10, <1>11 DEF Follows
<1> QED
  BY <1>12

Pushes(s, list, a) == [i \in DOMAIN list |-> [kind |-> "Pushed", s |-> s, t |-> list[i], amount |-> a]]

LEMMA ShipTrace ==
    ASSUME NEW v \in Views, NEW s \in Strategies, s \notin v.on, NEW list \in ShipLists[s], NEW a \in Amounts,
           NEW M, M = <<[kind |-> "Shipped", s |-> s]>> \o Pushes(s, list, a)
    PROVE  M \in Seq(Event) /\ \E k : Trace(k, M, v) /\ k[Len(M)] = ShipView(v, s, list, a, Len(list))
<1> DEFINE n == Len(list)
           P == Pushes(s, list, a)
           e == [kind |-> "Shipped", s |-> s]
           h == [j \in 0 .. n |-> ShipView(v, s, list, a, j)]
<1>1. n \in Nat /\ DOMAIN list = 1 .. n /\ \A i \in 1 .. n : list[i] \in Tokens
  BY ListIs
<1>2. P \in Seq(Event) /\ Len(P) = n /\ \A i \in 1 .. n : P[i] = [kind |-> "Pushed", s |-> s, t |-> list[i], amount |-> a]
  <2>1. \A i \in 1 .. n : [kind |-> "Pushed", s |-> s, t |-> list[i], amount |-> a] \in Event
    BY <1>1 DEF Event
  <2>2. P = [i \in 1 .. n |-> [kind |-> "Pushed", s |-> s, t |-> list[i], amount |-> a]]
    BY <1>1 DEF Pushes
  <2> HIDE DEF n, P
  <2>3. P \in [1 .. n -> Event]
    BY <2>1, <2>2
  <2>4. P \in Seq(Event) /\ Len(P) = n
    BY <1>1, <2>3
  <2> QED
    BY <2>2, <2>4
<1>3. \A j \in 0 .. n : ShipView(v, s, list, a, j) \in Views
  BY ShipViewIs
<1>4. h \in [0 .. n -> Views] /\ \A j \in 0 .. n : h[j] = ShipView(v, s, list, a, j)
  BY <1>3
<1>5. ASSUME NEW i \in 1 .. n PROVE Follows(h[i - 1], P[i], h[i])
  <2>1. i \in 0 .. n /\ i - 1 \in 0 .. n
    BY <1>1
  <2>2. h[i] = ShipView(v, s, list, a, i) /\ h[i - 1] = ShipView(v, s, list, a, i - 1)
    BY <1>4, <2>1
  <2>3. P[i] = [kind |-> "Pushed", s |-> s, t |-> list[i], amount |-> a]
    BY <1>2
  <2> HIDE DEF P, h
  <2>4. Follows(ShipView(v, s, list, a, i - 1), P[i], ShipView(v, s, list, a, i))
    BY <2>3, ShipPushes
  <2> QED
    BY <2>2, <2>4
<1> PICK w : w = OnShipped(v, s)
  OBVIOUS
<1>6. 0 \in 0 .. n /\ n \in 0 .. n
  BY <1>1
<1>7. h[0] = w /\ w \in Views /\ h[n] = ShipView(v, s, list, a, n)
  BY <1>3, <1>4, <1>6, ShipBegins
<1> HIDE DEF P, h, n
<1>8. Trace(h, P, w)
  BY <1>2, <1>4, <1>5, <1>7 DEF Trace
<1>9. e \in Event /\ e.kind = "Shipped" /\ e.s = s
  BY DEF Event
<1>10. Follows(v, e, w)
  BY <1>9 DEF Follows
<1> HIDE DEF e
<1>11. PICK g : Trace(g, <<e>>, v) /\ g[Len(<<e>>)] = w
  BY <1>7, <1>9, <1>10, OneEvent
<1>12. <<e>> \in Seq(Event) /\ M = <<e>> \o P
  BY <1>9 DEF e, P
<1>13. M \in Seq(Event) /\ \E k : Trace(k, M, v) /\ k[Len(M)] = h[Len(P)]
  <2> PICK L \in Seq(Event) : L = <<e>>
    BY <1>12
  <2>1. Trace(g, L, v) /\ Trace(h, P, g[Len(L)]) /\ M = L \o P
    BY <1>8, <1>11, <1>12
  <2>2. P \in Seq(Event)
    BY <1>2
  <2>3. ASSUME NEW K \in Seq(Event), Trace(g, K, v), Trace(h, P, g[Len(K)])
        PROVE  K \o P \in Seq(Event) /\ \E k : Trace(k, K \o P, v) /\ k[Len(K \o P)] = h[Len(P)]
    BY <2>2, <2>3, TraceJoin
  <2> QED
    BY <2>1, <2>3
<1> QED
  BY <1>2, <1>7, <1>13 DEF n

LEMMA ShipKeeps ==
    ASSUME ~ ReshipsLive, IInv, NEW s \in Strategies, NEW list \in ShipLists[s], NEW amount \in Amounts,
           Ship(s, list, amount)
    PROVE  IInv'
<1> DEFINE new == [t \in Tokens |-> IF t \in ToSet(list) THEN [count |-> Len(list), balance |-> amount] ELSE aqua[s][t]]
           M == <<[kind |-> "Shipped", s |-> s]>> \o Pushes(s, list, amount)
<1>0. /\ ChainOK /\ ToSet(list) \subseteq Tokens /\ ToSet(list) # {}
      /\ Len(list) # NeverShipped /\ Len(list) # Docked /\ Len(list) \in Nat /\ DOMAIN list = 1 .. Len(list)
  BY ListIs DEF IInv
<1>1. aqua' = [aqua EXCEPT ![s] = new] /\ UNCHANGED index /\ Emit(M) /\ ~ LiveBook(s)
  BY DEF Ship, Pushes
<1>2. aqua[s] \in [Tokens -> Books] /\ aqua \in [Strategies -> [Tokens -> Books]]
  BY <1>0 DEF ChainOK
<1>3. [count |-> Len(list), balance |-> amount] \in Books
  <2>1. amount \in 0 .. MaxBalance
    BY AquiferAssumption
  <2> QED
    BY <1>0, <2>1 DEF Books
<1>4. new \in [Tokens -> Books]
  BY <1>2, <1>3
<1>5. aqua' \in [Strategies -> [Tokens -> Books]]
  BY <1>1, <1>2, <1>4
<1>6. /\ \A r \in Strategies \ {s} : aqua'[r] = aqua[r]
      /\ \A t \in Tokens : aqua'[s][t] = IF t \in ToSet(list) THEN [count |-> Len(list), balance |-> amount] ELSE aqua[s][t]
  BY <1>1, <1>2
<1> HIDE DEF new, M
<1>7. OneList(s, list)'
  <2>1. ASSUME NEW t \in Tokens PROVE IsLive(s, t)' <=> t \in ToSet(list)
    <3>1. CASE t \in ToSet(list)
      BY <1>0, <1>6, <3>1 DEF IsLive
    <3>2. CASE t \notin ToSet(list)
      <4>1. ~ IsLive(s, t)
        BY <1>1 DEF LiveBook
      <4>2. aqua'[s][t] = aqua[s][t]
        BY <1>6, <3>2
      <4>3. ~ IsLive(s, t)'
        BY <4>1, <4>2 DEF IsLive
      <4> QED
        BY <3>2, <4>3
    <3> QED
      BY <3>1, <3>2
  <2>2. ASSUME NEW t \in ToSet(list) PROVE aqua'[s][t].count = Len(list)
    BY <1>0, <1>6
  <2> QED
    BY <2>1, <2>2 DEF OneList
<1>8. LiveBook(s)'
  <2>1. \A t \in Tokens : IsLive(s, t)' <=> t \in ToSet(list)
    BY <1>7 DEF OneList
  <2> QED
    BY <1>0, <2>1 DEF LiveBook
<1>9. ChainOK'
  BY <1>0, <1>5, <1>6, <1>7, ChainElse
<1>10. ASSUME NEW v \in Views, Agrees(v)
       PROVE  M \in Seq(Event) /\ \E g : Trace(g, M, v) /\ Agrees(g[Len(M)])'
  <2>1. s \notin v.on
    BY <1>1, <1>10 DEF Agrees
  <2> PICK w : w = ShipView(v, s, list, amount, Len(list))
    OBVIOUS
  <2>2. Len(list) \in 0 .. Len(list) /\ First(list, Len(list)) = ToSet(list)
    BY <1>0 DEF First, ToSet
  <2>3. /\ w \in Views /\ w.on = v.on \cup {s} /\ \A r \in Strategies \ {s} : w.held[r] = v.held[r]
        /\ \A t \in Tokens : w.held[s][t] = IF t \in ToSet(list) THEN amount ELSE None
        /\ amount # None
    BY <2>2, ShipViewIs
  <2>4. ASSUME NEW t \in Tokens PROVE aqua'[s][t].balance = Base(w.held[s][t])
    <3>1. CASE t \in ToSet(list)
      BY <1>6, <2>3, <3>1 DEF Base
    <3>2. CASE t \notin ToSet(list)
      <4>1. v.held[s][t] \in {None, 0}
        BY <2>1, ViewIs DEF Settled
      <4>2. aqua[s][t].balance = 0
        BY <1>10, <4>1 DEF Agrees, Base
      <4> QED
        BY <1>6, <2>3, <3>2, <4>2 DEF Base
    <3> QED
      BY <3>1, <3>2
  <2>5. ASSUME NEW t \in Tokens PROVE IsLive(s, t)' <=> s \in w.on /\ w.held[s][t] # None
    <3>1. IsLive(s, t)' <=> t \in ToSet(list)
      BY <1>7 DEF OneList
    <3> QED
      BY <2>3, <3>1
  <2>6. s \in w.on <=> LiveBook(s)'
    BY <1>8, <2>3
  <2>7. \A t \in Tokens : /\ IsLive(s, t)' <=> s \in w.on /\ w.held[s][t] # None
                          /\ aqua'[s][t].balance = Base(w.held[s][t])
    BY <2>4, <2>5
  <2>8. Agrees(w)'
    BY <1>6, <1>10, <2>3, <2>6, <2>7, AgreesElse
  <2>9. M \in Seq(Event) /\ \E g : Trace(g, M, v) /\ g[Len(M)] = w
    <3>1. \A K : K = <<[kind |-> "Shipped", s |-> s]>> \o Pushes(s, list, amount) =>
             K \in Seq(Event) /\ \E g : Trace(g, K, v) /\ g[Len(K)] = ShipView(v, s, list, amount, Len(list))
      <4> HIDE DEF M
      <4> QED
        BY <2>1, ShipTrace
    <3> QED
      BY <3>1 DEF M
  <2>10. PICK g : Trace(g, M, v) /\ g[Len(M)] = w
    BY <2>9
  <2>11. Agrees(g[Len(M)])'
    BY <2>8, <2>10
  <2> QED
    BY <2>9, <2>10, <2>11
<1>11. M \in Seq(Event)
  <2>1. PICK h : Trace(h, log, Seen) /\ Agrees(h[Len(log)])
    BY DEF IInv, ComesOut
  <2>2. Len(log) \in 0 .. Len(log)
    BY DEF IInv
  <2>3. h[Len(log)] \in Views
    BY <2>1, <2>2 DEF Trace
  <2> QED
    BY <1>10, <2>1, <2>3
<1> PICK L \in Seq(Event) : L = M
  BY <1>11
<1>12. Emit(L) /\ \A v \in Views : Agrees(v) => \E g : Trace(g, L, v) /\ Agrees(g[Len(L)])'
  BY <1>1, <1>10
<1> QED
  BY <1>1, <1>9, <1>12, EmitKeeps

-----------------------------------------------------------------------------
(* The index: each handler makes of the view what its event says.           *)

LEMMA IndexStep ==
    ASSUME IInv, log # <<>>
    PROVE  /\ Seen \in Views /\ Head(log) \in Event
           /\ \E w \in Views :
                 /\ Follows(Seen, Head(log), w)
                 /\ log' = Tail(log) /\ UNCHANGED aqua /\ Seen' = w
                        => ChainOK' /\ log' \in Seq(Event) /\ Len(log') <= MaxLag /\ ComesOut'
<1>1. log \in Seq(Event) /\ Len(log) <= MaxLag /\ ChainOK /\ MaxLag \in Nat
  BY AquiferAssumption DEF IInv
<1>2. PICK h : Trace(h, log, Seen) /\ Agrees(h[Len(log)])
  BY DEF IInv, ComesOut
<1> PICK v : v = Seen
  OBVIOUS
<1>3. /\ h[1] \in Views /\ v \in Views /\ Follows(v, Head(log), h[1]) /\ Head(log) \in Event
      /\ \E k : Trace(k, Tail(log), h[1]) /\ k[Len(Tail(log))] = h[Len(log)]
  <2>1. \A L \in Seq(Event) : L # <<>> /\ Trace(h, L, v) =>
           /\ h[1] \in Views /\ v \in Views /\ Follows(v, Head(L), h[1]) /\ Head(L) \in Event
           /\ \E k : Trace(k, Tail(L), h[1]) /\ k[Len(Tail(L))] = h[Len(L)]
    BY TraceTail
  <2>2. Trace(h, log, v)
    BY <1>2
  <2> QED
    BY <1>1, <2>1, <2>2
<1>4. PICK k : Trace(k, Tail(log), h[1]) /\ k[Len(Tail(log))] = h[Len(log)]
  BY <1>3
<1>5. Tail(log) \in Seq(Event) /\ Len(Tail(log)) <= MaxLag
  BY <1>1
<1> PICK w \in Views : w = h[1]
  BY <1>3
<1>6. ASSUME log' = Tail(log), UNCHANGED aqua, Seen' = w
      PROVE  ChainOK' /\ log' \in Seq(Event) /\ Len(log') <= MaxLag /\ ComesOut'
  <2>1. ChainOK'
    BY <1>1, <1>6 DEF ChainOK, OneList, LiveBook, IsLive
  <2>2. PICK u : u = h[Len(log)]
    OBVIOUS
  <2>3. Agrees(u)
    BY <1>2, <2>2
  <2>4. Agrees(u)'
    BY <1>6, <2>3 DEF Agrees, LiveBook, IsLive
  <2>5. Trace(k, log', Seen') /\ k[Len(log')] = u
    BY <1>4, <1>6, <2>2
  <2>6. Agrees(k[Len(log)])'
    BY <2>4, <2>5
  <2> QED
    BY <1>5, <1>6, <2>1, <2>5, <2>6 DEF ComesOut
<1> QED
  BY <1>3, <1>6

LEMMA CountsAre ==
    ASSUME NEW w, Seen' = w, active' = Cardinality(w.on),
           \A t \in Tokens : /\ position'[t].totalCommitted = Owed(w, t)
                             /\ position'[t].activeStrategies = Cardinality(Holders(w, t))
    PROVE  CountsOK'
BY DEF CountsOK

LEMMA CountsWere ==
    ASSUME IInv, NEW v, v = Seen
    PROVE  /\ active = Cardinality(v.on)
           /\ \A t \in Tokens : /\ position[t].totalCommitted = Owed(v, t)
                                /\ position[t].activeStrategies = Cardinality(Holders(v, t))
           /\ v.held = remaining /\ \A s \in Strategies : s \in v.on <=> strategy[s].active
BY DEF IInv, CountsOK, Seen

LEMMA SeenIs ==
    ASSUME NEW w, remaining' = w.held, w = [held |-> w.held, on |-> w.on], w.on \in SUBSET Strategies,
           \A s \in Strategies : s \in w.on <=> strategy'[s].active
    PROVE  Seen' = w
BY DEF Seen

LEMMA RowIsEntity ==
    ASSUME RowsOK, NEW s \in Strategies
    PROVE  /\ strategy[s] \in Entity /\ strategy[s].known \in BOOLEAN /\ strategy[s].active \in BOOLEAN
           /\ strategy[s].tokens \in Seq(Tokens) /\ strategy[s].siblings \in SUBSET Hashes
           /\ IsInjective(strategy[s].tokens)
           /\ ToSet(strategy[s].tokens) = {t \in Tokens : remaining[s][t] # None}
BY DEF RowsOK, Entity

LEMMA PositionIs ==
    ASSUME RowsOK, NEW t \in Tokens
    PROVE  /\ position[t] \in Position /\ position[t].totalCommitted \in Nat /\ position[t].activeStrategies \in Nat
           /\ position[t].live \in SUBSET Hashes /\ position[t].observed \in Observed
           /\ position \in [Tokens -> Position]
BY DEF RowsOK, Position

LEMMA RecomputedRowIs ==
    ASSUME NEW x, NEW row \in Entity, NEW live \in [Tokens -> SUBSET Hashes]
    PROVE  /\ RecomputedRow(x, row, live) \in Entity
           /\ RecomputedRow(x, row, live).known = row.known
           /\ RecomputedRow(x, row, live).active = row.active
           /\ RecomputedRow(x, row, live).tokens = row.tokens
           /\ RecomputedRow(x, row, live).siblings = SiblingsOf(x, row, live)
<1>1. ToSet(row.tokens) \subseteq Tokens
  BY DEF Entity, ToSet
<1>2. SiblingsOf(x, row, live) \in SUBSET Hashes
  BY <1>1 DEF SiblingsOf
<1> QED
  BY <1>2 DEF RecomputedRow, Entity

LEMMA RecomputedIs ==
    ASSUME RowsOK, NEW s \in Strategies, NEW held
    PROVE  /\ Recomputed(s, held) \in [Strategies -> Entity]
           /\ \A x \in Strategies : /\ Recomputed(s, held)[x].known = strategy[x].known
                                    /\ Recomputed(s, held)[x].active = strategy[x].active
                                    /\ Recomputed(s, held)[x].tokens = strategy[x].tokens
<1>1. \A tokens : LiveAfter(s, tokens) \in [Tokens -> SUBSET Hashes]
  BY PositionIs DEF LiveAfter
<1>2. ASSUME NEW x \in Strategies
      PROVE  /\ Recomputed(s, held)[x] \in Entity
             /\ Recomputed(s, held)[x].known = strategy[x].known
             /\ Recomputed(s, held)[x].active = strategy[x].active
             /\ Recomputed(s, held)[x].tokens = strategy[x].tokens
  <2>1. \/ Recomputed(s, held)[x] = strategy[x]
        \/ \E tokens : Recomputed(s, held)[x] = RecomputedRow(x, strategy[x], LiveAfter(s, tokens))
    BY DEF Recomputed
  <2> QED
    BY <1>1, <2>1, RowIsEntity, RecomputedRowIs
<1>3. Recomputed(s, held) = [x \in Strategies |-> Recomputed(s, held)[x]]
  BY DEF Recomputed
<1> QED
  BY <1>2, <1>3

\* A row that claims nothing any more is simply started again.
LEMMA NothingClaimed ==
    ASSUME RowsOK, NEW s \in Strategies, HandleShipped(s),
           {t \in ToSet(strategy[s].tokens) : remaining[s][t] # None /\ remaining[s][t] > 0} = {}
    PROVE  /\ position' = position /\ strategy \in [Strategies -> Entity]
           /\ strategy' = [strategy EXCEPT ![s] = [known |-> TRUE, active |-> TRUE, tokens |-> <<>>, siblings |-> {}]]
<1> DEFINE fresh == [known |-> TRUE, active |-> TRUE, tokens |-> <<>>, siblings |-> {}]
<1>1. position' = position
  <2>1. position' = Unwound(s, {})
    BY DEF HandleShipped
  <2>2. position' = [t \in Tokens |-> position[t]]
    BY <2>1 DEF Unwound
  <2> QED
    BY <2>2 DEF RowsOK
<1>2. strategy' = [strategy EXCEPT ![s] = fresh]
  <2>1. strategy' = [Recomputed(s, {}) EXCEPT ![s] = fresh]
    BY DEF HandleShipped
  <2>2. \A x \in Strategies : AppearsAt(x, s, {}) = {}
    BY DEF AppearsAt
  <2>3. Recomputed(s, {}) = [x \in Strategies |-> strategy[x]]
    BY <2>2 DEF Recomputed
  <2> QED
    BY <2>1, <2>3 DEF RowsOK
<1> QED
  BY <1>1, <1>2 DEF RowsOK

\* s is off, so its row, if there is one, claims nothing any more.
LEMMA ShippedMakes ==
    ASSUME IInv, NEW s \in Strategies, HandleShipped(s), NEW v \in Views, v = Seen, s \notin v.on,
           NEW w \in Views, w = OnShipped(v, s)
    PROVE  Seen' = w /\ RowsOK' /\ CountsOK' /\ UtilIsOneInstant'
<1> DEFINE fresh == [known |-> TRUE, active |-> TRUE, tokens |-> <<>>, siblings |-> {}]
<1>0. RowsOK /\ UtilIsOneInstant
  BY DEF IInv
<1>1. remaining = v.held /\ \A x \in Strategies : x \in v.on <=> strategy[x].active
  BY CountsWere
<1>2. \A t \in Tokens : remaining[s][t] \in {None, 0}
  BY <1>1, ViewIs DEF Settled
<1>3. ToSet(strategy[s].tokens) = {t \in Tokens : remaining[s][t] # None}
  BY <1>0, RowIsEntity
<1>4. {t \in ToSet(strategy[s].tokens) : remaining[s][t] # None /\ remaining[s][t] > 0} = {}
  BY <1>2, <1>3
<1>5. position' = position
  BY <1>0, <1>4, NothingClaimed
<1>6. strategy' = [strategy EXCEPT ![s] = fresh]
  BY <1>0, <1>4, NothingClaimed
<1>7. remaining' = w.held
  <2>1. remaining' = [remaining EXCEPT ![s] =
                        [t \in Tokens |-> IF t \in ToSet(strategy[s].tokens) THEN None ELSE remaining[s][t]]]
    BY DEF HandleShipped
  <2>2. [t \in Tokens |-> IF t \in ToSet(strategy[s].tokens) THEN None ELSE remaining[s][t]] = [t \in Tokens |-> None]
    BY <1>3
  <2> QED
    BY <1>1, <2>1, <2>2 DEF OnShipped
<1>8. w.on = v.on \cup {s} /\ w = [held |-> w.held, on |-> w.on] /\ w.on \in SUBSET Strategies /\ v.on \in SUBSET Strategies
  BY ViewIs DEF OnShipped
<1>9. \A x \in Strategies : strategy'[x] = IF x = s THEN fresh ELSE strategy[x]
  BY <1>0, <1>6 DEF RowsOK
<1>10. \A x \in Strategies : x \in w.on <=> strategy'[x].active
  BY <1>1, <1>8, <1>9
<1>11. Seen' = w
  BY <1>7, <1>8, <1>10, SeenIs
<1>12. active' = Cardinality(w.on) /\ active' \in Nat
  <2>1. active' = active + 1 /\ active = Cardinality(v.on)
    BY CountsWere DEF HandleShipped
  <2>2. IsFiniteSet(v.on)
    BY ViewIs, FS_Subset
  <2>3. Cardinality(v.on) \in Nat /\ Cardinality(w.on) = Cardinality(v.on) + 1
    BY <1>8, <2>2, FS_AddElement, FS_CardinalityType
  <2> QED
    BY <2>1, <2>3
<1>13. CountsOK'
  <2>1. ASSUME NEW t \in Tokens
        PROVE  /\ position'[t].totalCommitted = Owed(w, t)
               /\ position'[t].activeStrategies = Cardinality(Holders(w, t))
    <3>1. Owed(w, t) = Owed(v, t) /\ Holders(w, t) = Holders(v, t)
      BY ShippedOwes
    <3> QED
      BY <1>5, <3>1, CountsWere
  <2> QED
    BY <1>11, <1>12, <2>1, CountsAre
<1>14. fresh \in Entity /\ IsInjective(fresh.tokens) /\ ToSet(fresh.tokens) = {}
  BY DEF Entity, IsInjective, ToSet
<1>15. RowsOK'
  <2>1. strategy' \in [Strategies -> Entity]
    BY <1>0, <1>6, <1>14 DEF RowsOK
  <2>2. \A t \in Tokens : remaining'[s][t] = None
    BY <1>7, ViewIs DEF OnShipped
  <2>3. \A x \in Strategies \ {s} : remaining'[x] = remaining[x]
    BY <1>1, <1>7, ViewIs DEF OnShipped
  <2>4. halted' = halted
    BY DEF HandleShipped
  <2>5. ASSUME NEW x \in Strategies
        PROVE  /\ IsInjective(strategy'[x].tokens)
               /\ strategy'[x].active => strategy'[x].known
               /\ ToSet(strategy'[x].tokens) = {t \in Tokens : remaining'[x][t] # None}
    <3>1. CASE x = s
      <4> HIDE DEF fresh
      <4>1. strategy'[x] = fresh /\ fresh.known
        BY <1>9, <3>1 DEF fresh
      <4> QED
        BY <1>14, <2>2, <3>1, <4>1
    <3>2. CASE x # s
      BY <1>0, <1>9, <2>3, <3>2 DEF RowsOK
    <3> QED
      BY <3>1, <3>2
  <2> QED
    BY <1>0, <1>5, <1>12, <2>1, <2>4, <2>5 DEF RowsOK
<1>16. UtilIsOneInstant'
  BY <1>0, <1>5 DEF UtilIsOneInstant
<1> QED
  BY <1>11, <1>13, <1>15, <1>16

\* What a position gives back, it has: no floor is ever reached.
LEMMA ReleasedIs ==
    ASSUME RowsOK, NEW t \in Tokens, NEW n \in Nat
    PROVE  /\ Released(t, n) \in Position
           /\ Released(t, n).totalCommitted = AtLeastZero(position[t].totalCommitted - n)
           /\ Released(t, n).activeStrategies = AtLeastZero(position[t].activeStrategies - 1)
           /\ Released(t, n).live = position[t].live /\ Released(t, n).observed = position[t].observed
<1>1. AtLeastZero(position[t].totalCommitted - n) \in Nat /\ AtLeastZero(position[t].activeStrategies - 1) \in Nat
  BY PositionIs DEF AtLeastZero
<1> QED
  BY <1>1, PositionIs DEF Released, Position

LEMMA UnwoundIs ==
    ASSUME RowsOK, NEW s \in Strategies, NEW held \in SUBSET Tokens, \A t \in held : remaining[s][t] \in Nat
    PROVE  /\ Unwound(s, held) \in [Tokens -> Position]
           /\ \A t \in Tokens :
                 /\ Unwound(s, held)[t].observed = position[t].observed
                 /\ t \notin held => Unwound(s, held)[t] = position[t]
                 /\ t \in held =>
                       /\ Unwound(s, held)[t].totalCommitted = AtLeastZero(position[t].totalCommitted - remaining[s][t])
                       /\ Unwound(s, held)[t].activeStrategies = AtLeastZero(position[t].activeStrategies - 1)
                       /\ Unwound(s, held)[t].live = position[t].live \ {HashOf[s]}
<1>1. ASSUME NEW t \in held
      PROVE  /\ Unwound(s, held)[t] \in Position
             /\ Unwound(s, held)[t].observed = position[t].observed
             /\ Unwound(s, held)[t].totalCommitted = AtLeastZero(position[t].totalCommitted - remaining[s][t])
             /\ Unwound(s, held)[t].activeStrategies = AtLeastZero(position[t].activeStrategies - 1)
             /\ Unwound(s, held)[t].live = position[t].live \ {HashOf[s]}
  <2> PICK r : r = Released(t, remaining[s][t])
    OBVIOUS
  <2>1. /\ r \in Position
        /\ r.totalCommitted = AtLeastZero(position[t].totalCommitted - remaining[s][t])
        /\ r.activeStrategies = AtLeastZero(position[t].activeStrategies - 1)
        /\ r.live = position[t].live /\ r.observed = position[t].observed
    BY ReleasedIs
  <2>2. Unwound(s, held)[t] = [r EXCEPT !.live = r.live \ {HashOf[s]}]
    BY DEF Unwound
  <2> QED
    BY <2>1, <2>2 DEF Position
<1>2. \A t \in Tokens : t \notin held => Unwound(s, held)[t] = position[t]
  BY DEF Unwound
<1>3. \A t \in Tokens : Unwound(s, held)[t] \in Position
  BY <1>1, <1>2, PositionIs
<1>4. Unwound(s, held) = [t \in Tokens |-> Unwound(s, held)[t]]
  BY DEF Unwound
<1> QED
  BY <1>1, <1>2, <1>3, <1>4

LEMMA DockedMakes ==
    ASSUME IInv, NEW s \in Strategies, HandleDocked(s), NEW v \in Views, v = Seen, s \in v.on,
           NEW w \in Views, w = OnDocked(v, s)
    PROVE  Seen' = w /\ RowsOK' /\ CountsOK' /\ UtilIsOneInstant'
<1> DEFINE held == {t \in ToSet(strategy[s].tokens) : remaining[s][t] # None}
           off == [Recomputed(s, held)[s] EXCEPT !.active = FALSE, !.siblings = {}]
<1>0. RowsOK /\ UtilIsOneInstant
  BY DEF IInv
<1>1. remaining = v.held /\ \A x \in Strategies : x \in v.on <=> strategy[x].active
  BY CountsWere
<1>2. strategy[s].known
  BY <1>0, <1>1 DEF RowsOK
<1>3. ToSet(strategy[s].tokens) = {t \in Tokens : remaining[s][t] # None}
  BY <1>0, RowIsEntity
<1>4. held = {t \in Tokens : remaining[s][t] # None}
  BY <1>3
<1>5. /\ position' = Unwound(s, held)
      /\ strategy' = [Recomputed(s, held) EXCEPT ![s] = off]
      /\ remaining' = [remaining EXCEPT ![s] = [t \in Tokens |-> IF t \in held THEN 0 ELSE remaining[s][t]]]
      /\ active' = AtLeastZero(active - 1) /\ halted' = halted
  BY <1>2 DEF HandleDocked
<1> HIDE DEF held
<1>6. remaining' = w.held
  <2>1. [t \in Tokens |-> IF t \in held THEN 0 ELSE remaining[s][t]]
          = [t \in Tokens |-> IF v.held[s][t] = None THEN None ELSE 0]
    BY <1>1, <1>4
  <2> QED
    BY <1>1, <1>5, <2>1 DEF OnDocked
<1>7. /\ w.on = v.on \ {s} /\ w = [held |-> w.held, on |-> w.on] /\ w.on \in SUBSET Strategies /\ v.on \in SUBSET Strategies
      /\ \A x \in Strategies \ {s} : w.held[x] = v.held[x]
      /\ \A t \in Tokens : w.held[s][t] = IF v.held[s][t] = None THEN None ELSE 0
  BY ViewIs, DockedView
<1>8. \A x \in Strategies \ {s} : strategy'[x] = Recomputed(s, held)[x]
  BY <1>0, <1>5, RecomputedIs
<1>9. strategy'[s] = off
  BY <1>0, <1>5, RecomputedIs
<1>10. Recomputed(s, held) \in [Strategies -> Entity]
  BY <1>0, RecomputedIs
<1>11. off \in Entity /\ ~ off.active /\ off.known = strategy[s].known /\ off.tokens = strategy[s].tokens
  <2> PICK r \in Entity : r = Recomputed(s, held)[s]
    BY <1>10
  <2>1. off = [r EXCEPT !.active = FALSE, !.siblings = {}]
    OBVIOUS
  <2>2. r.known = strategy[s].known /\ r.tokens = strategy[s].tokens
    BY <1>0, RecomputedIs
  <2> HIDE DEF off
  <2> QED
    BY <2>1, <2>2 DEF Entity
<1> HIDE DEF off
<1>12. \A x \in Strategies : x \in w.on <=> strategy'[x].active
  <2>1. ~ strategy'[s].active /\ s \notin w.on
    BY <1>7, <1>9, <1>11
  <2>2. \A x \in Strategies \ {s} : strategy'[x].active = strategy[x].active
    BY <1>0, <1>8, RecomputedIs
  <2> QED
    BY <1>1, <1>7, <2>1, <2>2
<1>13. Seen' = w
  BY <1>6, <1>7, <1>12, SeenIs
<1>14. active' = Cardinality(w.on) /\ active' \in Nat
  <2>1. active = Cardinality(v.on) /\ IsFiniteSet(v.on)
    BY CountsWere, ViewIs, FS_Subset
  <2>2. Cardinality(v.on) \in Nat /\ Cardinality(w.on) = Cardinality(v.on) - 1 /\ Cardinality(w.on) \in Nat
    BY <1>7, <2>1, FS_RemoveElement, FS_CardinalityType
  <2> QED
    BY <1>5, <2>1, <2>2 DEF AtLeastZero
<1>15. held \in SUBSET Tokens /\ \A t \in held : remaining[s][t] \in Nat /\ Base(v.held[s][t]) = remaining[s][t]
  <2>1. \A t \in Tokens : v.held[s][t] \in Holding
    BY ViewIs
  <2> QED
    BY <1>1, <1>4, <2>1, BaseIs DEF Base
<1>16. CountsOK'
  <2>1. ASSUME NEW t \in Tokens
        PROVE  /\ position'[t].totalCommitted = Owed(w, t)
               /\ position'[t].activeStrategies = Cardinality(Holders(w, t))
    <3>1. /\ Owed(w, t) = Owed(v, t) - Base(v.held[s][t]) /\ Owed(v, t) \in Nat /\ Base(v.held[s][t]) \in Nat
          /\ Base(v.held[s][t]) <= Owed(v, t) /\ Holders(w, t) = Holders(v, t) \ {s}
      BY DockedOwes
    <3>2. /\ position[t].totalCommitted = Owed(v, t) /\ position[t].activeStrategies = Cardinality(Holders(v, t))
      BY CountsWere
    <3>3. IsFiniteSet(Holders(v, t))
      BY ViewIs, FS_Subset DEF Holders
    <3>4. CASE t \in held
      <4>1. /\ position'[t].totalCommitted = AtLeastZero(Owed(v, t) - Base(v.held[s][t]))
            /\ position'[t].activeStrategies = AtLeastZero(Cardinality(Holders(v, t)) - 1)
        BY <1>0, <1>5, <1>15, <3>2, <3>4, UnwoundIs
      <4>2. s \in Holders(v, t)
        BY <1>1, <1>4, <3>4 DEF Holders
      <4>3. Cardinality(Holders(w, t)) = Cardinality(Holders(v, t)) - 1 /\ Cardinality(Holders(w, t)) \in Nat
            /\ Cardinality(Holders(v, t)) \in Nat
        BY <3>1, <3>3, <4>2, FS_RemoveElement, FS_CardinalityType
      <4> QED
        BY <3>1, <4>1, <4>3 DEF AtLeastZero
    <3>5. CASE t \notin held
      <4>1. position'[t] = position[t]
        BY <1>0, <1>5, <1>15, <3>5, UnwoundIs
      <4>2. v.held[s][t] = None
        BY <1>1, <1>4, <3>5
      <4>3. Base(v.held[s][t]) = 0 /\ s \notin Holders(v, t)
        BY <4>2 DEF Base, Holders
      <4> QED
        BY <3>1, <3>2, <4>1, <4>3
    <3> QED
      BY <3>4, <3>5
  <2> QED
    BY <1>13, <1>14, <2>1, CountsAre
<1>17. RowsOK'
  <2>1. strategy' \in [Strategies -> Entity]
    BY <1>5, <1>10, <1>11
  <2>2. position' \in [Tokens -> Position]
    BY <1>0, <1>5, <1>15, UnwoundIs
  <2>3. ASSUME NEW x \in Strategies
        PROVE  /\ IsInjective(strategy'[x].tokens)
               /\ strategy'[x].active => strategy'[x].known
               /\ ToSet(strategy'[x].tokens) = {t \in Tokens : remaining'[x][t] # None}
    <3>1. strategy'[x].tokens = strategy[x].tokens
      BY <1>0, <1>8, <1>9, <1>11, RecomputedIs
    <3>2. strategy'[x].active => strategy'[x].known
      BY <1>0, <1>2, <1>8, <1>9, <1>11, RecomputedIs DEF RowsOK
    <3>3. \A t \in Tokens : remaining'[x][t] # None <=> remaining[x][t] # None
      BY <1>1, <1>6, <1>7 DEF None
    <3> QED
      BY <1>0, <3>1, <3>2, <3>3, RowIsEntity
  <2> QED
    BY <1>0, <1>5, <1>14, <2>1, <2>2, <2>3 DEF RowsOK
<1>18. UtilIsOneInstant'
  <2>1. \A t \in Tokens : position'[t].observed = position[t].observed
    BY <1>0, <1>5, <1>15, UnwoundIs
  <2> QED
    BY <1>0, <2>1 DEF UtilIsOneInstant
<1> QED
  BY <1>13, <1>16, <1>17, <1>18

LEMMA AppendIs ==
    ASSUME NEW q \in Seq(Tokens), IsInjective(q), NEW t \in Tokens, t \notin ToSet(q)
    PROVE  Append(q, t) \in Seq(Tokens) /\ IsInjective(Append(q, t)) /\ ToSet(Append(q, t)) = ToSet(q) \cup {t}
<1> DEFINE n == Len(q)
           r == Append(q, t)
<1>1. n \in Nat /\ DOMAIN q = 1 .. n /\ r \in Seq(Tokens) /\ DOMAIN r = 1 .. n + 1 /\ r[n + 1] = t
      /\ \A i \in 1 .. n : r[i] = q[i]
  OBVIOUS
<1> HIDE DEF n, r
<1>2. \A i \in 1 .. n + 1 : i \in 1 .. n \/ i = n + 1
  BY <1>1
<1>3. n + 1 \in 1 .. n + 1 /\ \A i \in 1 .. n : i \in 1 .. n + 1
  BY <1>1
<1>4. IsInjective(r)
  BY <1>1, <1>2 DEF IsInjective, ToSet
<1>5. ToSet(r) = ToSet(q) \cup {t}
  BY <1>1, <1>2, <1>3 DEF ToSet
<1> QED
  BY <1>1, <1>4, <1>5 DEF r

LEMMA PushedMakes ==
    ASSUME IInv, NEW s \in Strategies, NEW t \in Tokens, NEW amount \in Nat, HandlePushed(s, t, amount),
           NEW v \in Views, v = Seen, s \in v.on,
           NEW w \in Views, w = Paid(v, s, t, Base(v.held[s][t]) + amount)
    PROVE  Seen' = w /\ RowsOK' /\ CountsOK' /\ UtilIsOneInstant'
<1> DEFINE first == FirstPush(s, t)
           n == Base(v.held[s][t]) + amount
           live == IF first THEN position[t].live \cup {HashOf[s]} ELSE position[t].live
           listed == [strategy EXCEPT ![s].tokens = IF first THEN Append(@, t) ELSE @]
           seen == [k \in Tokens |-> IF k = t THEN live ELSE position[k].live]
<1>0. RowsOK /\ UtilIsOneInstant
  BY DEF IInv
<1>1. remaining = v.held /\ \A x \in Strategies : x \in v.on <=> strategy[x].active
  BY CountsWere
<1>2. strategy[s].known
  BY <1>0, <1>1 DEF RowsOK
<1>3. /\ remaining' = [remaining EXCEPT ![s] = [remaining[s] EXCEPT ![t] = Committed(s, t) + amount]]
      /\ position' = [position EXCEPT ![t] = [position[t] EXCEPT !.totalCommitted = position[t].totalCommitted + amount,
                                                                 !.activeStrategies = IF first THEN position[t].activeStrategies + 1
                                                                                      ELSE position[t].activeStrategies,
                                                                 !.live = live]]
      /\ active' = active /\ halted' = halted
  BY <1>2 DEF HandlePushed
<1>4. strategy' = [x \in Strategies |->
                     IF first /\ HashOf[x] \in live /\ AppOf[x] = AppOf[s] /\ listed[x].active
                     THEN RecomputedRow(x, listed[x], seen)
                     ELSE listed[x]]
  BY <1>2 DEF HandlePushed
<1>5. first <=> v.held[s][t] = None
  BY <1>1 DEF FirstPush
<1>6. Committed(s, t) = Base(v.held[s][t])
  BY <1>1 DEF Committed, Base
<1>7. v.held[s][t] \in Holding /\ Base(v.held[s][t]) \in Nat
  BY RowIs, BaseIs
<1>8. n \in Nat /\ n # None
  BY <1>7 DEF None
<1>9. /\ w.held = [v.held EXCEPT ![s] = [v.held[s] EXCEPT ![t] = n]] /\ w.on = v.on
      /\ w = [held |-> w.held, on |-> w.on] /\ w.on \in SUBSET Strategies
  BY ViewIs DEF Paid
<1>10. remaining' = w.held
  BY <1>1, <1>3, <1>6, <1>9
<1> HIDE DEF n, seen, live, listed, first
<1>11. live \in SUBSET Hashes /\ seen \in [Tokens -> SUBSET Hashes]
  <2>1. HashOf[s] \in Hashes
    BY DEF Hashes
  <2>2. live \in SUBSET Hashes
    BY <1>0, <2>1, PositionIs DEF live
  <2> QED
    BY <1>0, <2>2, PositionIs DEF seen
<1>12. /\ listed \in [Strategies -> Entity]
       /\ \A x \in Strategies :
             /\ listed[x].known = strategy[x].known /\ listed[x].active = strategy[x].active
             /\ IsInjective(listed[x].tokens)
             /\ ToSet(listed[x].tokens) = {u \in Tokens : remaining'[x][u] # None}
  <2> PICK q : q = IF first THEN Append(strategy[s].tokens, t) ELSE strategy[s].tokens
    OBVIOUS
  <2>1. strategy \in [Strategies -> Entity]
    BY <1>0 DEF RowsOK
  <2>2. listed = [strategy EXCEPT ![s] = [strategy[s] EXCEPT !.tokens = q]]
    BY DEF listed
  <2>3. q \in Seq(Tokens) /\ IsInjective(q) /\ ToSet(q) = {u \in Tokens : remaining'[s][u] # None}
    <3>1. \A u \in Tokens : remaining'[s][u] # None <=> u = t \/ remaining[s][u] # None
      BY <1>1, <1>8, <1>9, <1>10, ViewIs
    <3>2. /\ strategy[s].tokens \in Seq(Tokens) /\ IsInjective(strategy[s].tokens)
          /\ ToSet(strategy[s].tokens) = {u \in Tokens : remaining[s][u] # None}
      BY <1>0, RowIsEntity
    <3>3. CASE first
      <4>1. t \notin ToSet(strategy[s].tokens)
        BY <1>1, <1>5, <3>2, <3>3
      <4>2. q = Append(strategy[s].tokens, t)
        BY <3>3
      <4>3. q \in Seq(Tokens) /\ IsInjective(q) /\ ToSet(q) = ToSet(strategy[s].tokens) \cup {t}
        BY <3>2, <4>1, <4>2, AppendIs
      <4> QED
        BY <3>1, <3>2, <4>3
    <3>4. CASE ~ first
      <4>1. q = strategy[s].tokens
        BY <3>4
      <4> QED
        BY <1>1, <1>5, <3>1, <3>2, <3>4, <4>1
    <3> QED
      BY <3>3, <3>4
  <2>4. /\ [strategy[s] EXCEPT !.tokens = q] \in Entity
        /\ [strategy[s] EXCEPT !.tokens = q].known = strategy[s].known
        /\ [strategy[s] EXCEPT !.tokens = q].active = strategy[s].active
        /\ [strategy[s] EXCEPT !.tokens = q].tokens = q
    BY <2>1, <2>3 DEF Entity
  <2>5. listed \in [Strategies -> Entity]
    BY <2>1, <2>2, <2>4
  <2>6. \A x \in Strategies \ {s} : listed[x] = strategy[x] /\ remaining'[x] = remaining[x]
    BY <1>1, <1>9, <1>10, <2>1, <2>2, ViewIs
  <2>7. listed[s] = [strategy[s] EXCEPT !.tokens = q]
    BY <2>1, <2>2
  <2>8. ASSUME NEW x \in Strategies
        PROVE  /\ listed[x].known = strategy[x].known /\ listed[x].active = strategy[x].active
               /\ IsInjective(listed[x].tokens)
               /\ ToSet(listed[x].tokens) = {u \in Tokens : remaining'[x][u] # None}
    <3>1. CASE x = s
      BY <2>3, <2>4, <2>7, <3>1
    <3>2. CASE x # s
      BY <1>0, <2>6, <3>2, RowIsEntity
    <3> QED
      BY <3>1, <3>2
  <2> QED
    BY <2>5, <2>8
<1>13. ASSUME NEW x \in Strategies
       PROVE  /\ strategy'[x] \in Entity /\ strategy'[x].known = listed[x].known
              /\ strategy'[x].active = listed[x].active /\ strategy'[x].tokens = listed[x].tokens
  <2>1. listed[x] \in Entity
    BY <1>12
  <2>2. strategy'[x] = RecomputedRow(x, listed[x], seen) \/ strategy'[x] = listed[x]
    BY <1>4
  <2> QED
    BY <1>11, <2>1, <2>2, RecomputedRowIs
<1>14. \A x \in Strategies : x \in w.on <=> strategy'[x].active
  BY <1>1, <1>9, <1>12, <1>13
<1>15. Seen' = w
  BY <1>9, <1>10, <1>14, SeenIs
<1>16. active' = Cardinality(w.on)
  BY <1>3, <1>9, CountsWere
<1> PICK p : p = [position[t] EXCEPT !.totalCommitted = position[t].totalCommitted + amount,
                                     !.activeStrategies = IF first THEN position[t].activeStrategies + 1
                                                          ELSE position[t].activeStrategies,
                                     !.live = live]
  OBVIOUS
<1>17. /\ p \in Position /\ p.totalCommitted = position[t].totalCommitted + amount
       /\ p.activeStrategies = IF first THEN position[t].activeStrategies + 1 ELSE position[t].activeStrategies
       /\ p.live = live /\ p.observed = position[t].observed
  <2> DEFINE total == position[t].totalCommitted + amount
             count == IF first THEN position[t].activeStrategies + 1 ELSE position[t].activeStrategies
  <2>1. position[t] \in Position /\ total \in Nat /\ count \in Nat
    BY <1>0, PositionIs
  <2>2. p = [position[t] EXCEPT !.totalCommitted = total, !.activeStrategies = count, !.live = live]
    OBVIOUS
  <2> HIDE DEF total, count
  <2>3. /\ p \in Position /\ p.totalCommitted = total /\ p.activeStrategies = count
        /\ p.live = live /\ p.observed = position[t].observed
    BY <1>11, <2>1, <2>2 DEF Position
  <2> QED
    BY <2>3 DEF total, count
<1>18. position' = [position EXCEPT ![t] = p] /\ position \in [Tokens -> Position]
  BY <1>0, <1>3, PositionIs
<1>19. CountsOK'
  <2>1. Owed(w, t) = Owed(v, t) - Base(v.held[s][t]) + n /\ Owed(v, t) \in Nat /\ Holders(w, t) = Holders(v, t) \cup {s}
        /\ \A u \in Tokens \ {t} : Owed(w, u) = Owed(v, u) /\ Holders(w, u) = Holders(v, u)
    <3>1. w = Paid(v, s, t, n)
      BY DEF n
    <3> QED
      BY <1>8, <3>1, PaidOwes
  <2>2. Owed(w, t) = Owed(v, t) + amount
    BY <1>7, <2>1 DEF n
  <2>3. position'[t].totalCommitted = Owed(w, t)
    BY <1>17, <1>18, <2>2, CountsWere
  <2>4. position'[t].activeStrategies = Cardinality(Holders(w, t))
    <3>1. IsFiniteSet(Holders(v, t))
      BY ViewIs, FS_Subset DEF Holders
    <3>2. position[t].activeStrategies = Cardinality(Holders(v, t))
      BY CountsWere
    <3>3. s \in Holders(v, t) <=> ~ first
      BY <1>5 DEF Holders
    <3>4. Cardinality(Holders(w, t)) = IF first THEN Cardinality(Holders(v, t)) + 1 ELSE Cardinality(Holders(v, t))
      BY <2>1, <3>1, <3>3, FS_AddElement
    <3> QED
      BY <1>17, <1>18, <3>2, <3>4
  <2>5. ASSUME NEW u \in Tokens \ {t}
        PROVE  /\ position'[u].totalCommitted = Owed(w, u)
               /\ position'[u].activeStrategies = Cardinality(Holders(w, u))
    BY <1>18, <2>1, CountsWere
  <2> QED
    BY <1>15, <1>16, <2>3, <2>4, <2>5, CountsAre
<1>20. RowsOK'
  <2>1. strategy' \in [Strategies -> Entity]
    BY <1>4, <1>13
  <2>2. position' \in [Tokens -> Position]
    BY <1>17, <1>18
  <2>3. ASSUME NEW x \in Strategies
        PROVE  /\ IsInjective(strategy'[x].tokens)
               /\ strategy'[x].active => strategy'[x].known
               /\ ToSet(strategy'[x].tokens) = {u \in Tokens : remaining'[x][u] # None}
    BY <1>0, <1>12, <1>13 DEF RowsOK
  <2> QED
    BY <1>0, <1>3, <2>1, <2>2, <2>3 DEF RowsOK
<1>21. UtilIsOneInstant'
  <2>1. \A u \in Tokens : position'[u].observed = position[u].observed
    BY <1>17, <1>18
  <2> QED
    BY <1>0, <2>1 DEF UtilIsOneInstant
<1> QED
  BY <1>15, <1>19, <1>20, <1>21

LEMMA PulledMakes ==
    ASSUME IInv, NEW s \in Strategies, NEW t \in Tokens, NEW amount \in Nat, HandlePulled(s, t, amount),
           NEW v \in Views, v = Seen, s \in v.on, v.held[s][t] # None, amount <= v.held[s][t],
           NEW w \in Views, w = Paid(v, s, t, v.held[s][t] - amount)
    PROVE  Seen' = w /\ RowsOK' /\ CountsOK' /\ UtilIsOneInstant'
<1> DEFINE n == v.held[s][t] - amount
           total == AtLeastZero(position[t].totalCommitted - amount)
<1>0. RowsOK /\ UtilIsOneInstant
  BY DEF IInv
<1>1. remaining = v.held /\ \A x \in Strategies : x \in v.on <=> strategy[x].active
  BY CountsWere
<1>2. v.held[s][t] \in Nat /\ Base(v.held[s][t]) = v.held[s][t]
  BY RowIs, BaseIs DEF Base
<1>3. n \in Nat /\ n # None /\ AtLeastZero(n) = n
  BY <1>2 DEF None, AtLeastZero
<1>4. /\ remaining' = [remaining EXCEPT ![s] = [remaining[s] EXCEPT ![t] = AtLeastZero(n)]]
      /\ position' = [position EXCEPT ![t] = [position[t] EXCEPT !.totalCommitted = total]]
      /\ strategy' = strategy /\ active' = active /\ halted' = halted
  BY <1>1 DEF HandlePulled
<1>5. /\ w.held = [v.held EXCEPT ![s] = [v.held[s] EXCEPT ![t] = n]] /\ w.on = v.on
      /\ w = [held |-> w.held, on |-> w.on] /\ w.on \in SUBSET Strategies
  BY ViewIs DEF Paid
<1>6. remaining' = w.held
  BY <1>1, <1>3, <1>4, <1>5
<1>7. Seen' = w
  BY <1>1, <1>4, <1>5, <1>6, SeenIs
<1>8. /\ Owed(w, t) = Owed(v, t) - Base(v.held[s][t]) + n /\ Owed(v, t) \in Nat /\ Base(v.held[s][t]) <= Owed(v, t)
      /\ Holders(w, t) = Holders(v, t) \cup {s}
      /\ \A u \in Tokens \ {t} : Owed(w, u) = Owed(v, u) /\ Holders(w, u) = Holders(v, u)
  <2> PICK m \in Nat : m = n
    BY <1>3
  <2>1. w = Paid(v, s, t, m)
    OBVIOUS
  <2> QED
    BY <2>1, PaidOwes
<1>9. total \in Nat /\ total = Owed(w, t)
  <2>1. position[t].totalCommitted = Owed(v, t)
    BY CountsWere
  <2>2. Owed(v, t) - amount \in Nat /\ Owed(w, t) = Owed(v, t) - amount
    BY <1>2, <1>8
  <2> QED
    BY <2>1, <2>2 DEF AtLeastZero
<1> HIDE DEF n, total
<1>10. position \in [Tokens -> Position]
  BY <1>0 DEF RowsOK
<1> PICK p : p = [position[t] EXCEPT !.totalCommitted = total]
  OBVIOUS
<1>11. /\ p \in Position /\ p.totalCommitted = total /\ p.activeStrategies = position[t].activeStrategies
       /\ p.observed = position[t].observed
  <2>1. position[t] \in Position
    BY <1>10
  <2> QED
    BY <1>9, <2>1 DEF Position
<1>12. position' = [position EXCEPT ![t] = p]
  BY <1>4
<1>13. CountsOK'
  <2>1. active' = Cardinality(w.on)
    BY <1>4, <1>5, CountsWere
  <2>2. Holders(w, t) = Holders(v, t)
    BY <1>8 DEF Holders
  <2>3. ASSUME NEW u \in Tokens
        PROVE  /\ position'[u].totalCommitted = Owed(w, u)
               /\ position'[u].activeStrategies = Cardinality(Holders(w, u))
    <3>1. CASE u = t
      BY <1>9, <1>10, <1>11, <1>12, <2>2, <3>1, CountsWere
    <3>2. CASE u # t
      BY <1>8, <1>10, <1>12, <3>2, CountsWere
    <3> QED
      BY <3>1, <3>2
  <2> QED
    BY <1>7, <2>1, <2>3, CountsAre
<1>14. RowsOK'
  <2>1. \A x \in Strategies, u \in Tokens : remaining'[x][u] # None <=> remaining[x][u] # None
    BY <1>1, <1>3, <1>5, <1>6, ViewIs
  <2>2. position' \in [Tokens -> Position]
    BY <1>10, <1>11, <1>12
  <2>3. ASSUME NEW x \in Strategies
        PROVE  ToSet(strategy'[x].tokens) = {u \in Tokens : remaining'[x][u] # None}
    BY <1>0, <1>4, <2>1, RowIsEntity
  <2> QED
    BY <1>0, <1>4, <2>2, <2>3 DEF RowsOK
<1>15. UtilIsOneInstant'
  <2>1. \A u \in Tokens : position'[u].observed = position[u].observed
    BY <1>10, <1>11, <1>12
  <2> QED
    BY <1>0, <2>1 DEF UtilIsOneInstant
<1> QED
  BY <1>7, <1>13, <1>14, <1>15

\* The total divided is the one Aqua's books promised when the event was emitted.
LEMMA AppliedMakes ==
    ASSUME IInv, NEW t \in Tokens, NEW backing \in Amounts, NEW due \in Nat, HandleEncumbranceApplied(t, backing, due),
           NEW v \in Views, v = Seen, due = Owed(v, t)
    PROVE  Seen' = v /\ RowsOK' /\ CountsOK' /\ UtilIsOneInstant'
<1> DEFINE util == (position[t].totalCommitted * Bps) \div backing
           o == [backing |-> backing, util |-> util, due |-> due]
<1>0. RowsOK /\ UtilIsOneInstant
  BY DEF IInv
<1>1. strategy' = strategy /\ remaining' = remaining /\ active' = active
  BY DEF HandleEncumbranceApplied
<1>2. \/ halted' = TRUE /\ position' = position
      \/ halted' = halted /\ position' = [position EXCEPT ![t] = [position[t] EXCEPT !.observed = o]]
  BY DEF HandleEncumbranceApplied
<1>3. position[t].totalCommitted = due
  BY CountsWere
<1>4. util \in Nat /\ util = (due * Bps) \div backing
  <2>1. backing \in Nat /\ backing >= 1 /\ Bps \in Nat
    <3>1. Amounts \subseteq 1 .. MaxBalance /\ MaxBalance \in Nat /\ Bps \in Nat
      BY AquiferAssumption
    <3> QED
      BY <3>1
  <2>2. due * Bps \in Nat
    BY <2>1
  <2>3. \A k \in Nat, b \in Nat : b >= 1 => k \div b \in Nat
    OBVIOUS
  <2> QED
    BY <1>3, <2>1, <2>2, <2>3
<1> HIDE DEF util
<1>5. o \in Observed /\ o.util = (due * Bps) \div backing /\ o.due = due /\ o.backing = backing
  BY <1>4 DEF Observed
<1> HIDE DEF o
<1>6. position \in [Tokens -> Position] /\ position[t] \in Position
  BY <1>0, PositionIs
<1> PICK p : p = [position[t] EXCEPT !.observed = o]
  OBVIOUS
<1>7. /\ p \in Position /\ p.totalCommitted = position[t].totalCommitted
      /\ p.activeStrategies = position[t].activeStrategies /\ p.observed = o
  BY <1>5, <1>6 DEF Position
<1>8. \A u \in Tokens : /\ position'[u].totalCommitted = position[u].totalCommitted
                        /\ position'[u].activeStrategies = position[u].activeStrategies
                        /\ position'[u].observed \in {position[u].observed, IF u = t THEN o ELSE position[u].observed}
  BY <1>2, <1>6, <1>7
<1>9. Seen' = v
  BY <1>1 DEF Seen
<1>10. CountsOK'
  <2>1. active' = Cardinality(v.on)
    BY <1>1, CountsWere
  <2>2. \A u \in Tokens : /\ position'[u].totalCommitted = Owed(v, u)
                          /\ position'[u].activeStrategies = Cardinality(Holders(v, u))
    BY <1>8, CountsWere
  <2> QED
    BY <1>9, <2>1, <2>2, CountsAre
<1>11. RowsOK'
  <2>1. position' \in [Tokens -> Position] /\ halted' \in BOOLEAN
    BY <1>0, <1>2, <1>6, <1>7 DEF RowsOK
  <2> QED
    BY <1>0, <1>1, <2>1 DEF RowsOK
<1>12. UtilIsOneInstant'
  <2>1. ASSUME NEW u \in Tokens
        PROVE  position'[u].observed # NeverObserved =>
                  position'[u].observed.util = (position'[u].observed.due * Bps) \div position'[u].observed.backing
    <3>1. CASE position'[u].observed = position[u].observed
      BY <1>0, <3>1 DEF UtilIsOneInstant
    <3>2. CASE position'[u].observed = o
      BY <1>5, <3>2
    <3> QED
      BY <1>8, <3>1, <3>2
  <2> QED
    BY <2>1 DEF UtilIsOneInstant
<1> QED
  BY <1>9, <1>10, <1>11, <1>12

LEMMA AmountIs == \A a \in Amounts : a \in Nat
<1>1. Amounts \subseteq 1 .. MaxBalance /\ MaxBalance \in Nat
  BY AquiferAssumption
<1> QED
  BY <1>1

LEMMA IndexKeeps == ASSUME IInv, Index PROVE IInv'
<1> PICK e : e = Head(log)
  OBVIOUS
<1>1. log # <<>> /\ log' = Tail(log) /\ UNCHANGED aqua
  BY DEF Index
<1> PICK v : v = Seen
  OBVIOUS
<1>2. v \in Views /\ e \in Event
  BY <1>1, IndexStep
<1>3. PICK w \in Views :
        /\ Follows(v, e, w)
        /\ log' = Tail(log) /\ UNCHANGED aqua /\ Seen' = w
              => ChainOK' /\ log' \in Seq(Event) /\ Len(log') <= MaxLag /\ ComesOut'
  BY <1>1, IndexStep
<1>4. Seen' = w /\ RowsOK' /\ CountsOK' /\ UtilIsOneInstant'
  <2>1. CASE e.kind = "Shipped"
    <3>1. e.s \in Strategies /\ HandleShipped(e.s) /\ e.s \notin v.on /\ w = OnShipped(v, e.s)
      BY <1>2, <1>3, <2>1 DEF Event, Index, Follows
    <3> QED
      BY <1>2, <3>1, ShippedMakes
  <2>2. CASE e.kind = "Docked"
    <3>1. e.s \in Strategies /\ HandleDocked(e.s) /\ e.s \in v.on /\ w = OnDocked(v, e.s)
      BY <1>2, <1>3, <2>2 DEF Event, Index, Follows
    <3> QED
      BY <1>2, <3>1, DockedMakes
  <2>3. CASE e.kind = "Pushed"
    <3>1. e.s \in Strategies /\ e.t \in Tokens /\ e.amount \in Amounts
      BY <1>2, <2>3 DEF Event
    <3>2. /\ HandlePushed(e.s, e.t, e.amount) /\ e.s \in v.on
          /\ w = Paid(v, e.s, e.t, Base(v.held[e.s][e.t]) + e.amount)
      BY <1>3, <2>3 DEF Index, Follows
    <3>3. e.amount \in Nat
      BY <3>1, AmountIs
    <3> QED
      BY <1>2, <3>1, <3>2, <3>3, PushedMakes
  <2>4. CASE e.kind = "Pulled"
    <3>1. e.s \in Strategies /\ e.t \in Tokens /\ e.amount \in Amounts
      BY <1>2, <2>4 DEF Event
    <3>2. /\ HandlePulled(e.s, e.t, e.amount) /\ e.s \in v.on /\ v.held[e.s][e.t] # None
          /\ e.amount <= v.held[e.s][e.t] /\ w = Paid(v, e.s, e.t, v.held[e.s][e.t] - e.amount)
      BY <1>3, <2>4 DEF Index, Follows
    <3> PICK s \in Strategies, t \in Tokens, amount \in Nat : s = e.s /\ t = e.t /\ amount = e.amount
      BY <3>1, AmountIs
    <3>3. /\ HandlePulled(s, t, amount) /\ s \in v.on /\ v.held[s][t] # None
          /\ amount <= v.held[s][t] /\ w = Paid(v, s, t, v.held[s][t] - amount)
      BY <3>2
    <3> QED
      BY <1>2, <3>3, PulledMakes
  <2>5. CASE e.kind = "EncumbranceApplied"
    <3>1. e.t \in Tokens /\ e.backing \in Amounts /\ e.due \in Nat
      BY <1>2, <2>5 DEF Event
    <3>2. HandleEncumbranceApplied(e.t, e.backing, e.due) /\ e.due = Owed(v, e.t) /\ w = v
      BY <1>3, <2>5 DEF Index, Follows
    <3> QED
      BY <3>1, <3>2, AppliedMakes
  <2> QED
    BY <2>1, <2>2, <2>3, <2>4, <2>5 DEF Index
<1> QED
  BY <1>1, <1>3, <1>4 DEF IInv

LEMMA InitInv == ASSUME Init PROVE IInv
<1>0. MaxBalance \in Nat /\ MaxLag \in Nat /\ IsFiniteSet(Strategies)
  BY AquiferAssumption
<1> DEFINE v == [held |-> [s \in Strategies |-> [t \in Tokens |-> None]], on |-> {}]
           h == [i \in 0 .. 0 |-> v]
<1>1. v = Seen
  BY DEF Init, Seen
<1>2. v \in Views
  <2>1. None \in Holding
    BY DEF Holding
  <2>2. Settled(v) /\ Listed(v)
    BY DEF Settled, Listed
  <2> QED
    BY <2>1, <2>2 DEF Views
<1>3. \A s \in Strategies, t \in Tokens : ~ IsLive(s, t)
  BY DEF Init, IsLive, NeverShipped
<1>4. \A s \in Strategies : ~ LiveBook(s)
  BY <1>3 DEF LiveBook
<1>5. Agrees(v)
  BY <1>3, <1>4 DEF Agrees, Init, Base
<1>6. ChainOK
  BY <1>0, <1>4 DEF Init, ChainOK, Books, NeverShipped
<1>7. /\ strategy \in [Strategies -> Entity] /\ position \in [Tokens -> Position]
  BY DEF Init, Entity, Position, Observed
<1>8. \A s \in Strategies : /\ strategy[s].tokens = <<>> /\ ~ strategy[s].active
                            /\ \A t \in Tokens : remaining[s][t] = None
  BY DEF Init
<1>9. IsInjective(<<>>) /\ ToSet(<<>>) = {}
  BY DEF IsInjective, ToSet
<1>10. RowsOK
  BY <1>7, <1>8, <1>9 DEF RowsOK, Init
<1>11. \A t \in Tokens : Owed(v, t) = 0 /\ Holders(v, t) = {}
  <2>1. ASSUME NEW t \in Tokens PROVE Owed(v, t) = 0
    <3> DEFINE z == Row(v, t)
               good == {T \in SUBSET Strategies : Total(z, T) = 0}
    <3>1. \A s \in Strategies : z[s] = 0
      BY DEF Row, Base
    <3> HIDE DEF z
    <3>2. ASSUME NEW T \in SUBSET Strategies, \A U \in SUBSET T : U # T => U \in good PROVE T \in good
      <4>1. IsFiniteSet(T)
        BY <1>0, FS_Subset
      <4>2. CASE T = {}
        BY <4>1, <4>2, SumStep
      <4>3. CASE T # {}
        <5>1. AnyOf(T) \in T
          BY <4>3, AnyOfIs
        <5>2. Total(z, T \ {AnyOf(T)}) = 0 /\ z[AnyOf(T)] = 0
          BY <3>1, <3>2, <5>1
        <5>3. Total(z, T) = z[AnyOf(T)] + Total(z, T \ {AnyOf(T)})
          BY <4>1, <4>3, SumStep
        <5> QED
          BY <5>2, <5>3
      <4> QED
        BY <4>2, <4>3
    <3> HIDE DEF good
    <3>3. Strategies \in good
      BY <1>0, <3>2, Subsets
    <3> QED
      BY <3>3 DEF good, z, Owed
  <2> QED
    BY <2>1 DEF Holders
<1> PICK u : u = v
  OBVIOUS
<1> HIDE DEF v
<1>12. CountsOK
  <2>1. Cardinality({}) = 0
    BY FS_EmptySet
  <2>2. \A t \in Tokens : position[t].totalCommitted = 0 /\ position[t].activeStrategies = 0
    BY DEF Init
  <2>3. Seen.on = {} /\ active = 0
    BY <1>1 DEF Init, v
  <2> QED
    BY <1>1, <1>11, <2>1, <2>2, <2>3 DEF CountsOK
<1>13. UtilIsOneInstant
  BY DEF Init, UtilIsOneInstant
<1>14. log = <<>> /\ log \in Seq(Event) /\ Len(log) = 0
  BY DEF Init
<1>15. Trace(h, log, Seen) /\ h[Len(log)] = v
  BY <1>1, <1>2, <1>14 DEF Trace
<1>16. ComesOut
  BY <1>5, <1>15 DEF ComesOut
<1> QED
  BY <1>0, <1>6, <1>10, <1>12, <1>13, <1>14, <1>16 DEF IInv

LEMMA NextInv == ASSUME ~ ReshipsLive, IInv, [Next]_vars PROVE IInv'
<1>1. ASSUME NEW s \in Strategies, NEW list \in ShipLists[s], NEW amount \in Amounts, Ship(s, list, amount) PROVE IInv'
  BY <1>1, ShipKeeps
<1>2. ASSUME NEW s \in Strategies, NEW list \in ShipLists[s], Dock(s, list) PROVE IInv'
  BY <1>2, DockKeeps
<1>3. ASSUME NEW s \in Strategies, NEW t \in Tokens, NEW amount \in Amounts, Push(s, t, amount) PROVE IInv'
  BY <1>3, PushKeeps
<1>4. ASSUME NEW s \in Strategies, NEW t \in Tokens, NEW amount \in Amounts, NEW backing \in Amounts,
             Pull(s, t, amount, backing)
      PROVE  IInv'
  BY <1>4, PullKeeps
<1>5. CASE Index
  BY <1>5, IndexKeeps
<1>6. CASE UNCHANGED vars
  <2>1. UNCHANGED <<aqua, log, index>>
    BY <1>6 DEF vars
  <2>2. PICK h : Trace(h, log, Seen) /\ Agrees(h[Len(log)])
    BY DEF IInv, ComesOut
  <2> PICK u : u = h[Len(log)]
    OBVIOUS
  <2>3. Agrees(u)'
    BY <2>1, <2>2 DEF Agrees, LiveBook, IsLive
  <2>4. Seen' = Seen
    BY <2>1 DEF Seen, index
  <2>5. Trace(h, log', Seen') /\ h[Len(log')] = u
    BY <2>1, <2>2, <2>4
  <2>6. Agrees(h[Len(log)])'
    BY <2>3, <2>5
  <2>7. ComesOut'
    BY <2>5, <2>6 DEF ComesOut
  <2>8. ChainOK' /\ RowsOK' /\ CountsOK' /\ UtilIsOneInstant'
    BY <2>1, <2>4 DEF IInv, ChainOK, RowsOK, CountsOK, UtilIsOneInstant, OneList, LiveBook, IsLive, index
  <2> QED
    BY <2>1, <2>7, <2>8 DEF IInv
<1> QED
  BY <1>1, <1>2, <1>3, <1>4, <1>5, <1>6 DEF Next

\* An index that has caught up holds the books themselves.
LEMMA BooksFollow == ASSUME IInv PROVE BooksInv
<1>1. PICK h : Trace(h, log, Seen) /\ Agrees(h[Len(log)])
  BY DEF IInv, ComesOut
<1> PICK v : v = Seen
  OBVIOUS
<1>2. v \in Views
  <2>1. Len(log) \in Nat
    BY DEF IInv
  <2>2. 0 \in 0 .. Len(log)
    BY <2>1
  <2> QED
    BY <1>1, <2>2 DEF Trace
<1>3. /\ remaining = v.held /\ active = Cardinality(v.on)
      /\ \A s \in Strategies : s \in v.on <=> strategy[s].active
      /\ \A t \in Tokens : position[t].totalCommitted = Owed(v, t) /\ position[t].activeStrategies = Cardinality(Holders(v, t))
  BY CountsWere
<1>4. ChainOK /\ RowsOK /\ Len(log) <= MaxLag
  BY DEF IInv
<1>5. TypeOK
  <2>1. ASSUME NEW s \in Strategies, NEW t \in Tokens
        PROVE  /\ aqua[s][t].balance \in 0 .. MaxBalance
               /\ remaining[s][t] \in {None} \cup 0 .. MaxBalance
               /\ strategy[s].known \in BOOLEAN /\ strategy[s].active \in BOOLEAN
               /\ IsInjective(strategy[s].tokens)
               /\ strategy[s].siblings \subseteq Hashes
    <3>1. remaining[s][t] \in Holding
      BY <1>2, <1>3, ViewIs
    <3> QED
      BY <1>4, <3>1, AquaIs, RowIsEntity DEF Holding
  <2>2. ASSUME NEW t \in Tokens
        PROVE  /\ position[t].totalCommitted \in Nat /\ position[t].activeStrategies \in Nat
               /\ position[t].live \subseteq Hashes
    BY <1>4, PositionIs
  <2>3. active \in Nat /\ halted \in BOOLEAN
    BY <1>4 DEF RowsOK
  <2> QED
    BY <1>4, <2>1, <2>2, <2>3 DEF TypeOK
<1>6. ASSUME CaughtUp PROVE Agrees(v)
  <2>1. log = <<>> /\ Len(log) = 0
    BY <1>6 DEF CaughtUp
  <2>2. h[0] = v
    BY <1>1 DEF Trace
  <2> QED
    BY <1>1, <2>1, <2>2
<1>7. BooksAgree
  <2>1. ASSUME CaughtUp, NEW t \in Tokens
        PROVE  /\ \A s \in Strategies : Committed(s, t) = aqua[s][t].balance
               /\ position[t].totalCommitted = Promised(t)
    <3>1. \A s \in Strategies : Committed(s, t) = aqua[s][t].balance
      BY <1>3, <1>6, <2>1 DEF Agrees, Committed, Base
    <3>2. \A s \in Strategies : Row(v, t)[s] = aqua[s][t].balance
      BY <1>6, <2>1 DEF Agrees, Row
    <3>3. Promised(t) = Owed(v, t)
      BY <3>2, PromisedIs DEF Owed
    <3> QED
      BY <1>3, <3>1, <3>3
  <2> QED
    BY <2>1 DEF BooksAgree
<1>8. CountersAgree
  <2>1. ASSUME CaughtUp
        PROVE  v.on = {s \in Strategies : LiveBook(s)} /\ \A t \in Tokens : Holders(v, t) = {s \in Strategies : IsLive(s, t)}
    <3>1. v.on \in SUBSET Strategies
      BY <1>2, ViewIs
    <3>2. v.on = {s \in Strategies : LiveBook(s)}
      BY <1>6, <2>1, <3>1 DEF Agrees
    <3>3. ASSUME NEW t \in Tokens PROVE Holders(v, t) = {s \in Strategies : IsLive(s, t)}
      BY <1>6, <2>1, <3>1 DEF Agrees, Holders
    <3> QED
      BY <3>2, <3>3
  <2> QED
    BY <1>3, <2>1 DEF CountersAgree
<1> QED
  BY <1>5, <1>7, <1>8 DEF BooksInv

LEMMA AlwaysIInv == ASSUME ~ ReshipsLive PROVE Spec => []IInv
<1>1. Init => IInv
  BY InitInv
<1>2. IInv /\ [Next]_vars => IInv'
  BY NextInv
<1> QED
  BY <1>1, <1>2, PTL DEF Spec

(***************************************************************************)
(* Once the index has caught up, what it says each strategy still owes,    *)
(* the total per token and the counters of live strategies are what Aqua's *)
(* books hold: for any strategies, lists and amounts, however far the      *)
(* index fell behind, as long as a hash is not shipped again while live    *)
(* (aqua.ts:207-395).                                                      *)
(***************************************************************************)
THEOREM BooksAreTheChains == ~ ReshipsLive => (Spec => []BooksInv)
<1>1. ASSUME ~ ReshipsLive PROVE Spec => []BooksInv
  <2>1. Spec => []IInv
    BY <1>1, AlwaysIInv
  <2>2. IInv => BooksInv
    BY BooksFollow
  <2> QED
    BY <2>1, <2>2, PTL
<1> QED
  BY <1>1

(***************************************************************************)
(* The utilisation recorded with a fill divides what was promised when the *)
(* event was emitted, though the handler divides the index's own total     *)
(* when it gets to it (swapvm.ts:59-103).                                  *)
(***************************************************************************)
THEOREM UtilisationIsOfOneInstant == ~ ReshipsLive => (Spec => []UtilIsOneInstant)
<1>1. ASSUME ~ ReshipsLive PROVE Spec => []UtilIsOneInstant
  <2>1. Spec => []IInv
    BY <1>1, AlwaysIInv
  <2>2. IInv => UtilIsOneInstant
    BY DEF IInv
  <2> QED
    BY <2>1, <2>2, PTL
<1> QED
  BY <1>1

-----------------------------------------------------------------------------
(***************************************************************************)
(* Siblings.  They are looked up under the app of the event, and a dock    *)
(* recomputes a sibling at the first token shared, so the maker's          *)
(* strategies are of one app and any two share a token at most.            *)
(***************************************************************************)
SameApp == \A s, r \in Strategies : AppOf[s] = AppOf[r]

ShareOneToken ==
    \A s, r \in Strategies : s # r =>
        \A list \in ShipLists[s], other \in ShipLists[r] :
            \A t, u \in ToSet(list) \cap ToSet(other) : t = u

LiveOf(v, t) == {HashOf[x] : x \in Holders(v, t)}
Shares(v, x, s) == \E t \in Tokens : v.held[x][t] # None /\ v.held[s][t] # None
SibsOf(v, s) == {HashOf[x] : x \in {x \in v.on \ {s} : Shares(v, x, s)}}

SibsOK ==
    /\ \A t \in Tokens : position[t].live = LiveOf(Seen, t)
    /\ \A s \in Strategies : strategy[s].active => strategy[s].siblings = SibsOf(Seen, s)

LEMMA SibsAre ==
    ASSUME NEW w, Seen' = w, \A t \in Tokens : position'[t].live = LiveOf(w, t),
           \A s \in Strategies : strategy'[s].active => strategy'[s].siblings = SibsOf(w, s)
    PROVE  SibsOK'
BY DEF SibsOK

LEMMA SibsWere ==
    ASSUME SibsOK, NEW v, v = Seen
    PROVE  /\ \A t \in Tokens : position[t].live = LiveOf(v, t)
           /\ \A s \in Strategies : strategy[s].active => strategy[s].siblings = SibsOf(v, s)
BY DEF SibsOK

LEMMA HashIs == ASSUME SameApp, NEW s \in Strategies, NEW r \in Strategies, HashOf[s] = HashOf[r] PROVE s = r
BY AquiferAssumption DEF SameApp

LEMMA LiveOfIs ==
    ASSUME SameApp, NEW v \in Views, NEW x \in Strategies, NEW t \in Tokens
    PROVE  HashOf[x] \in LiveOf(v, t) <=> x \in v.on /\ v.held[x][t] # None
<1>1. Holders(v, t) \subseteq Strategies
  BY ViewIs DEF Holders
<1> QED
  BY <1>1, HashIs DEF LiveOf, Holders

\* Two strategies that are on share a token at most.
LEMMA OneShared ==
    ASSUME ShareOneToken, NEW v \in Views, NEW s \in v.on, NEW x \in v.on, s # x,
           NEW t \in Tokens, NEW u \in Tokens, v.held[s][t] # None, v.held[x][t] # None, v.held[s][u] # None, v.held[x][u] # None
    PROVE  t = u
<1>1. s \in Strategies /\ x \in Strategies
  BY ViewIs
<1>2. PICK list \in ShipLists[s] : \A k \in Tokens : v.held[s][k] # None => k \in ToSet(list)
  BY ViewIs DEF Listed
<1>3. PICK other \in ShipLists[x] : \A k \in Tokens : v.held[x][k] # None => k \in ToSet(other)
  BY ViewIs DEF Listed
<1> QED
  BY <1>1, <1>2, <1>3 DEF ShareOneToken

\* A row recomputed from live lists that are up to date is up to date.
LEMMA RecomputedSibs ==
    ASSUME SameApp, NEW v \in Views, NEW x \in Strategies, NEW row, NEW live, x \in v.on,
           row.tokens \in Seq(Tokens), ToSet(row.tokens) = {t \in Tokens : v.held[x][t] # None},
           \A t \in ToSet(row.tokens) : live[t] = LiveOf(v, t)
    PROVE  SiblingsOf(x, row, live) = SibsOf(v, x)
<1>1. v.on \subseteq Strategies
  BY ViewIs
<1> PICK T : T = ToSet(row.tokens)
  OBVIOUS
<1> PICK lists : lists = {live[t] : t \in T}
  OBVIOUS
<1>0. SiblingsOf(x, row, live) = (UNION lists) \ {HashOf[x]}
  BY DEF SiblingsOf
<1>2. ASSUME NEW h \in SiblingsOf(x, row, live) PROVE h \in SibsOf(v, x)
  <2>1. PICK t \in ToSet(row.tokens) : h \in live[t] /\ h # HashOf[x]
    <3>1. PICK l \in lists : h \in l
      BY <1>0
    <3> QED
      BY <1>0, <3>1
  <2>2. PICK y \in Holders(v, t) : h = HashOf[y]
    BY <2>1 DEF LiveOf
  <2>3. y \in v.on \ {x} /\ Shares(v, y, x)
    BY <2>1, <2>2 DEF Holders, Shares
  <2> QED
    BY <2>2, <2>3 DEF SibsOf
<1>3. ASSUME NEW h \in SibsOf(v, x) PROVE h \in SiblingsOf(x, row, live)
  <2>1. PICK y \in v.on \ {x} : h = HashOf[y] /\ Shares(v, y, x)
    BY DEF SibsOf
  <2>2. PICK t \in Tokens : v.held[y][t] # None /\ v.held[x][t] # None
    BY <2>1 DEF Shares
  <2>3. t \in ToSet(row.tokens) /\ h \in live[t]
    BY <2>1, <2>2 DEF LiveOf, Holders
  <2>4. h # HashOf[x]
    BY <1>1, <2>1, HashIs
  <2>5. live[t] \in lists
    BY <2>3
  <2> QED
    BY <1>0, <2>3, <2>4, <2>5
<1> QED
  BY <1>2, <1>3

\* Nothing that concerns x has changed.
LEMMA SibsSame ==
    ASSUME NEW v \in Views, NEW w \in Views, NEW x \in Strategies,
           \A t \in Tokens : w.held[x][t] # None <=> v.held[x][t] # None,
           \A y \in Strategies \ {x} : y \in w.on /\ Shares(w, y, x) <=> y \in v.on /\ Shares(v, y, x)
    PROVE  SibsOf(w, x) = SibsOf(v, x)
<1>1. v.on \subseteq Strategies /\ w.on \subseteq Strategies
  BY ViewIs
<1>2. {y \in w.on \ {x} : Shares(w, y, x)} = {y \in v.on \ {x} : Shares(v, y, x)}
  BY <1>1
<1> QED
  BY <1>2 DEF SibsOf

LEMMA ShippedSibs ==
    ASSUME SameApp, IInv, SibsOK, NEW s \in Strategies, HandleShipped(s), NEW v \in Views, v = Seen, s \notin v.on,
           NEW w \in Views, w = OnShipped(v, s), Seen' = w
    PROVE  SibsOK'
<1> DEFINE fresh == [known |-> TRUE, active |-> TRUE, tokens |-> <<>>, siblings |-> {}]
<1>1. position' = position /\ strategy' = [strategy EXCEPT ![s] = fresh] /\ strategy \in [Strategies -> Entity]
  <2>0. RowsOK
    BY DEF IInv
  <2>1. remaining = v.held
    BY CountsWere
  <2>2. \A t \in Tokens : remaining[s][t] \in {None, 0}
    BY <2>1, ViewIs DEF Settled
  <2>3. ToSet(strategy[s].tokens) = {t \in Tokens : remaining[s][t] # None}
    BY <2>0, RowIsEntity
  <2>4. {t \in ToSet(strategy[s].tokens) : remaining[s][t] # None /\ remaining[s][t] > 0} = {}
    BY <2>2, <2>3
  <2> QED
    BY <2>0, <2>4, NothingClaimed
<1>2. w.on = v.on \cup {s} /\ (\A t \in Tokens : w.held[s][t] = None) /\ \A r \in Strategies \ {s} : w.held[r] = v.held[r]
  BY ViewIs DEF OnShipped
<1>3. \A t \in Tokens : position'[t].live = LiveOf(w, t)
  <2>1. \A t \in Tokens : Holders(w, t) = Holders(v, t)
    BY ShippedOwes
  <2> QED
    BY <1>1, <2>1, SibsWere DEF LiveOf
<1>4. ASSUME NEW x \in Strategies, strategy'[x].active PROVE strategy'[x].siblings = SibsOf(w, x)
  <2>1. CASE x = s
    <3>1. strategy'[s].siblings = {}
      BY <1>1
    <3>2. SibsOf(w, s) = {}
      BY <1>2 DEF SibsOf, Shares
    <3> QED
      BY <2>1, <3>1, <3>2
  <2>2. CASE x # s
    <3>1. strategy'[x] = strategy[x]
      BY <1>1, <2>2
    <3>2. ~ Shares(w, s, x)
      BY <1>2 DEF Shares
    <3>3. \A y \in Strategies \ {x, s} : Shares(w, y, x) <=> Shares(v, y, x)
      BY <1>2, <2>2 DEF Shares
    <3>4. SibsOf(w, x) = SibsOf(v, x)
      BY <1>2, <2>2, <3>2, <3>3, SibsSame
    <3> QED
      BY <1>4, <3>1, <3>4, SibsWere
  <2> QED
    BY <2>1, <2>2
<1> QED
  BY <1>3, <1>4, SibsAre

\* At the only token x shares with s, s is off the live list already.
LEMMA RecomputedAtDock ==
    ASSUME SameApp, ShareOneToken, IInv, SibsOK, NEW s \in Strategies, NEW v \in Views, v = Seen, s \in v.on,
           NEW w \in Views, w = OnDocked(v, s), NEW held, held = {t \in Tokens : remaining[s][t] # None},
           NEW x \in Strategies, x # s, x \in v.on
    PROVE  Recomputed(s, held)[x].siblings = SibsOf(w, x)
<1> DEFINE list == strategy[s].tokens
           at == AppearsAt(x, s, held)
           passed == {list[i] : i \in 1 .. Min(at)}
           live == LiveAfter(s, held \cap passed)
<1>0. RowsOK /\ remaining = v.held /\ strategy[x].active /\ s \in Strategies
  BY CountsWere DEF IInv
<1>1. list \in Seq(Tokens) /\ IsInjective(list) /\ ToSet(list) = held /\ DOMAIN list = 1 .. Len(list) /\ Len(list) \in Nat
  BY <1>0, RowIsEntity
<1>2. \A t \in Tokens : t \in held <=> v.held[s][t] # None
  BY <1>0
<1>3. \A t \in Tokens : position[t].live = LiveOf(v, t)
  BY SibsWere
<1>4. /\ w.on = v.on \ {s}
      /\ \A r \in Strategies \ {s} : w.held[r] = v.held[r]
      /\ \A t \in Tokens : w.held[s][t] # None <=> v.held[s][t] # None
  BY DockedView DEF None
<1>5. \A t \in Tokens : LiveOf(w, t) = LiveOf(v, t) \ {HashOf[s]}
  <2>1. \A t \in Tokens : Holders(w, t) = Holders(v, t) \ {s} /\ Holders(v, t) \subseteq Strategies
    BY DockedOwes, ViewIs DEF Holders
  <2>2. \A r \in Strategies : HashOf[r] = HashOf[s] => r = s
    BY HashIs
  <2> QED
    BY <2>1, <2>2 DEF LiveOf
<1>6. \A i \in DOMAIN list : i \in at <=> v.held[x][list[i]] # None
  <2>1. ASSUME NEW i \in DOMAIN list PROVE i \in at <=> v.held[x][list[i]] # None
    <3>1. list[i] \in Tokens /\ list[i] \in held
      BY <1>1 DEF ToSet
    <3>2. HashOf[x] \in position[list[i]].live \ {HashOf[s]} <=> v.held[x][list[i]] # None
      BY <1>3, <3>1, LiveOfIs, HashIs
    <3> QED
      BY <3>1, <3>2 DEF AppearsAt
  <2> QED
    BY <2>1
<1>7. at \subseteq DOMAIN list
  BY DEF AppearsAt
<1>8. \A t \in held : v.held[x][t] # None => \E i \in at : t = list[i]
  BY <1>1, <1>6 DEF ToSet
<1>9. Recomputed(s, held)[x] = IF at # {} THEN RecomputedRow(x, strategy[x], live) ELSE strategy[x]
  BY <1>0 DEF Recomputed, SameApp
<1> HIDE DEF list, at
<1>10. CASE at = {}
  <2>1. \A t \in Tokens : ~ (v.held[s][t] # None /\ v.held[x][t] # None)
    BY <1>2, <1>8, <1>10
  <2>2. ~ Shares(v, s, x)
    BY <2>1 DEF Shares
  <2>3. \A y \in Strategies \ {x, s} : Shares(w, y, x) <=> Shares(v, y, x)
    BY <1>4 DEF Shares
  <2>4. SibsOf(w, x) = SibsOf(v, x)
    BY <1>4, <2>2, <2>3, SibsSame
  <2> QED
    BY <1>0, <1>9, <1>10, <2>4, SibsWere
<1>11. CASE at # {}
  <2>1. PICK i \in at : TRUE
    BY <1>11
  <2>2. list[i] \in Tokens /\ v.held[s][list[i]] # None /\ v.held[x][list[i]] # None /\ i \in DOMAIN list
    BY <1>1, <1>2, <1>6, <1>7, <2>1 DEF ToSet
  <2>3. \A j \in at : j = i
    <3>1. ASSUME NEW j \in at PROVE j = i
      <4>1. list[j] \in Tokens /\ v.held[s][list[j]] # None /\ v.held[x][list[j]] # None /\ j \in DOMAIN list
        BY <1>1, <1>2, <1>6, <1>7, <3>1 DEF ToSet
      <4>2. list[j] = list[i]
        BY <2>2, <4>1, OneShared
      <4> QED
        BY <1>1, <2>2, <4>1, <4>2 DEF IsInjective
    <3> QED
      BY <3>1
  <2>4. Min(at) = i
    <3>1. i \in at /\ \A j \in at : i <= j
      BY <1>1, <2>1, <2>2, <2>3
    <3> QED
      BY <2>3, <3>1 DEF Min
  <2>5. list[i] \in passed
    <3>1. i \in 1 .. i
      BY <1>1, <2>2
    <3> QED
      BY <2>4, <3>1
  <2>6. ASSUME NEW t \in Tokens, v.held[x][t] # None PROVE live[t] = LiveOf(w, t)
    <3>1. CASE t \in held
      <4>1. t \in held \cap passed
        BY <1>8, <2>3, <2>5, <2>6, <3>1
      <4>2. live[t] = position[t].live \ {HashOf[s]}
        BY <4>1 DEF LiveAfter
      <4> QED
        BY <1>3, <1>5, <4>2
    <3>2. CASE t \notin held
      <4>1. live[t] = position[t].live
        BY <3>2 DEF LiveAfter
      <4>2. HashOf[s] \notin LiveOf(v, t)
        BY <1>2, <3>2, LiveOfIs
      <4>3. LiveOf(w, t) = LiveOf(v, t) \ {HashOf[s]} /\ position[t].live = LiveOf(v, t)
        BY <1>3, <1>5
      <4> HIDE DEF live, passed
      <4> QED
        BY <4>1, <4>2, <4>3
    <3> QED
      BY <3>1, <3>2
  <2> HIDE DEF live, passed
  <2>7. strategy[x].tokens \in Seq(Tokens) /\ ToSet(strategy[x].tokens) = {t \in Tokens : w.held[x][t] # None}
    BY <1>0, <1>4, RowIsEntity
  <2>8. SiblingsOf(x, strategy[x], live) = SibsOf(w, x)
    BY <1>4, <2>6, <2>7, RecomputedSibs
  <2>9. RecomputedRow(x, strategy[x], live).siblings = SiblingsOf(x, strategy[x], live)
    <3>1. strategy[x] \in Entity
      BY <1>0, RowIsEntity
    <3> QED
      BY <3>1 DEF RecomputedRow, Entity
  <2> QED
    BY <1>9, <1>11, <2>8, <2>9
<1> QED
  BY <1>10, <1>11

LEMMA DockedSibs ==
    ASSUME SameApp, ShareOneToken, IInv, SibsOK, NEW s \in Strategies, HandleDocked(s), NEW v \in Views, v = Seen,
           s \in v.on, NEW w \in Views, w = OnDocked(v, s), Seen' = w
    PROVE  SibsOK'
<1> PICK held : held = {t \in Tokens : remaining[s][t] # None}
  OBVIOUS
<1>0. RowsOK /\ remaining = v.held /\ (\A x \in Strategies : x \in v.on <=> strategy[x].active) /\ strategy[s].known
  <2>1. RowsOK /\ remaining = v.held /\ \A x \in Strategies : x \in v.on <=> strategy[x].active
    BY CountsWere DEF IInv
  <2> QED
    BY <2>1 DEF RowsOK
<1>1. {t \in ToSet(strategy[s].tokens) : remaining[s][t] # None} = held
  BY <1>0, RowIsEntity
<1>2. /\ position' = Unwound(s, held)
      /\ strategy' = [Recomputed(s, held) EXCEPT ![s] = [Recomputed(s, held)[s] EXCEPT !.active = FALSE, !.siblings = {}]]
  BY <1>0, <1>1 DEF HandleDocked
<1>3. Recomputed(s, held) \in [Strategies -> Entity]
  BY <1>0, RecomputedIs
<1>4. held \in SUBSET Tokens /\ \A t \in held : remaining[s][t] \in Nat
  <2>1. \A t \in Tokens : v.held[s][t] \in Holding
    BY ViewIs
  <2> QED
    BY <1>0, <2>1, BaseIs
<1>5. ASSUME NEW t \in Tokens PROVE position'[t].live = LiveOf(w, t)
  <2>1. Holders(w, t) = Holders(v, t) \ {s} /\ Holders(v, t) \subseteq Strategies
    BY DockedOwes, ViewIs DEF Holders
  <2>2. \A r \in Strategies : HashOf[r] = HashOf[s] => r = s
    BY HashIs
  <2>3. LiveOf(w, t) = LiveOf(v, t) \ {HashOf[s]}
    BY <2>1, <2>2 DEF LiveOf
  <2>4. position[t].live = LiveOf(v, t)
    BY SibsWere
  <2>5. CASE t \in held
    BY <1>0, <1>2, <1>4, <2>3, <2>4, <2>5, UnwoundIs
  <2>6. CASE t \notin held
    <3>1. position'[t] = position[t]
      BY <1>0, <1>2, <1>4, <2>6, UnwoundIs
    <3>2. HashOf[s] \notin LiveOf(v, t)
      BY <1>0, <2>6, LiveOfIs
    <3> QED
      BY <2>3, <2>4, <3>1, <3>2
  <2> QED
    BY <2>5, <2>6
<1>6. ASSUME NEW x \in Strategies, strategy'[x].active PROVE strategy'[x].siblings = SibsOf(w, x)
  <2>1. x # s
    <3> PICK r \in Entity : r = Recomputed(s, held)[s]
      BY <1>3
    <3>1. strategy'[s] = [r EXCEPT !.active = FALSE, !.siblings = {}]
      BY <1>2, <1>3
    <3>2. ~ strategy'[s].active
      BY <3>1 DEF Entity
    <3> QED
      BY <1>6, <3>2
  <2>2. strategy'[x] = Recomputed(s, held)[x]
    BY <1>2, <1>3, <2>1
  <2>3. x \in v.on
    BY <1>0, <1>6, <2>2, RecomputedIs
  <2> QED
    BY <2>1, <2>2, <2>3, RecomputedAtDock
<1> QED
  BY <1>5, <1>6, SibsAre

\* Whoever is on the list the newcomer joins is recomputed; for the others nothing has changed.
LEMMA PushedSibs ==
    ASSUME SameApp, IInv, SibsOK, NEW s \in Strategies, NEW t \in Tokens, NEW amount \in Nat, HandlePushed(s, t, amount),
           NEW v \in Views, v = Seen, s \in v.on,
           NEW w \in Views, w = Paid(v, s, t, Base(v.held[s][t]) + amount), Seen' = w, RowsOK'
    PROVE  SibsOK'
<1> DEFINE first == FirstPush(s, t)
           n == Base(v.held[s][t]) + amount
           live == IF first THEN position[t].live \cup {HashOf[s]} ELSE position[t].live
           listed == [strategy EXCEPT ![s].tokens = IF first THEN Append(@, t) ELSE @]
           seen == [k \in Tokens |-> IF k = t THEN live ELSE position[k].live]
<1>0. RowsOK /\ remaining = v.held /\ (\A x \in Strategies : x \in v.on <=> strategy[x].active) /\ strategy[s].known
  <2>1. RowsOK /\ remaining = v.held /\ \A x \in Strategies : x \in v.on <=> strategy[x].active
    BY CountsWere DEF IInv
  <2> QED
    BY <2>1 DEF RowsOK
<1>1. /\ position' = [position EXCEPT ![t] = [position[t] EXCEPT !.totalCommitted = position[t].totalCommitted + amount,
                                                                 !.activeStrategies = IF first THEN position[t].activeStrategies + 1
                                                                                      ELSE position[t].activeStrategies,
                                                                 !.live = live]]
      /\ strategy' = [x \in Strategies |->
                     IF first /\ HashOf[x] \in live /\ AppOf[x] = AppOf[s] /\ listed[x].active
                     THEN RecomputedRow(x, listed[x], seen)
                     ELSE listed[x]]
  BY <1>0 DEF HandlePushed
<1>2. first <=> v.held[s][t] = None
  BY <1>0 DEF FirstPush
<1>3. n \in Nat /\ n # None
  <2>1. v.held[s][t] \in Holding /\ Base(v.held[s][t]) \in Nat
    BY RowIs, BaseIs
  <2> QED
    BY <2>1 DEF None
<1>4. /\ w.on = v.on /\ (\A r \in Strategies \ {s} : w.held[r] = v.held[r])
      /\ \A u \in Tokens : w.held[s][u] # None <=> v.held[s][u] # None \/ u = t
  BY <1>3, ViewIs DEF Paid
<1>5. /\ Holders(w, t) = Holders(v, t) \cup {s}
      /\ \A u \in Tokens \ {t} : Holders(w, u) = Holders(v, u)
  <2>1. w = Paid(v, s, t, n)
    OBVIOUS
  <2> HIDE DEF n
  <2> QED
    BY <1>3, <2>1, PaidOwes
<1>6. \A u \in Tokens : position[u].live = LiveOf(v, u)
  BY SibsWere
<1>7. live = LiveOf(w, t) /\ \A u \in Tokens : seen[u] = LiveOf(w, u)
  <2>1. s \in Holders(v, t) <=> ~ first
    BY <1>2 DEF Holders
  <2>2. live = LiveOf(w, t)
    BY <1>5, <1>6, <2>1 DEF LiveOf
  <2>3. \A u \in Tokens \ {t} : LiveOf(w, u) = LiveOf(v, u)
    BY <1>5 DEF LiveOf
  <2> QED
    BY <1>6, <2>2, <2>3
<1>8. listed = [strategy EXCEPT ![s] = [strategy[s] EXCEPT !.tokens = IF first THEN Append(strategy[s].tokens, t)
                                                                      ELSE strategy[s].tokens]]
  OBVIOUS
<1> HIDE DEF n, seen, live, listed, first
<1>9. \A u \in Tokens : position'[u].live = LiveOf(w, u)
  <2>1. position \in [Tokens -> Position]
    BY <1>0 DEF RowsOK
  <2>2. position'[t].live = live
    <3> PICK p \in Position : p = position[t]
      BY <2>1
    <3> DEFINE total == position[t].totalCommitted + amount
               count == IF first THEN position[t].activeStrategies + 1 ELSE position[t].activeStrategies
    <3>1. position'[t] = [p EXCEPT !.totalCommitted = total, !.activeStrategies = count, !.live = live]
      BY <1>1, <2>1
    <3> HIDE DEF total, count
    <3> QED
      BY <3>1 DEF Position
  <2>3. \A u \in Tokens \ {t} : position'[u] = position[u] /\ LiveOf(w, u) = LiveOf(v, u)
    BY <1>1, <1>5, <2>1 DEF LiveOf
  <2> QED
    BY <1>6, <1>7, <2>2, <2>3
<1>10. /\ \A x \in Strategies \ {s} : listed[x] = strategy[x]
       /\ listed[s].active = strategy[s].active /\ listed[s].siblings = strategy[s].siblings
  <2>1. strategy \in [Strategies -> Entity]
    BY <1>0 DEF RowsOK
  <2> PICK q : q = IF first THEN Append(strategy[s].tokens, t) ELSE strategy[s].tokens
    OBVIOUS
  <2>2. listed = [strategy EXCEPT ![s] = [strategy[s] EXCEPT !.tokens = q]]
    BY <1>8
  <2> QED
    BY <2>1, <2>2 DEF Entity
<1>11. \A x \in Strategies : listed[x].active <=> x \in v.on
  BY <1>0, <1>10
<1>12. \A x \in Strategies : listed[x] \in Entity /\ ToSet(listed[x].tokens) = {u \in Tokens : w.held[x][u] # None}
  <2>1. remaining' = w.held
    BY DEF Seen
  <2>2. \A x \in Strategies : strategy'[x].tokens = listed[x].tokens /\ listed[x] \in Entity
    <3> PICK q : q = IF first THEN Append(strategy[s].tokens, t) ELSE strategy[s].tokens
      OBVIOUS
    <3>1. q \in Seq(Tokens)
      <4>1. strategy[s].tokens \in Seq(Tokens)
        BY <1>0, RowIsEntity
      <4> QED
        BY <4>1
    <3>2. strategy \in [Strategies -> Entity]
      BY <1>0 DEF RowsOK
    <3>3. [strategy[s] EXCEPT !.tokens = q] \in Entity
      BY <3>1, <3>2 DEF Entity
    <3>4. listed = [strategy EXCEPT ![s] = [strategy[s] EXCEPT !.tokens = q]]
      BY <1>8
    <3>5. listed \in [Strategies -> Entity]
      BY <3>2, <3>3, <3>4
    <3>6. seen \in [Tokens -> SUBSET Hashes]
      <4>1. \A u \in Tokens : LiveOf(w, u) \in SUBSET Hashes
        BY ViewIs DEF LiveOf, Holders, Hashes
      <4>2. seen = [u \in Tokens |-> seen[u]]
        BY DEF seen
      <4> QED
        BY <1>7, <4>1, <4>2
    <3> QED
      BY <1>1, <3>5, <3>6, RecomputedRowIs
  <2>3. \A x \in Strategies : ToSet(strategy'[x].tokens) = {u \in Tokens : remaining'[x][u] # None}
    BY DEF RowsOK
  <2> QED
    BY <2>1, <2>2, <2>3
<1>13. ASSUME NEW x \in Strategies, strategy'[x].active PROVE strategy'[x].siblings = SibsOf(w, x)
  <2>1. listed[x] \in Entity /\ listed[x].tokens \in Seq(Tokens) /\ ToSet(listed[x].tokens) = {u \in Tokens : w.held[x][u] # None}
    BY <1>12 DEF Entity
  <2>2. CASE first /\ HashOf[x] \in live /\ listed[x].active
    <3>1. strategy'[x] = RecomputedRow(x, listed[x], seen)
      BY <1>1, <2>2 DEF SameApp
    <3>2. strategy'[x].siblings = SiblingsOf(x, listed[x], seen)
      BY <2>1, <3>1 DEF RecomputedRow, Entity
    <3>3. \A u \in ToSet(listed[x].tokens) : seen[u] = LiveOf(w, u)
      BY <1>7, <2>1
    <3>4. x \in w.on
      BY <1>4, <1>11, <2>2
    <3>5. SiblingsOf(x, listed[x], seen) = SibsOf(w, x)
      BY <2>1, <3>3, <3>4, RecomputedSibs
    <3> QED
      BY <3>2, <3>5
  <2>3. CASE ~ (first /\ HashOf[x] \in live /\ listed[x].active)
    <3>1. strategy'[x] = listed[x]
      BY <1>1, <2>3
    <3>2. listed[x].active /\ x \in v.on
      BY <1>11, <1>13, <3>1
    <3>3. strategy'[x].siblings = strategy[x].siblings /\ strategy[x].active
      BY <1>0, <1>10, <3>1, <3>2
    <3>4. SibsOf(w, x) = SibsOf(v, x)
      <4>1. CASE ~ first
        <5>1. \A r \in Strategies, u \in Tokens : w.held[r][u] # None <=> v.held[r][u] # None
          BY <1>2, <1>4, <4>1
        <5>2. \A y \in Strategies : Shares(w, y, x) <=> Shares(v, y, x)
          BY <5>1 DEF Shares
        <5> QED
          BY <1>4, <5>1, <5>2, SibsSame
      <4>2. CASE first
        <5>1. HashOf[x] \notin LiveOf(w, t) /\ x \in w.on
          BY <1>4, <1>7, <2>3, <3>2, <4>2
        <5>2. w.held[x][t] = None /\ x # s
          BY <1>4, <5>1, LiveOfIs
        <5>3. w.held[x] = v.held[x]
          BY <1>4, <5>2
        <5>4. ASSUME NEW y \in Strategies PROVE Shares(w, y, x) <=> Shares(v, y, x)
          <6>1. \A u \in Tokens : u # t => (w.held[y][u] # None <=> v.held[y][u] # None)
            BY <1>4
          <6>2. v.held[x][t] = None
            BY <5>2, <5>3
          <6> QED
            BY <5>2, <5>3, <6>1, <6>2 DEF Shares
        <5> QED
          BY <1>4, <5>3, <5>4, SibsSame
      <4> QED
        BY <4>1, <4>2
    <3> QED
      BY <3>3, <3>4, SibsWere
  <2> QED
    BY <2>2, <2>3
<1> QED
  BY <1>9, <1>13, SibsAre

\* Neither a pull nor a report changes who holds what.
LEMMA SteadySibs ==
    ASSUME SibsOK, NEW v \in Views, v = Seen, NEW w \in Views, Seen' = w, w.on = v.on, strategy' = strategy,
           \A t \in Tokens : position'[t].live = position[t].live,
           \A s \in Strategies, t \in Tokens : w.held[s][t] # None <=> v.held[s][t] # None
    PROVE  SibsOK'
<1>1. v.on \subseteq Strategies
  BY ViewIs
<1>2. \A t \in Tokens : LiveOf(w, t) = LiveOf(v, t)
  <2>1. \A t \in Tokens : Holders(w, t) = Holders(v, t)
    BY <1>1 DEF Holders
  <2> QED
    BY <2>1 DEF LiveOf
<1>3. ASSUME NEW s \in Strategies PROVE SibsOf(w, s) = SibsOf(v, s)
  <2>1. \A y \in Strategies : Shares(w, y, s) <=> Shares(v, y, s)
    BY DEF Shares
  <2> QED
    BY <2>1, SibsSame
<1>4. \A t \in Tokens : position'[t].live = LiveOf(w, t)
  BY <1>2, SibsWere
<1>5. ASSUME NEW s \in Strategies, strategy'[s].active PROVE strategy'[s].siblings = SibsOf(w, s)
  BY <1>3, <1>5, SibsWere
<1> QED
  BY <1>4, <1>5, SibsAre

LEMMA IndexSibs == ASSUME SameApp, ShareOneToken, IInv, SibsOK, Index PROVE SibsOK'
<1> PICK e : e = Head(log)
  OBVIOUS
<1>1. log # <<>> /\ log' = Tail(log) /\ UNCHANGED aqua
  BY DEF Index
<1> PICK v : v = Seen
  OBVIOUS
<1>2. v \in Views /\ e \in Event
  BY <1>1, IndexStep
<1>3. PICK w \in Views : Follows(v, e, w)
  BY <1>1, IndexStep
<1>4. RowsOK /\ RowsOK'
  BY IndexKeeps DEF IInv
<1>5. position \in [Tokens -> Position]
  BY <1>4 DEF RowsOK
<1>6. CASE e.kind = "Shipped"
  <2>1. e.s \in Strategies /\ HandleShipped(e.s) /\ e.s \notin v.on /\ w = OnShipped(v, e.s)
    BY <1>2, <1>3, <1>6 DEF Event, Index, Follows
  <2>2. Seen' = w
    BY <1>2, <2>1, ShippedMakes
  <2> QED
    BY <1>2, <2>1, <2>2, ShippedSibs
<1>7. CASE e.kind = "Docked"
  <2>1. e.s \in Strategies /\ HandleDocked(e.s) /\ e.s \in v.on /\ w = OnDocked(v, e.s)
    BY <1>2, <1>3, <1>7 DEF Event, Index, Follows
  <2>2. Seen' = w
    BY <1>2, <2>1, DockedMakes
  <2> QED
    BY <1>2, <2>1, <2>2, DockedSibs
<1>8. CASE e.kind = "Pushed"
  <2>1. e.s \in Strategies /\ e.t \in Tokens /\ e.amount \in Amounts
    BY <1>2, <1>8 DEF Event
  <2>2. /\ HandlePushed(e.s, e.t, e.amount) /\ e.s \in v.on
        /\ w = Paid(v, e.s, e.t, Base(v.held[e.s][e.t]) + e.amount)
    BY <1>3, <1>8 DEF Index, Follows
  <2>3. e.amount \in Nat
    BY <2>1, AmountIs
  <2>4. Seen' = w
    BY <1>2, <2>1, <2>2, <2>3, PushedMakes
  <2> QED
    BY <1>2, <1>4, <2>1, <2>2, <2>3, <2>4, PushedSibs
<1>9. CASE e.kind = "Pulled"
  <2>1. e.s \in Strategies /\ e.t \in Tokens /\ e.amount \in Amounts
    BY <1>2, <1>9 DEF Event
  <2>2. /\ HandlePulled(e.s, e.t, e.amount) /\ e.s \in v.on /\ v.held[e.s][e.t] # None
        /\ e.amount <= v.held[e.s][e.t] /\ w = Paid(v, e.s, e.t, v.held[e.s][e.t] - e.amount)
    BY <1>3, <1>9 DEF Index, Follows
  <2>3. e.amount \in Nat
    BY <2>1, AmountIs
  <2>4. Seen' = w
    <3> PICK s \in Strategies, t \in Tokens, amount \in Nat : s = e.s /\ t = e.t /\ amount = e.amount
      BY <2>1, <2>3
    <3>1. /\ HandlePulled(s, t, amount) /\ s \in v.on /\ v.held[s][t] # None
          /\ amount <= v.held[s][t] /\ w = Paid(v, s, t, v.held[s][t] - amount)
      BY <2>2
    <3> QED
      BY <1>2, <3>1, PulledMakes, SMTT(60)
  <2>5. /\ w.on = v.on
        /\ \A s \in Strategies, t \in Tokens : w.held[s][t] # None <=> v.held[s][t] # None
    <3> PICK n : n = v.held[e.s][e.t] - e.amount
      OBVIOUS
    <3>1. v.held[e.s][e.t] \in Nat
      BY <1>2, <2>1, <2>2, RowIs, BaseIs
    <3>2. n \in Nat /\ n # None
      <4>1. \A a, b \in Nat : b <= a => a - b \in Nat
        OBVIOUS
      <4>2. n \in Nat
        BY <2>2, <2>3, <3>1, <4>1
      <4> QED
        BY <4>2 DEF None
    <3>3. w.held = [v.held EXCEPT ![e.s] = [v.held[e.s] EXCEPT ![e.t] = n]] /\ w.on = v.on
      BY <2>2 DEF Paid
    <3>4. v.held \in [Strategies -> [Tokens -> Holding]]
      BY <1>2, ViewIs
    <3>5. \A s \in Strategies, t \in Tokens : w.held[s][t] = IF s = e.s /\ t = e.t THEN n ELSE v.held[s][t]
      <4>1. \A s \in Strategies : w.held[s] = IF s = e.s THEN [v.held[e.s] EXCEPT ![e.t] = n] ELSE v.held[s]
        BY <2>1, <3>3, <3>4
      <4>2. \A t \in Tokens : [v.held[e.s] EXCEPT ![e.t] = n][t] = IF t = e.t THEN n ELSE v.held[e.s][t]
        BY <2>1, <3>4
      <4> QED
        BY <4>1, <4>2
    <3>6. ASSUME NEW s \in Strategies, NEW t \in Tokens PROVE w.held[s][t] # None <=> v.held[s][t] # None
      <4>1. CASE s = e.s /\ t = e.t
        BY <2>2, <3>2, <3>5, <4>1
      <4>2. CASE ~ (s = e.s /\ t = e.t)
        BY <3>5, <4>2
      <4> QED
        BY <4>1, <4>2
    <3> QED
      BY <3>3, <3>6
  <2>6. strategy' = strategy /\ \A t \in Tokens : position'[t].live = position[t].live
    <3> PICK total : total = AtLeastZero(position[e.t].totalCommitted - e.amount)
      OBVIOUS
    <3>1. strategy' = strategy /\ position' = [position EXCEPT ![e.t] = [position[e.t] EXCEPT !.totalCommitted = total]]
      <4>1. remaining[e.s][e.t] # None
        BY <2>2, CountsWere
      <4> QED
        BY <2>2, <4>1 DEF HandlePulled
    <3> QED
      BY <1>5, <2>1, <3>1 DEF Position
  <2> QED
    BY <1>2, <2>4, <2>5, <2>6, SteadySibs
<1>10. CASE e.kind = "EncumbranceApplied"
  <2>1. e.t \in Tokens /\ e.backing \in Amounts /\ e.due \in Nat
    BY <1>2, <1>10 DEF Event
  <2>2. HandleEncumbranceApplied(e.t, e.backing, e.due) /\ e.due = Owed(v, e.t) /\ w = v
    BY <1>3, <1>10 DEF Index, Follows
  <2>3. Seen' = v
    BY <2>1, <2>2, AppliedMakes
  <2>4. strategy' = strategy /\ \A t \in Tokens : position'[t].live = position[t].live
    <3> PICK o : o = [backing |-> e.backing, util |-> (position[e.t].totalCommitted * Bps) \div e.backing, due |-> e.due]
      OBVIOUS
    <3>1. /\ strategy' = strategy
          /\ \/ position' = position
             \/ position' = [position EXCEPT ![e.t] = [position[e.t] EXCEPT !.observed = o]]
      BY <2>2 DEF HandleEncumbranceApplied
    <3> QED
      BY <1>5, <2>1, <3>1 DEF Position
  <2> QED
    BY <1>2, <2>3, <2>4, SteadySibs
<1> QED
  BY <1>6, <1>7, <1>8, <1>9, <1>10 DEF Index

LEMMA AlwaysSibs == ASSUME ~ ReshipsLive, SameApp, ShareOneToken PROVE Spec => [](IInv /\ SibsOK)
<1>1. Init => IInv /\ SibsOK
  <2>1. ASSUME Init PROVE SibsOK
    <3>1. Seen.on = {}
      BY <2>1 DEF Init, Seen
    <3>2. \A t \in Tokens : LiveOf(Seen, t) = {}
      BY <3>1 DEF LiveOf, Holders
    <3> QED
      BY <2>1, <3>2 DEF SibsOK, Init
  <2> QED
    BY <2>1, InitInv
<1>2. IInv /\ SibsOK /\ [Next]_vars => (IInv /\ SibsOK)'
  <2>1. ASSUME IInv, SibsOK, [Next]_vars PROVE SibsOK'
    <3>1. CASE Index
      BY <2>1, <3>1, IndexSibs
    <3>2. ASSUME UNCHANGED index PROVE SibsOK'
      BY <2>1, <3>2 DEF SibsOK, Seen, index
    <3>3. CASE Next /\ ~ Index
      <4>1. ASSUME NEW s, NEW list, NEW amount, Ship(s, list, amount) PROVE UNCHANGED index
        BY <4>1 DEF Ship
      <4>2. ASSUME NEW s, NEW list, Dock(s, list) PROVE UNCHANGED index
        BY <4>2 DEF Dock
      <4>3. ASSUME NEW s, NEW t, NEW amount, Push(s, t, amount) PROVE UNCHANGED index
        BY <4>3 DEF Push
      <4>4. ASSUME NEW s, NEW t, NEW amount, NEW backing, Pull(s, t, amount, backing) PROVE UNCHANGED index
        BY <4>4 DEF Pull
      <4>5. UNCHANGED index
        BY <3>3, <4>1, <4>2, <4>3, <4>4 DEF Next
      <4> QED
        BY <3>2, <4>5
    <3>4. CASE UNCHANGED vars
      BY <3>2, <3>4 DEF vars
    <3> QED
      BY <2>1, <3>1, <3>3, <3>4
  <2> QED
    BY <2>1, NextInv
<1> QED
  BY <1>1, <1>2, PTL DEF Spec

(***************************************************************************)
(* A capped strategy's missing siblings are, after every event, those      *)
(* which the index's own books have live on one of its tokens: refreshed   *)
(* by the events of the others, in whatever order they come                *)
(* (aqua.ts:87-122).  Of one app, and any two sharing a token at most:     *)
(* beyond that the code leaves a stale entry.                              *)
(***************************************************************************)
THEOREM SiblingsStayCurrent == ~ ReshipsLive /\ SameApp /\ ShareOneToken => (Spec => []SiblingsAreCurrent)
<1>1. ASSUME ~ ReshipsLive, SameApp, ShareOneToken PROVE Spec => []SiblingsAreCurrent
  <2>1. Spec => [](IInv /\ SibsOK)
    BY <1>1, AlwaysSibs
  <2>2. IInv /\ SibsOK => SiblingsAreCurrent
    <3> SUFFICES ASSUME IInv, SibsOK PROVE SiblingsAreCurrent
      OBVIOUS
    <3> PICK v : v = Seen
      OBVIOUS
    <3>1. ASSUME NEW s \in Strategies, strategy[s].active PROVE strategy[s].siblings = LiveSiblings(s)
      <4>1. remaining = v.held /\ (\A x \in Strategies : x \in v.on <=> strategy[x].active) /\ v.on \subseteq Strategies
        BY CountsWere DEF Seen
      <4>2. \A x \in Strategies : ToSet(strategy[x].tokens) = {t \in Tokens : remaining[x][t] # None}
        BY RowIsEntity DEF IInv
      <4>3. \A x \in Strategies : ToSet(strategy[x].tokens) \cap ToSet(strategy[s].tokens) # {} <=> Shares(v, x, s)
        BY <4>1, <4>2 DEF Shares
      <4>4. {x \in v.on \ {s} : Shares(v, x, s)}
              = {x \in Strategies \ {s} : /\ strategy[x].active
                                          /\ ToSet(strategy[x].tokens) \cap ToSet(strategy[s].tokens) # {}}
        BY <4>1, <4>3
      <4>5. LiveSiblings(s) = SibsOf(v, s)
        BY <4>4 DEF LiveSiblings, SibsOf
      <4> QED
        BY <3>1, <4>5, SibsWere
    <3>2. CompleteIsComplete
      <4>1. ASSUME NEW s \in Strategies, strategy[s].active, UsesEncumbrance[s], SiblingListComplete(s)
            PROVE  LiveSiblings(s) \subseteq DeclaredSiblings[s]
        BY <3>1, <4>1 DEF SiblingListComplete, Missing
      <4> QED
        BY <4>1 DEF CompleteIsComplete
    <3>3. MissingIsCurrent
      <4>1. ASSUME NEW s \in Strategies, strategy[s].active, UsesEncumbrance[s]
            PROVE  Missing(s) = LiveSiblings(s) \ DeclaredSiblings[s]
        BY <3>1, <4>1 DEF Missing
      <4> QED
        BY <4>1 DEF MissingIsCurrent
    <3> QED
      BY <3>2, <3>3 DEF SiblingsAreCurrent
  <2> QED
    BY <2>1, <2>2, PTL
<1> QED
  BY <1>1
=============================================================================
