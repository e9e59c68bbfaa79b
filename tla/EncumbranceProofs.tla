-------------------------- MODULE EncumbranceProofs --------------------------
(***************************************************************************)
(* What opcode 35 guarantees for every book, every program and every       *)
(* amount: the balances stay natural, the sampled siblings stay covered,   *)
(* no fill happens at maxUtilBps, and the curve is monotone in the wallet. *)
(* Then what publishing adds: the declared total covers the whole book,    *)
(* the page draws what the contract does, and an oracle strategy is paid   *)
(* its spread.                                                             *)
(***************************************************************************)
EXTENDS Beacon, FiniteSetTheorems, SequenceTheorems, WellFoundedInduction, TLAPS

-----------------------------------------------------------------------------
(***************************************************************************)
(* Arithmetic: the integer quotient, and that products keep order.         *)
(***************************************************************************)

\* What integer division returns: the largest q with q * b <= a.
LEMMA Quotient ==
    ASSUME NEW a \in Nat, NEW b \in Nat, b > 0
    PROVE  /\ a \div b \in Nat
           /\ (a \div b) * b <= a
           /\ a < (a \div b) * b + b
  OBVIOUS

\* Multiplying by a natural number keeps the order.
LEMMA TimesKeepsOrder ==
    ASSUME NEW a \in Nat, NEW b \in Nat, NEW k \in Nat, a <= b
    PROVE  /\ a * k \in Nat /\ b * k \in Nat
           /\ a * k <= b * k /\ k * a <= k * b
  <1>1. PICK d \in Nat : b = a + d
    <2>1. b - a \in Nat /\ b = a + (b - a)
      OBVIOUS
    <2> QED BY <2>1
  <1>2. d * k \in Nat /\ b * k = a * k + d * k /\ k * b = k * a + k * d
    BY <1>1
  <1>3. k * d = d * k /\ k * a = a * k /\ a * k \in Nat
    BY <1>1
  <1> QED BY <1>2, <1>3

\* A larger numerator never has a smaller quotient.
LEMMA QuotientOfMore ==
    ASSUME NEW a \in Nat, NEW c \in Nat, NEW b \in Nat, b > 0, a <= c
    PROVE  a \div b <= c \div b
  <1> DEFINE q == a \div b
             r == c \div b
  <1>1. q \in Nat /\ q * b <= a
    BY Quotient
  <1>2. r \in Nat /\ c < r * b + b
    BY Quotient
  <1> HIDE DEF q, r
  <1>3. ASSUME r + 1 <= q PROVE FALSE
    <2>1. (r + 1) * b <= q * b
      BY <1>1, <1>2, <1>3, TimesKeepsOrder
    <2>2. (r + 1) * b = r * b + b
      BY <1>2
    <2>3. r * b \in Nat /\ q * b \in Nat
      BY <1>1, <1>2, TimesKeepsOrder
    <2> QED BY <1>1, <1>2, <2>1, <2>2, <2>3
  <1>4. q <= r
    BY <1>1, <1>2, <1>3
  <1> QED BY <1>4 DEF q, r

\* A larger denominator never has a larger quotient.
LEMMA QuotientByMore ==
    ASSUME NEW a \in Nat, NEW b \in Nat, NEW c \in Nat, b > 0, b <= c
    PROVE  a \div c <= a \div b
  <1> DEFINE q == a \div c
             r == a \div b
  <1>1. q \in Nat /\ q * c <= a
    BY Quotient
  <1>2. r \in Nat /\ a < r * b + b
    BY Quotient
  <1> HIDE DEF q, r
  <1>3. ASSUME r + 1 <= q PROVE FALSE
    <2>1. (r + 1) * b <= q * b
      BY <1>1, <1>2, <1>3, TimesKeepsOrder
    <2>2. q * b <= q * c
      BY <1>1, TimesKeepsOrder
    <2>3. (r + 1) * b = r * b + b
      BY <1>2
    <2>4. r * b \in Nat /\ q * b \in Nat /\ q * c \in Nat
      BY <1>1, <1>2, TimesKeepsOrder
    <2> QED BY <1>1, <1>2, <2>1, <2>2, <2>3, <2>4
  <1>4. q <= r
    BY <1>1, <1>2, <1>3
  <1> QED BY <1>4 DEF q, r

-----------------------------------------------------------------------------
(***************************************************************************)
(* The curve for one program: what each quantity is, and how it moves      *)
(* with the backing.                                                       *)
(***************************************************************************)

\* The numbers of a program.
LEMMA ProgramFields ==
    ASSUME NEW p \in Program
    PROVE  /\ p.declared \in Nat /\ p.maxUtilBps \in Nat /\ p.widenBps \in Nat
           /\ p.siblings \in Seq(Strategies)
  <1>1. /\ p.declared \in Nat /\ p.maxUtilBps \in Uint16 /\ p.widenBps \in Uint16
        /\ p.siblings \in Seq(Strategies)
    BY DEF Program
  <1>2. \A n \in Uint16 : n \in Nat
    BY DEF Uint16
  <1> QED BY <1>1, <1>2

\* Utilisation is a natural number that falls as the backing grows.
LEMMA UtilFalls ==
    ASSUME NEW p \in Program, NEW b \in Nat, NEW c \in Nat, b > 0, b <= c
    PROVE  /\ Util(p, b) \in Nat /\ Util(p, c) \in Nat
           /\ Util(p, c) <= Util(p, b)
  <1>1. p.declared \in Nat
    BY ProgramFields
  <1>2. p.declared * Bps \in Nat
    BY <1>1 DEF Bps
  <1> QED BY <1>2, Quotient, QuotientByMore DEF Util

\* widenBps times utilisation, the slope both adjustments share.
LEMMA SlopeFalls ==
    ASSUME NEW p \in Program, NEW b \in Nat, NEW c \in Nat, b > 0, b <= c,
           NEW a \in Nat
    PROVE  /\ a * (p.widenBps * Util(p, b)) \in Nat
           /\ a * (p.widenBps * Util(p, c)) \in Nat
           /\ a * (p.widenBps * Util(p, c)) <= a * (p.widenBps * Util(p, b))
  <1> DEFINE low == Util(p, c)
             high == Util(p, b)
             w == p.widenBps
  <1>1. w \in Nat
    BY ProgramFields
  <1>2. low \in Nat /\ high \in Nat /\ low <= high
    BY UtilFalls
  <1> HIDE DEF low, high, w
  <1>3. w * low \in Nat /\ w * high \in Nat /\ w * low <= w * high
    BY <1>1, <1>2, TimesKeepsOrder
  <1>4. a * (w * low) \in Nat /\ a * (w * high) \in Nat /\ a * (w * low) <= a * (w * high)
    BY <1>3, TimesKeepsOrder
  <1> QED BY <1>4 DEF low, high, w

\* Haircut and penalty are natural numbers that fall as the backing grows.
LEMMA AdjustmentsFall ==
    ASSUME NEW p \in Program, NEW b \in Nat, NEW c \in Nat, b > 0, b <= c,
           NEW o, o.amountIn \in Nat, o.amountOut \in Nat
    PROVE  /\ Haircut(p, o, b) \in Nat /\ Haircut(p, o, c) \in Nat
           /\ Haircut(p, o, c) <= Haircut(p, o, b)
           /\ Penalty(p, o, b) \in Nat /\ Penalty(p, o, c) \in Nat
           /\ Penalty(p, o, c) <= Penalty(p, o, b)
  <1> DEFINE hb == o.amountOut * (p.widenBps * Util(p, b))
             hc == o.amountOut * (p.widenBps * Util(p, c))
             pb == o.amountIn * (p.widenBps * Util(p, b))
             pc == o.amountIn * (p.widenBps * Util(p, c))
  <1>1. hb \in Nat /\ hc \in Nat /\ hc <= hb
    BY SlopeFalls
  <1>2. pb \in Nat /\ pc \in Nat /\ pc <= pb
    BY SlopeFalls
  <1> HIDE DEF hb, hc, pb, pc
  <1>3. /\ hb \div BpsSquared \in Nat /\ hc \div BpsSquared \in Nat
        /\ hc \div BpsSquared <= hb \div BpsSquared
    BY <1>1, Quotient, QuotientOfMore DEF BpsSquared
  <1>4. /\ pb + BpsSquared - 1 \in Nat /\ pc + BpsSquared - 1 \in Nat
        /\ pc + BpsSquared - 1 <= pb + BpsSquared - 1
    BY <1>2 DEF BpsSquared
  <1>5. /\ (pb + BpsSquared - 1) \div BpsSquared \in Nat
        /\ (pc + BpsSquared - 1) \div BpsSquared \in Nat
        /\ (pc + BpsSquared - 1) \div BpsSquared <= (pb + BpsSquared - 1) \div BpsSquared
    <2>1. BpsSquared \in Nat /\ BpsSquared > 0
      BY DEF BpsSquared
    <2> HIDE DEF BpsSquared
    <2> QED BY <1>4, <2>1, Quotient, QuotientOfMore
  <1> QED BY <1>3, <1>5 DEF hb, hc, pb, pc, Haircut, Penalty

\* Amounts are natural numbers and an order is a record of them.
LEMMA OrderFields ==
    ASSUME NEW o \in Order
    PROVE  /\ o \in [tokenIn: Tokens, tokenOut: Tokens, isExactIn: BOOLEAN,
                     amountIn: Amounts \ {0}, amountOut: Amounts]
           /\ o.tokenIn \in Tokens /\ o.tokenOut \in Tokens
           /\ o.tokenIn # o.tokenOut
           /\ o.isExactIn \in BOOLEAN
           /\ o.amountIn \in Nat /\ o.amountOut \in Nat
  <1>1. o \in [tokenIn: Tokens, tokenOut: Tokens, isExactIn: BOOLEAN,
               amountIn: Amounts \ {0}, amountOut: Amounts]
        /\ o.tokenIn # o.tokenOut
    BY DEF Order
  <1>2. /\ o.tokenIn \in Tokens /\ o.tokenOut \in Tokens
        /\ o.amountIn \in Amounts /\ o.amountOut \in Amounts
    BY <1>1
  <1>3. o.isExactIn \in BOOLEAN
    BY <1>1
  <1>4. Amounts \subseteq Nat
    BY BookAssumption
  <1> QED BY <1>1, <1>2, <1>3, <1>4

\* What an order admitted by the curve is executed as.
LEMMA AdmittedOrder ==
    ASSUME NEW p \in Program, NEW o \in Order, NEW b \in Nat, Admits(p, o, b)
    PROVE  LET x == Widened(p, o, b) IN
           /\ x.amountIn \in Nat /\ x.amountOut \in Nat
           /\ x.tokenIn = o.tokenIn /\ x.tokenOut = o.tokenOut
           /\ x.amountOut <= Free(p, b)
           /\ b > 0 /\ Util(p, b) < p.maxUtilBps
  <1>1. o.amountIn \in Nat /\ o.amountOut \in Nat /\ o.isExactIn \in BOOLEAN
    BY OrderFields
  <1>2. b > 0
    BY DEF Admits
  <1>3. Haircut(p, o, b) \in Nat /\ Penalty(p, o, b) \in Nat
    BY <1>1, <1>2, AdjustmentsFall
  <1>4. o.isExactIn => Haircut(p, o, b) <= o.amountOut
    BY DEF Admits
  <1>5. o \in [tokenIn: Tokens, tokenOut: Tokens, isExactIn: BOOLEAN,
               amountIn: Amounts \ {0}, amountOut: Amounts]
    BY OrderFields
  <1>6. CASE o.isExactIn
    <2>1. Widened(p, o, b) = [o EXCEPT !.amountOut = @ - Haircut(p, o, b)]
      BY <1>6 DEF Widened
    <2> QED BY <2>1, <1>1, <1>2, <1>3, <1>4, <1>5, <1>6 DEF Admits
  <1>7. CASE ~ o.isExactIn
    <2>1. Widened(p, o, b) = [o EXCEPT !.amountIn = @ + Penalty(p, o, b)]
      BY <1>7 DEF Widened
    <2> QED BY <2>1, <1>1, <1>2, <1>3, <1>5, <1>7 DEF Admits
  <1> QED BY <1>6, <1>7

(***************************************************************************)
(* MoreBackingNeverWorse for every program and every amount: at a larger   *)
(* backing the terms are no worse and only the floor can refuse.           *)
(***************************************************************************)
LEMMA CurveIsMonotone ==
    ASSUME NEW p \in Program, NEW o \in Order, NEW b \in Nat, NEW c \in Nat,
           b <= c, Admits(p, o, b)
    PROVE  /\ Widened(p, o, c).amountOut >= Widened(p, o, b).amountOut
           /\ Widened(p, o, c).amountIn <= Widened(p, o, b).amountIn
           /\ \/ Admits(p, o, c)
              \/ Widened(p, o, c).amountOut > Free(p, c)
  <1> DEFINE hb == Haircut(p, o, b)
             hc == Haircut(p, o, c)
             nb == Penalty(p, o, b)
             nc == Penalty(p, o, c)
  <1>1. o.amountIn \in Nat /\ o.amountOut \in Nat /\ o.isExactIn \in BOOLEAN
    BY OrderFields
  <1>2. b > 0 /\ Util(p, b) < p.maxUtilBps /\ Widened(p, o, b).amountOut <= Free(p, b)
    BY DEF Admits
  <1>3. hb \in Nat /\ hc \in Nat /\ hc <= hb /\ nb \in Nat /\ nc \in Nat /\ nc <= nb
    BY <1>1, <1>2, AdjustmentsFall
  <1>4. o.isExactIn => hb <= o.amountOut
    BY DEF Admits
  <1>5. p.declared \in Nat /\ p.maxUtilBps \in Nat
    BY ProgramFields
  <1>6. Util(p, c) < p.maxUtilBps
    BY <1>2, <1>5, UtilFalls
  <1>7. o \in [tokenIn: Tokens, tokenOut: Tokens, isExactIn: BOOLEAN,
               amountIn: Amounts \ {0}, amountOut: Amounts]
    BY OrderFields
  <1>8. Free(p, c) \in Nat /\ Free(p, b) \in Nat /\ c - b \in Nat
    BY <1>5 DEF Free
  <1>9. Free(p, b) > 0 => Free(p, c) = Free(p, b) + (c - b)
    BY <1>5 DEF Free
  <1> HIDE DEF hb, hc, nb, nc
  <1>10. CASE ~ o.isExactIn
    <2>1. /\ Widened(p, o, b) = [o EXCEPT !.amountIn = @ + nb]
          /\ Widened(p, o, c) = [o EXCEPT !.amountIn = @ + nc]
      BY <1>10 DEF Widened, nb, nc
    <2>2. /\ Widened(p, o, b).amountOut = o.amountOut
          /\ Widened(p, o, c).amountOut = o.amountOut
          /\ Widened(p, o, b).amountIn = o.amountIn + nb
          /\ Widened(p, o, c).amountIn = o.amountIn + nc
      BY <2>1, <1>7
    <2>3. o.amountOut <= Free(p, c)
      BY <1>1, <1>2, <1>8, <1>9, <2>2
    <2> QED BY <1>1, <1>2, <1>3, <1>6, <1>10, <2>2, <2>3 DEF Admits
  <1>11. CASE o.isExactIn
    <2>1. /\ Widened(p, o, b) = [o EXCEPT !.amountOut = @ - hb]
          /\ Widened(p, o, c) = [o EXCEPT !.amountOut = @ - hc]
      BY <1>11 DEF Widened, hb, hc
    <2>2. /\ Widened(p, o, b).amountOut = o.amountOut - hb
          /\ Widened(p, o, c).amountOut = o.amountOut - hc
          /\ Widened(p, o, b).amountIn = o.amountIn
          /\ Widened(p, o, c).amountIn = o.amountIn
      BY <2>1, <1>7
    <2>3. o.amountOut - hc >= o.amountOut - hb /\ hc <= o.amountOut
      BY <1>1, <1>3, <1>4, <1>11
    <2>4. \/ Widened(p, o, c).amountOut <= Free(p, c)
          \/ Widened(p, o, c).amountOut > Free(p, c)
      BY <1>1, <1>3, <1>8, <2>2
    <2>5. c # 0 /\ Haircut(p, o, c) <= o.amountOut
      BY <1>2, <2>3 DEF hc
    <2>6. \/ Admits(p, o, c)
          \/ Widened(p, o, c).amountOut > Free(p, c)
      BY <1>6, <2>4, <2>5 DEF Admits
    <2> QED BY <1>1, <2>2, <2>3, <2>6
  <1> QED BY <1>10, <1>11, <1>1

-----------------------------------------------------------------------------
(***************************************************************************)
(* The transition system.                                                  *)
(***************************************************************************)

\* A well-formed book, whatever wrote its programs.
BookTyped ==
    /\ program \in [Strategies -> Program]
    /\ wallet \in [Tokens -> 0 .. MaxHeld]
    /\ allowance \in [Tokens -> 0 .. MaxHeld]
    /\ virtual \in [Strategies -> [Tokens -> 0 .. MaxHeld]]
    /\ tokensCount \in [Strategies -> {NeverShipped, Shipped, Docked}]

\* The backing of a typed book is a natural number.
LEMMA BackingType ==
    ASSUME BookTyped, NEW t \in Tokens
    PROVE  /\ Backing(t) \in Nat
           /\ Backing(t) <= wallet[t] /\ Backing(t) <= allowance[t]
           /\ wallet[t] \in Nat /\ allowance[t] \in Nat
  <1>1. wallet[t] \in 0 .. MaxHeld /\ allowance[t] \in 0 .. MaxHeld
    BY DEF BookTyped
  <1>2. wallet[t] \in Nat /\ allowance[t] \in Nat
    BY <1>1, BookAssumption
  <1> QED BY <1>2 DEF Backing

\* What a fill executes: both amounts natural, tokens untouched.
LEMMA ExecutedOrder ==
    ASSUME BookTyped, NEW s \in Strategies, NEW o \in Order, Accepts(s, o)
    PROVE  /\ Executed(s, o).amountIn \in Nat
           /\ Executed(s, o).amountOut \in Nat
           /\ program[s].capped =>
                /\ Executed(s, o).amountOut <= Free(program[s], Backing(o.tokenOut))
                /\ Backing(o.tokenOut) > 0
                /\ Util(program[s], Backing(o.tokenOut)) < program[s].maxUtilBps
                /\ DeclaresEnough(s, o.tokenOut)
  <1>1. o.tokenOut \in Tokens /\ o.amountIn \in Nat /\ o.amountOut \in Nat
    BY OrderFields
  <1>2. program[s] \in Program /\ Backing(o.tokenOut) \in Nat
    BY <1>1, BackingType DEF BookTyped
  <1>3. CASE program[s].capped
    <2>1. /\ Admits(program[s], o, Backing(o.tokenOut))
          /\ DeclaresEnough(s, o.tokenOut)
      BY <1>3 DEF Accepts
    <2>2. Executed(s, o) = Widened(program[s], o, Backing(o.tokenOut))
      BY <1>3 DEF Executed
    <2> QED BY <1>2, <2>1, <2>2, AdmittedOrder
  <1>4. CASE ~ program[s].capped
    <2>1. Executed(s, o) = o
      BY <1>4 DEF Executed
    <2> QED BY <1>1, <1>4, <2>1
  <1> QED BY <1>3, <1>4

\* A fill, written out: who moves and by how much.
LEMMA FillMoves ==
    ASSUME BookTyped, NEW s \in Strategies, NEW o \in Order, Fill(s, o)
    PROVE  LET x == Executed(s, o) IN
           /\ x.amountIn \in Nat /\ x.amountOut \in Nat
           /\ o.tokenIn \in Tokens /\ o.tokenOut \in Tokens /\ o.tokenIn # o.tokenOut
           /\ x.amountOut <= virtual[s][o.tokenOut]
           /\ x.amountOut <= Backing(o.tokenOut)
           /\ wallet[o.tokenIn] + x.amountIn <= MaxHeld
           /\ virtual[s][o.tokenIn] + x.amountIn <= MaxHeld
           /\ wallet' = [t \in Tokens |->
                           IF t = o.tokenOut THEN wallet[t] - x.amountOut
                           ELSE IF t = o.tokenIn THEN wallet[t] + x.amountIn
                           ELSE wallet[t]]
           /\ allowance' = [t \in Tokens |->
                           IF t = o.tokenOut THEN allowance[t] - x.amountOut
                           ELSE allowance[t]]
           /\ virtual' = [v \in Strategies |-> [t \in Tokens |->
                           IF v # s THEN virtual[v][t]
                           ELSE IF t = o.tokenOut THEN virtual[v][t] - x.amountOut
                           ELSE IF t = o.tokenIn THEN virtual[v][t] + x.amountIn
                           ELSE virtual[v][t]]]
           /\ program' = program /\ tokensCount' = tokensCount
           /\ IsLive(s) /\ Accepts(s, o)
  <1> DEFINE x == Executed(s, o)
  <1>1. /\ IsLive(s) /\ Accepts(s, o)
        /\ x.amountOut <= virtual[s][o.tokenOut]
        /\ x.amountOut <= Backing(o.tokenOut)
        /\ wallet[o.tokenIn] + x.amountIn <= MaxHeld
        /\ virtual[s][o.tokenIn] + x.amountIn <= MaxHeld
        /\ wallet' = [wallet EXCEPT ![o.tokenOut] = @ - x.amountOut,
                                    ![o.tokenIn] = @ + x.amountIn]
        /\ allowance' = [allowance EXCEPT ![o.tokenOut] = @ - x.amountOut]
        /\ virtual' = [virtual EXCEPT ![s][o.tokenOut] = @ - x.amountOut,
                                      ![s][o.tokenIn] = @ + x.amountIn]
        /\ program' = program /\ tokensCount' = tokensCount
    BY DEF Fill
  <1>2. x.amountIn \in Nat /\ x.amountOut \in Nat
    BY <1>1, ExecutedOrder
  <1>3. o.tokenIn \in Tokens /\ o.tokenOut \in Tokens /\ o.tokenIn # o.tokenOut
    BY OrderFields
  <1>4. /\ wallet \in [Tokens -> 0 .. MaxHeld] /\ allowance \in [Tokens -> 0 .. MaxHeld]
        /\ virtual \in [Strategies -> [Tokens -> 0 .. MaxHeld]]
    BY DEF BookTyped
  <1> HIDE DEF x
  <1>5. wallet' = [t \in Tokens |->
                     IF t = o.tokenOut THEN wallet[t] - x.amountOut
                     ELSE IF t = o.tokenIn THEN wallet[t] + x.amountIn
                     ELSE wallet[t]]
    BY <1>1, <1>3, <1>4
  <1>6. allowance' = [t \in Tokens |->
                     IF t = o.tokenOut THEN allowance[t] - x.amountOut
                     ELSE allowance[t]]
    BY <1>1, <1>3, <1>4
  <1>7. virtual' = [v \in Strategies |-> [t \in Tokens |->
                     IF v # s THEN virtual[v][t]
                     ELSE IF t = o.tokenOut THEN virtual[v][t] - x.amountOut
                     ELSE IF t = o.tokenIn THEN virtual[v][t] + x.amountIn
                     ELSE virtual[v][t]]]
    BY <1>1, <1>3, <1>4
  <1> QED BY <1>1, <1>2, <1>3, <1>5, <1>6, <1>7 DEF x

\* Steps that write no program keep a book well formed: nothing is spent that
\* is not there.
LEMMA DockKeeps ==
    ASSUME BookTyped, NEW s \in Strategies, Dock(s)
    PROVE  BookTyped'
  <1> USE DEF BookTyped
  <1>1. 0 \in 0 .. MaxHeld
    BY BookAssumption
  <1>2. virtual' \in [Strategies -> [Tokens -> 0 .. MaxHeld]]
    BY <1>1 DEF Dock
  <1> QED BY <1>2 DEF Dock

LEMMA FillKeeps ==
    ASSUME BookTyped, NEW s \in Strategies, NEW o \in Order, Fill(s, o)
    PROVE  BookTyped'
  <1> USE DEF BookTyped
  <1> DEFINE x == Executed(s, o)
  <1>1. /\ x.amountIn \in Nat /\ x.amountOut \in Nat
        /\ o.tokenIn \in Tokens /\ o.tokenOut \in Tokens
        /\ x.amountOut <= virtual[s][o.tokenOut]
        /\ x.amountOut <= Backing(o.tokenOut)
        /\ wallet[o.tokenIn] + x.amountIn <= MaxHeld
        /\ virtual[s][o.tokenIn] + x.amountIn <= MaxHeld
    BY FillMoves
  <1>2. /\ wallet' = [t \in Tokens |->
                         IF t = o.tokenOut THEN wallet[t] - x.amountOut
                         ELSE IF t = o.tokenIn THEN wallet[t] + x.amountIn
                         ELSE wallet[t]]
        /\ allowance' = [t \in Tokens |->
                         IF t = o.tokenOut THEN allowance[t] - x.amountOut
                         ELSE allowance[t]]
        /\ virtual' = [v \in Strategies |-> [t \in Tokens |->
                         IF v # s THEN virtual[v][t]
                         ELSE IF t = o.tokenOut THEN virtual[v][t] - x.amountOut
                         ELSE IF t = o.tokenIn THEN virtual[v][t] + x.amountIn
                         ELSE virtual[v][t]]]
        /\ program' = program /\ tokensCount' = tokensCount
    BY FillMoves
  <1>3. Backing(o.tokenOut) <= wallet[o.tokenOut] /\ Backing(o.tokenOut) <= allowance[o.tokenOut]
        /\ Backing(o.tokenOut) \in Nat
    BY <1>1, BackingType
  <1>4. MaxHeld \in Nat
    BY BookAssumption
  <1> HIDE DEF x
  <1>5. \A t \in Tokens : wallet[t] \in 0 .. MaxHeld /\ allowance[t] \in 0 .. MaxHeld
    OBVIOUS
  <1>6. \A v \in Strategies, t \in Tokens : virtual[v][t] \in 0 .. MaxHeld
    OBVIOUS
  <1>7. \A t \in Tokens : wallet'[t] \in 0 .. MaxHeld /\ allowance'[t] \in 0 .. MaxHeld
    BY <1>1, <1>2, <1>3, <1>4, <1>5
  <1>8. \A v \in Strategies, t \in Tokens : virtual'[v][t] \in 0 .. MaxHeld
    BY <1>1, <1>2, <1>4, <1>6
  <1>9. /\ wallet' \in [Tokens -> 0 .. MaxHeld]
        /\ allowance' \in [Tokens -> 0 .. MaxHeld]
    BY <1>2, <1>7
  <1>10. virtual' \in [Strategies -> [Tokens -> 0 .. MaxHeld]]
    BY <1>2, <1>8
  <1> QED BY <1>2, <1>9, <1>10

LEMMA MovesKeep ==
    ASSUME BookTyped, NEW t \in Tokens, MakerMoves(t) \/ MakerApproves(t)
    PROVE  BookTyped'
  BY BookAssumption DEF BookTyped, MakerMoves, MakerApproves

\* Every step keeps the types.
LEMMA TypeInductive ==
    ASSUME TypeOK, [Next]_vars
    PROVE  TypeOK'
  <1> USE DEF TypeOK, BookTyped
  <1>1. ASSUME NEW s \in Strategies, Ship(s) PROVE TypeOK'
    <2>1. Amounts \subseteq 0 .. MaxHeld
      BY BookAssumption
    <2>2. virtual' \in [Strategies -> [Tokens -> 0 .. MaxHeld]]
      BY <1>1, <2>1 DEF Ship
    <2> QED BY <1>1, <2>2 DEF Ship
  <1>2. ASSUME NEW s \in Strategies, Dock(s) PROVE TypeOK'
    BY <1>2, DockKeeps DEF Dock
  <1>3. ASSUME NEW s \in Strategies, NEW o \in Order, Fill(s, o) PROVE TypeOK'
    BY <1>3, FillKeeps DEF Fill
  <1>4. ASSUME NEW t \in Tokens, MakerMoves(t) \/ MakerApproves(t) PROVE TypeOK'
    BY <1>4, MovesKeep DEF MakerMoves, MakerApproves
  <1>5. CASE UNCHANGED vars
    BY <1>5 DEF vars
  <1> QED BY <1>1, <1>2, <1>3, <1>4, <1>5 DEF Next

(***************************************************************************)
(* The types hold in every reachable state: no balance is ever overdrawn   *)
(* by an adjusted amount, whatever the program's curve.                    *)
(***************************************************************************)
THEOREM TypeCorrect == Spec => []TypeOK
  <1>1. Init => TypeOK
    <2> SUFFICES ASSUME Init PROVE TypeOK
      OBVIOUS
    <2>1. 0 \in 0 .. MaxHeld
      BY BookAssumption
    <2>2. \A s \in Strategies : program[s] \in ProgramsOf[s]
      BY DEF Init
    <2>3. \A s \in Strategies : program[s] \in Program
      BY <2>2, BookAssumption
    <2>4. program \in [Strategies -> Program]
      BY <2>3 DEF Init
    <2> QED BY <2>1, <2>2, <2>4 DEF Init, TypeOK, NeverShipped
  <1>2. TypeOK /\ [Next]_vars => TypeOK'
    BY TypeInductive
  <1> QED BY <1>1, <1>2, PTL DEF Spec

LEMMA BooksTyped == Spec => []BookTyped
  <1>1. TypeOK => BookTyped
    BY DEF TypeOK, BookTyped
  <1> QED BY <1>1, TypeCorrect, PTL

\* Only a fill of that strategy, on that side, makes it pay out.
LEMMA OnlyFillsPay ==
    ASSUME BookTyped, [Next]_vars, NEW s \in Strategies, NEW t \in Tokens, PaysOut(s, t)
    PROVE  \E o \in Order : Fill(s, o) /\ o.tokenOut = t /\ Executed(s, o).amountOut > 0
  <1>1. IsLive(s) /\ IsLive(s)' /\ virtual'[s][t] < virtual[s][t]
    BY DEF PaysOut
  <1>2. virtual[s][t] \in 0 .. MaxHeld /\ MaxHeld \in Nat
    BY BookAssumption DEF BookTyped
  <1>3. ~ (virtual[s][t] < virtual[s][t])
    BY <1>2
  <1>4. ~ UNCHANGED virtual
    BY <1>1, <1>3
  <1>5. ASSUME NEW v \in Strategies, Ship(v) PROVE FALSE
    <2>1. v # s
      BY <1>1, <1>5 DEF Ship, IsLive, NeverShipped, Shipped
    <2>2. virtual'[s][t] = virtual[s][t]
      BY <1>5, <2>1 DEF Ship, BookTyped
    <2> QED BY <1>1, <1>3, <2>2
  <1>6. ASSUME NEW v \in Strategies, Dock(v) PROVE FALSE
    <2>1. v # s
      BY <1>1, <1>6 DEF Dock, IsLive, Docked, Shipped, BookTyped
    <2>2. virtual'[s][t] = virtual[s][t]
      BY <1>6, <2>1 DEF Dock, BookTyped
    <2> QED BY <1>1, <1>3, <2>2
  <1>7. ASSUME NEW v \in Strategies, NEW o \in Order, Fill(v, o)
        PROVE  v = s /\ o.tokenOut = t /\ Executed(v, o).amountOut > 0
    <2> DEFINE x == Executed(v, o)
    <2>1. /\ x.amountIn \in Nat /\ x.amountOut \in Nat
          /\ virtual' = [u \in Strategies |-> [k \in Tokens |->
                           IF u # v THEN virtual[u][k]
                           ELSE IF k = o.tokenOut THEN virtual[u][k] - x.amountOut
                           ELSE IF k = o.tokenIn THEN virtual[u][k] + x.amountIn
                           ELSE virtual[u][k]]]
      BY <1>7, FillMoves
    <2> HIDE DEF x
    <2>2. virtual'[s][t] =
             IF s # v THEN virtual[s][t]
             ELSE IF t = o.tokenOut THEN virtual[s][t] - x.amountOut
             ELSE IF t = o.tokenIn THEN virtual[s][t] + x.amountIn
             ELSE virtual[s][t]
      BY <2>1
    <2>3. virtual[s][t] \in Nat
      BY <1>2
    <2>4. v = s /\ o.tokenOut = t /\ x.amountOut > 0
      BY <1>1, <2>1, <2>2, <2>3
    <2> QED BY <2>4 DEF x
  <1>8. ASSUME NEW k \in Tokens, MakerMoves(k) \/ MakerApproves(k) PROVE FALSE
    BY <1>4, <1>8 DEF MakerMoves, MakerApproves
  <1>9. ~ UNCHANGED vars
    BY <1>4 DEF vars
  <1> QED BY <1>5, <1>6, <1>7, <1>8, <1>9 DEF Next

\* What is sampled is a natural number, and a fill of the strategy itself does
\* not change it: the strategy is left out of its own sample.
LEMMA SampleStays ==
    ASSUME BookTyped, NEW s \in Strategies, NEW o \in Order, Fill(s, o), NEW t \in Tokens
    PROVE  Sampled(s, t) \in Nat /\ Sampled(s, t)' = Sampled(s, t)
  <1>1. ASSUME NEW i \in 1 .. 6 PROVE Slot(s, t, i) \in Nat /\ Slot(s, t, i)' = Slot(s, t, i)
    <2> DEFINE h == program[s].siblings[i]
    <2>1. program' = program /\ tokensCount' = tokensCount
      BY FillMoves
    <2>2. Counts(s, i)' = Counts(s, i)
      BY <2>1 DEF Counts
    <2>3. CASE Counts(s, i)
      <3>1. i <= Len(program[s].siblings) /\ h # s
        BY <2>3 DEF Counts
      <3>2. program[s].siblings \in Seq(Strategies)
        BY ProgramFields DEF BookTyped
      <3>3. h \in Strategies
        BY <3>1, <3>2
      <3>4. virtual'[h][t] = virtual[h][t]
        BY <3>1, <3>3, FillMoves
      <3>5. virtual[h][t] \in Nat
        BY <3>3, BookAssumption DEF BookTyped
      <3> QED BY <2>1, <2>2, <2>3, <3>4, <3>5 DEF Slot
    <2>4. CASE ~ Counts(s, i)
      BY <2>2, <2>4 DEF Slot
    <2> QED BY <2>3, <2>4
  <1>2. \A i \in {1, 2, 3, 4, 5, 6} : Slot(s, t, i) \in Nat /\ Slot(s, t, i)' = Slot(s, t, i)
    BY <1>1
  <1>3. /\ Slot(s, t, 1) \in Nat /\ Slot(s, t, 2) \in Nat /\ Slot(s, t, 3) \in Nat
        /\ Slot(s, t, 4) \in Nat /\ Slot(s, t, 5) \in Nat /\ Slot(s, t, 6) \in Nat
    BY <1>2
  <1>4. /\ Slot(s, t, 1)' = Slot(s, t, 1) /\ Slot(s, t, 2)' = Slot(s, t, 2)
        /\ Slot(s, t, 3)' = Slot(s, t, 3) /\ Slot(s, t, 4)' = Slot(s, t, 4)
        /\ Slot(s, t, 5)' = Slot(s, t, 5) /\ Slot(s, t, 6)' = Slot(s, t, 6)
    BY <1>2
  <1> QED BY <1>3, <1>4 DEF Sampled

(***************************************************************************)
(* The promise of opcode 35 for every book: after a fill the wallet still  *)
(* covers all the sampled siblings are promised (SiblingsStayCovered).     *)
(***************************************************************************)
THEOREM Covered == Spec => SiblingsStayCovered
  <1>1. ASSUME BookTyped, [Next]_vars, NEW s \in Strategies, NEW t \in Tokens,
               program[s].capped, PaysOut(s, t)
        PROVE  Sampled(s, t)' <= Backing(t)'
    <2>1. PICK o \in Order : Fill(s, o) /\ o.tokenOut = t /\ Executed(s, o).amountOut > 0
      BY <1>1, OnlyFillsPay
    <2> DEFINE out == Executed(s, o).amountOut
    <2>2. /\ Accepts(s, o) /\ out \in Nat
          /\ wallet'[t] = wallet[t] - out /\ allowance'[t] = allowance[t] - out
      BY <1>1, <2>1, FillMoves
    <2>3. /\ out <= Free(program[s], Backing(t)) /\ DeclaresEnough(s, t)
      BY <1>1, <2>1, <2>2, ExecutedOrder
    <2>4. Sampled(s, t) \in Nat /\ Sampled(s, t)' = Sampled(s, t)
      BY <1>1, <2>1, SampleStays
    <2>5. program[s].declared \in Nat
      BY <1>1, ProgramFields DEF BookTyped
    <2>6. Backing(t) \in Nat /\ wallet[t] \in Nat /\ allowance[t] \in Nat
      BY <1>1, BackingType
    <2>7. Backing(t)' = Backing(t) - out
      BY <2>2, <2>6 DEF Backing
    <2>8. out > 0
      BY <2>1
    <2> HIDE DEF out
    <2>9. out <= Backing(t) - program[s].declared
      BY <2>2, <2>3, <2>5, <2>6, <2>8 DEF Free
    <2>10. program[s].declared >= Sampled(s, t)
      BY <2>3 DEF DeclaresEnough
    <2> QED BY <2>2, <2>4, <2>5, <2>6, <2>7, <2>9, <2>10
  <1>2. BookTyped /\ [Next]_vars =>
          [\A s \in Strategies, t \in Tokens :
             program[s].capped /\ PaysOut(s, t) => Sampled(s, t)' <= Backing(t)']_vars
    BY <1>1
  <1> QED BY <1>2, BooksTyped, PTL DEF Spec, SiblingsStayCovered

(***************************************************************************)
(* No fill at or above maxUtilBps of the siblings' real obligations        *)
(* (NoFillAtMaxUtil), although the quotient rounds down.                   *)
(***************************************************************************)
THEOREM BelowMaxUtil == Spec => NoFillAtMaxUtil
  <1>1. ASSUME BookTyped, [Next]_vars, NEW s \in Strategies, NEW t \in Tokens,
               program[s].capped, PaysOut(s, t)
        PROVE  Sampled(s, t) * Bps < program[s].maxUtilBps * Backing(t)
    <2>1. PICK o \in Order : Fill(s, o) /\ o.tokenOut = t
      BY <1>1, OnlyFillsPay
    <2>2. Accepts(s, o)
      BY <1>1, <2>1, FillMoves
    <2> DEFINE b == Backing(t)
               u == Util(program[s], b)
               m == program[s].maxUtilBps
               d == program[s].declared
               v == Sampled(s, t)
    <2>3. b > 0 /\ u < m /\ v <= d
      <3>1. b > 0 /\ u < m /\ DeclaresEnough(s, t)
        BY <1>1, <2>1, <2>2, ExecutedOrder
      <3>2. v \in Nat /\ d \in Nat
        BY <1>1, <2>1, SampleStays, ProgramFields DEF BookTyped
      <3> QED BY <3>1, <3>2 DEF DeclaresEnough
    <2>4. v \in Nat /\ d \in Nat /\ m \in Nat /\ b \in Nat
      BY <1>1, <2>1, SampleStays, ProgramFields, BackingType DEF BookTyped
    <2> HIDE DEF b, u, m, d, v
    <2>5. d * Bps \in Nat /\ v * Bps <= d * Bps /\ v * Bps \in Nat
      <3>1. Bps \in Nat
        BY DEF Bps
      <3> QED BY <2>3, <2>4, <3>1, TimesKeepsOrder
    <2>6. u \in Nat /\ d * Bps < u * b + b
      <3>1. u = (d * Bps) \div b
        BY DEF u, d, b, Util
      <3> QED BY <2>3, <2>4, <2>5, <3>1, Quotient
    <2>7. (u + 1) * b <= m * b
      BY <2>3, <2>4, <2>6, TimesKeepsOrder
    <2>8. (u + 1) * b = u * b + b /\ u * b \in Nat /\ m * b \in Nat
      BY <2>4, <2>6, TimesKeepsOrder
    <2>9. v * Bps < m * b
      BY <2>4, <2>5, <2>6, <2>7, <2>8
    <2> QED BY <2>9 DEF b, m, v
  <1>2. BookTyped /\ [Next]_vars =>
          [\A s \in Strategies, t \in Tokens :
             program[s].capped /\ PaysOut(s, t)
                => Sampled(s, t) * Bps < program[s].maxUtilBps * Backing(t)]_vars
    BY <1>1
  <1> QED BY <1>2, BooksTyped, PTL DEF Spec, NoFillAtMaxUtil

(***************************************************************************)
(* The curve is monotone in every reachable book (MoreBackingNeverWorse).  *)
(***************************************************************************)
THEOREM Monotone == Spec => []MoreBackingNeverWorse
  <1>1. BookTyped => MoreBackingNeverWorse
    <2> SUFFICES ASSUME BookTyped, NEW s \in Strategies, NEW o \in Order,
                        NEW t \in Tokens, NEW more \in Amounts,
                        Backing(t) <= more, Admits(program[s], o, Backing(t))
                 PROVE  /\ Widened(program[s], o, more).amountOut
                              >= Widened(program[s], o, Backing(t)).amountOut
                        /\ Widened(program[s], o, more).amountIn
                              <= Widened(program[s], o, Backing(t)).amountIn
                        /\ \/ Admits(program[s], o, more)
                           \/ Widened(program[s], o, more).amountOut > Free(program[s], more)
      BY DEF MoreBackingNeverWorse
    <2>1. program[s] \in Program /\ more \in Nat
      BY BookAssumption DEF BookTyped
    <2>2. Backing(t) \in Nat
      BY BackingType
    <2> QED BY <2>1, <2>2, CurveIsMonotone
  <1> QED BY <1>1, BooksTyped, PTL

\* No book is overdrawn by an adjusted amount, and draining a wallet never
\* betters the terms it gives (Encumbrance.sol:193-249).
THEOREM TypedAndMonotone == Spec => []EncumbranceInv
  <1>1. TypeOK /\ MoreBackingNeverWorse => EncumbranceInv
    BY DEF EncumbranceInv
  <1> QED BY <1>1, TypeCorrect, Monotone, PTL

-----------------------------------------------------------------------------
(***************************************************************************)
(* Publishing.  What a set of strategies is promised is a sum, a fold of   *)
(* the community modules, by induction on the parts of the set.            *)
(***************************************************************************)
Owed(s) == virtual[s][TokenOut]

AnyOf(s) == CHOOSE x \in s : TRUE
\* What the sum over every part of a set is, by induction on the parts.
IsFold(S, f) ==
    f = [s \in SUBSET S |-> IF s = {} THEN 0 ELSE LET x == CHOOSE x \in s : TRUE IN Owed(x) + f[s \ {x}]]

LEMMA Folded == ASSUME NEW S PROVE Promised(S) = (CHOOSE f : IsFold(S, f))[S]
BY DEF Promised, Owed, MapThenSumSet, MapThenFoldSet, IsFold

LEMMA FoldStep ==
    ASSUME NEW S, NEW f, IsFold(S, f), NEW s \in SUBSET S
    PROVE  f[s] = IF s = {} THEN 0 ELSE Owed(AnyOf(s)) + f[s \ {AnyOf(s)}]
<1> DEFINE g == [t \in SUBSET S |-> IF t = {} THEN 0 ELSE LET x == CHOOSE x \in t : TRUE IN Owed(x) + f[t \ {x}]]
<1>1. f = g
  BY DEF IsFold
<1>2. g[s] = IF s = {} THEN 0 ELSE LET x == CHOOSE x \in s : TRUE IN Owed(x) + f[s \ {x}]
  OBVIOUS
<1> HIDE DEF g
<1> QED
  BY <1>1, <1>2 DEF AnyOf

LEMMA AnyOfIs == ASSUME NEW s, s # {} PROVE AnyOf(s) \in s
BY DEF AnyOf

\* What holds of a finite set if it holds of every set whose smaller parts have it.
LEMMA Subsets ==
    ASSUME NEW S, IsFiniteSet(S), NEW Good,
           ASSUME NEW T \in SUBSET S, \A U \in SUBSET T : U # T => U \in Good PROVE T \in Good
    PROVE  S \in Good
<1> DEFINE Bad == {T \in SUBSET S : T \notin Good}
<1>1. SUFFICES ASSUME Bad # {} PROVE FALSE
  OBVIOUS
<1>2. IsWellFoundedOn(StrictSubsetOrdering(S), FiniteSubsetsOf(S))
  BY FS_StrictSubsetOrderingWellFounded
<1>3. Bad \subseteq FiniteSubsetsOf(S)
  BY FS_FiniteSubsetsOfFinite
<1> HIDE DEF Bad
<1>4. PICK T \in Bad : \A U \in Bad : ~ (<<U, T>> \in StrictSubsetOrdering(S))
  BY <1>1, <1>2, <1>3, WFMin
<1>5. T \in SUBSET S /\ T \notin Good
  BY DEF Bad
<1>6. ASSUME NEW U \in SUBSET T, U # T PROVE U \in Good
  <2>1. U \in SUBSET S /\ <<U, T>> \in StrictSubsetOrdering(S)
    BY <1>5, <1>6 DEF StrictSubsetOrdering
  <2> QED
    BY <1>4, <2>1 DEF Bad
<1> QED
  BY <1>5, <1>6

\* Two such sums agree on what both are about.
LEMMA FoldUnique ==
    ASSUME NEW S, NEW T, NEW f, NEW g, IsFold(S, f), IsFold(T, g), NEW U, U \in SUBSET S, U \in SUBSET T,
           IsFiniteSet(U)
    PROVE  f[U] = g[U]
<1> DEFINE Good == {V \in SUBSET U : f[V] = g[V]}
<1>1. ASSUME NEW V \in SUBSET U, \A W \in SUBSET V : W # V => W \in Good PROVE V \in Good
  <2>1. CASE V = {}
    BY <2>1, FoldStep
  <2>2. CASE V # {}
    <3> DEFINE W == V \ {AnyOf(V)}
    <3>1. W \in SUBSET V /\ W # V
      BY <2>2, AnyOfIs
    <3>2. f[W] = g[W]
      BY <1>1, <3>1
    <3>3. V \in SUBSET S /\ V \in SUBSET T
      OBVIOUS
    <3>4. f[V] = Owed(AnyOf(V)) + f[W] /\ g[V] = Owed(AnyOf(V)) + g[W]
      BY <2>2, <3>3, FoldStep
    <3> QED
      BY <3>2, <3>4
  <2> QED
    BY <2>1, <2>2
<1> HIDE DEF Good
<1>2. U \in Good
  BY <1>1, Subsets
<1> QED
  BY <1>2 DEF Good

LEMMA FoldExists == ASSUME NEW S, IsFiniteSet(S) PROVE \E f : IsFold(S, f)
<1> DEFINE Good == {T \in SUBSET S : \E f : IsFold(T, f)}
<1>1. ASSUME NEW T \in SUBSET S, \A U \in SUBSET T : U # T => U \in Good PROVE T \in Good
  <2> DEFINE h(U) == CHOOSE f : IsFold(U, f)
             f == [s \in SUBSET T |-> IF s = {} THEN 0
                       ELSE LET x == CHOOSE x \in s : TRUE IN Owed(x) + h(s \ {x})[s \ {x}]]
             g == [s \in SUBSET T |-> IF s = {} THEN 0
                       ELSE LET x == CHOOSE x \in s : TRUE IN Owed(x) + f[s \ {x}]]
  <2>1. ASSUME NEW U \in SUBSET T, U # T PROVE IsFold(U, h(U)) /\ IsFiniteSet(U)
    <3>1. \E k : IsFold(U, k)
      BY <1>1, <2>1
    <3>2. IsFiniteSet(U)
      BY FS_Subset
    <3> QED
      BY <3>1, <3>2
  <2>2. ASSUME NEW s \in SUBSET T
        PROVE f[s] = IF s = {} THEN 0 ELSE Owed(AnyOf(s)) + h(s \ {AnyOf(s)})[s \ {AnyOf(s)}]
    BY DEF AnyOf
  <2>7. ASSUME NEW s \in SUBSET T
        PROVE g[s] = IF s = {} THEN 0 ELSE Owed(AnyOf(s)) + f[s \ {AnyOf(s)}]
    BY DEF AnyOf
  <2>8. f = [s \in SUBSET T |-> f[s]] /\ g = [s \in SUBSET T |-> g[s]]
    OBVIOUS
  <2>9. IsFold(T, f) <=> f = g
    BY DEF IsFold
  <2> HIDE DEF h, f, g
  <2>3. ASSUME NEW U \in SUBSET T, U # T PROVE f[U] = h(U)[U]
    <3>1. IsFold(U, h(U))
      BY <2>1, <2>3
    <3>2. CASE U = {}
      <4>1. h(U)[U] = 0
        BY <3>1, <3>2, FoldStep
      <4> QED
        BY <2>2, <3>2, <4>1
    <3>3. CASE U # {}
      <4> DEFINE W == U \ {AnyOf(U)}
      <4>1. W \in SUBSET U /\ W \in SUBSET T /\ W # T
        BY <3>3, <2>3, AnyOfIs
      <4>2. h(U)[U] = Owed(AnyOf(U)) + h(U)[W]
        BY <3>1, <3>3, FoldStep
      <4>3. IsFold(W, h(W)) /\ IsFiniteSet(W)
        BY <2>1, <4>1
      <4>4. h(U)[W] = h(W)[W]
        BY <3>1, <4>1, <4>3, FoldUnique
      <4>5. f[U] = Owed(AnyOf(U)) + h(W)[W]
        BY <2>2, <3>3
      <4> QED
        BY <4>2, <4>4, <4>5
    <3> QED
      BY <3>2, <3>3
  <2>4. ASSUME NEW s \in SUBSET T PROVE f[s] = g[s]
    <3>1. CASE s = {}
      BY <2>2, <2>7, <3>1
    <3>2. CASE s # {}
      <4> DEFINE W == s \ {AnyOf(s)}
      <4>1. W \in SUBSET T /\ W # T
        BY <3>2, AnyOfIs
      <4>2. f[W] = h(W)[W]
        BY <2>3, <4>1
      <4> QED
        BY <2>2, <2>7, <3>2, <4>2
    <3> QED
      BY <3>1, <3>2
  <2>5. f = g
    BY <2>4, <2>8
  <2> QED
    BY <2>5, <2>9
<1> HIDE DEF Good
<1>2. S \in Good
  BY <1>1, Subsets
<1> QED
  BY <1>2 DEF Good

LEMMA FoldOf ==
    ASSUME NEW S, IsFiniteSet(S), NEW f, IsFold(S, f), NEW T \in SUBSET S
    PROVE  Promised(T) = f[T]
<1> DEFINE g == CHOOSE f_1 : IsFold(T, f_1)
<1>1. IsFiniteSet(T)
  BY FS_Subset
<1>2. IsFold(T, g)
  BY <1>1, FoldExists
<1>3. Promised(T) = g[T]
  BY Folded
<1> HIDE DEF g
<1> QED
  BY <1>1, <1>2, <1>3, FoldUnique

\* What a set promises is what one of it promises and what the others do.
LEMMA SumStep ==
    ASSUME NEW S, IsFiniteSet(S)
    PROVE  Promised(S) = IF S = {} THEN 0 ELSE Owed(AnyOf(S)) + Promised(S \ {AnyOf(S)})
<1>1. PICK f : IsFold(S, f)
  BY FoldExists
<1>2. Promised(S) = f[S] /\ Promised(S \ {AnyOf(S)}) = f[S \ {AnyOf(S)}]
  BY <1>1, FoldOf
<1> QED
  BY <1>1, <1>2, FoldStep

Weighed(S) == \A s \in S : Owed(s) \in Nat

LEMMA SumNat == ASSUME NEW S, IsFiniteSet(S), Weighed(S) PROVE Promised(S) \in Nat
<1> DEFINE Good == {T \in SUBSET S : Promised(T) \in Nat}
<1>1. ASSUME NEW T \in SUBSET S, \A U \in SUBSET T : U # T => U \in Good PROVE T \in Good
  <2>1. IsFiniteSet(T)
    BY FS_Subset
  <2>2. CASE T = {}
    <3>1. Promised(T) = 0
      BY <2>1, <2>2, SumStep
    <3> QED
      BY <3>1
  <2>3. CASE T # {}
    <3>1. AnyOf(T) \in T
      BY <2>3, AnyOfIs
    <3>2. Promised(T \ {AnyOf(T)}) \in Nat /\ Owed(AnyOf(T)) \in Nat
      BY <1>1, <3>1 DEF Weighed
    <3> QED
      BY <2>1, <2>3, <3>2, SumStep
  <2> QED
    BY <2>2, <2>3
<1> HIDE DEF Good
<1>2. S \in Good
  BY <1>1, Subsets
<1> QED
  BY <1>2 DEF Good

LEMMA SumLess ==
    ASSUME NEW S, IsFiniteSet(S), Weighed(S), NEW x \in S
    PROVE  Promised(S) = Owed(x) + Promised(S \ {x})
<1> DEFINE Good == {T \in SUBSET S : \A y \in T : Promised(T) = Owed(y) + Promised(T \ {y})}
<1>1. ASSUME NEW T \in SUBSET S, \A U \in SUBSET T : U # T => U \in Good PROVE T \in Good
  <2>1. SUFFICES ASSUME NEW y \in T PROVE Promised(T) = Owed(y) + Promised(T \ {y})
    OBVIOUS
  <2> DEFINE p == AnyOf(T)
             U == T \ {p}
             V == T \ {y}
             W == T \ {p, y}
  <2>2. p \in T /\ IsFiniteSet(T) /\ IsFiniteSet(U) /\ IsFiniteSet(V) /\ IsFiniteSet(W)
    BY AnyOfIs, FS_Subset
  <2>3. Promised(T) = Owed(p) + Promised(U)
    BY <2>2, SumStep
  <2>4. CASE y = p
    BY <2>3, <2>4
  <2>5. CASE y # p
    <3>1. U \in Good /\ V \in Good
      BY <1>1, <2>2
    <3>2. y \in U /\ p \in V /\ U \ {y} = W /\ V \ {p} = W
      BY <2>2, <2>5
    <3>3. Promised(U) = Owed(y) + Promised(W) /\ Promised(V) = Owed(p) + Promised(W)
      BY <3>1, <3>2
    <3>4. Owed(y) \in Nat /\ Owed(p) \in Nat
      BY <2>2 DEF Weighed
    <3>5. Promised(W) \in Nat
      <4>1. Weighed(W)
        BY DEF Weighed
      <4> QED
        BY <2>2, <4>1, SumNat
    <3> HIDE DEF p, U, V, W, Good
    <3>6. Promised(T) = Owed(y) + Promised(V)
      BY <2>3, <3>3, <3>4, <3>5
    <3> QED
      BY <3>6 DEF V
  <2> QED
    BY <2>4, <2>5
<1> HIDE DEF Good
<1>2. S \in Good
  BY <1>1, Subsets
<1> QED
  BY <1>2 DEF Good

\* Less is not promised by more, and those that promise nothing make no difference.
LEMMA SumGrows ==
    ASSUME NEW S, IsFiniteSet(S), Weighed(S), NEW T \in SUBSET S
    PROVE  /\ Promised(T) <= Promised(S)
           /\ (\A s \in S \ T : Owed(s) = 0) => Promised(T) = Promised(S)
<1> DEFINE R == S \ T
           Good == {U \in SUBSET R : /\ Promised(T) <= Promised(T \cup U)
                                     /\ (\A s \in R : Owed(s) = 0) => Promised(T) = Promised(T \cup U)}
<1>1. ASSUME NEW U \in SUBSET R, \A V \in SUBSET U : V # U => V \in Good PROVE U \in Good
  <2>1. IsFiniteSet(T \cup U) /\ Weighed(T \cup U) /\ IsFiniteSet(T) /\ Weighed(T)
    <3>1. T \cup U \in SUBSET S
      OBVIOUS
    <3> QED
      BY <3>1, FS_Subset DEF Weighed
  <2>2. Promised(T) \in Nat /\ Promised(T \cup U) \in Nat
    BY <2>1, SumNat
  <2>3. CASE U = {}
    <3>1. T \cup U = T
      BY <2>3
    <3> QED
      BY <2>2, <3>1
  <2>4. CASE U # {}
    <3> DEFINE x == AnyOf(U)
               V == U \ {x}
    <3>1. x \in U /\ x \in R /\ V \in Good
      BY <1>1, <2>4, AnyOfIs
    <3>2. (T \cup U) \ {x} = T \cup V /\ x \in T \cup U
      BY <3>1
    <3>3. Promised(T \cup U) = Owed(x) + Promised(T \cup V)
      BY <2>1, <3>2, SumLess
    <3>4. Owed(x) \in Nat /\ Promised(T \cup V) \in Nat
      <4>1. IsFiniteSet(T \cup V) /\ Weighed(T \cup V)
        <5>1. T \cup V \in SUBSET S
          OBVIOUS
        <5> QED
          BY <5>1, FS_Subset DEF Weighed
      <4> QED
        BY <3>1, <4>1, SumNat DEF Weighed
    <3>5. Promised(T) <= Promised(T \cup V)
      BY <3>1
    <3>6. (\A s \in R : Owed(s) = 0) => Promised(T) = Promised(T \cup V) /\ Owed(x) = 0
      BY <3>1
    <3> HIDE DEF x, V, R
    <3> QED
      BY <2>2, <3>3, <3>4, <3>5, <3>6
  <2> QED
    BY <2>3, <2>4
<1>2. IsFiniteSet(R)
  BY FS_Subset
<1>3. T \cup R = S
  OBVIOUS
<1>4. R \in Good
  <2> HIDE DEF Good, R
  <2> QED
    BY <1>1, <1>2, Subsets
<1> QED
  BY <1>3, <1>4

\* The sum with the balances named, so that it can be compared across a step.
SumOver(v, S) ==
    (CHOOSE f : f = [s \in SUBSET S |-> IF s = {} THEN 0
                       ELSE LET x == CHOOSE x \in s : TRUE IN v[x][TokenOut] + f[s \ {x}]])[S]

LEMMA LiveSum == Promised(Live) = SumOver(virtual, Live)
  BY DEF Promised, MapThenSumSet, MapThenFoldSet, SumOver

LEMMA LiveSumNext == Promised(Live)' = SumOver(virtual', Live')
  BY DEF Promised, MapThenSumSet, MapThenFoldSet, SumOver

-----------------------------------------------------------------------------
(***************************************************************************)
(* The inductive invariant of publishing.                                  *)
(***************************************************************************)
Known == {s \in Strategies : tokensCount[s] # NeverShipped}

Publication ==
    [pc: PubState, s: Strategies, terms: Terms, siblings: SUBSET Strategies, declared: Nat, quiet: BOOLEAN]

Underway == {"list", "count", "cross", "built"}
UnderWay(p) == pubs[p].pc \in Underway

PTyped == BookTyped /\ subgraph \in BOOLEAN /\ pubs \in [Pubs -> Publication]

\* Finitely many hashes ship; the index and the requests list no other, and a
\* hash that a request was given is nobody else's and not shipped yet.
HashesOK ==
    /\ IsFiniteSet(Known) /\ indexed \subseteq Known
    /\ \A p \in Pubs : pubs[p].siblings \subseteq Known
    /\ \A p \in Pubs : UnderWay(p) => tokensCount[pubs[p].s] = NeverShipped
    /\ \A p \in Pubs : ~ UnderWay(p) => pubs[p].siblings = {}
    /\ \A p, q \in Pubs : p # q /\ UnderWay(p) /\ UnderWay(q) => pubs[p].s # pubs[q].s

\* A request that nothing overtook has listed the live book and counted it.
QuietOK ==
    \A p \in Pubs : pubs[p].quiet =>
        /\ pubs[p].pc \in {"count", "cross", "built"} => pubs[p].siblings = Live /\ indexed = Live
        /\ pubs[p].pc = "cross" => pubs[p].declared = Promised(Live)
        /\ pubs[p].pc = "built" => pubs[p].declared >= Promised(Live)

PInv == PTyped /\ HashesOK /\ QuietOK

\* Live strategies have shipped, and what any of them are promised is a number.
LEMMA LiveKnown ==
    ASSUME PTyped, HashesOK
    PROVE  /\ Live \subseteq Known /\ Known \subseteq Strategies /\ IsFiniteSet(Live)
           /\ \A S \in SUBSET Known : IsFiniteSet(S) /\ Weighed(S) /\ Promised(S) \in Nat
  <1>1. Live \subseteq Known /\ Known \subseteq Strategies
    BY DEF Live, Known, IsLive, Shipped, NeverShipped
  <1>2. IsFiniteSet(Live)
    BY <1>1, FS_Subset DEF HashesOK
  <1>3. ASSUME NEW S \in SUBSET Known PROVE IsFiniteSet(S) /\ Weighed(S) /\ Promised(S) \in Nat
    <2>1. IsFiniteSet(S)
      BY FS_Subset DEF HashesOK
    <2>2. \A s \in Strategies : virtual[s][TokenOut] \in 0 .. MaxHeld
      BY PublishAssumption DEF PTyped, BookTyped
    <2>3. \A n \in 0 .. MaxHeld : n \in Nat
      BY BookAssumption
    <2>4. S \subseteq Strategies
      BY <1>1
    <2>5. Weighed(S)
      BY <2>2, <2>3, <2>4 DEF Weighed, Owed
    <2> QED BY <2>1, <2>5, SumNat
  <1> QED BY <1>1, <1>2, <1>3

\* The list of a set: each of it once.
LEMMA ListOf ==
    ASSUME NEW S, IsFiniteSet(S)
    PROVE  /\ SetToSeq(S) \in Seq(S) /\ Len(SetToSeq(S)) = Cardinality(S) /\ Cardinality(S) \in Nat
           /\ IsInjective(SetToSeq(S))
  <1> DEFINE n == Cardinality(S)
             Lists == [1 .. n -> S]
             f == CHOOSE f \in Lists : IsInjective(f)
  <1>1. n \in Nat /\ ExistsBijection(1 .. n, S)
    BY FS_CardinalityType
  <1>2. \E g \in Lists : IsInjective(g)
    BY <1>1 DEF ExistsBijection, Bijection, Injection, IsInjective
  <1>3. f \in Lists /\ IsInjective(f)
    BY <1>2
  <1>4. SetToSeq(S) = f
    BY DEF SetToSeq
  <1> HIDE DEF f
  <1>5. f \in Seq(S) /\ Len(f) = n
    BY <1>1, <1>3
  <1> QED BY <1>1, <1>3, <1>4, <1>5

\* What an instruction samples: some of the siblings under this router, each
\* once, and no more than there is room for.
LEMMA SampledOf ==
    ASSUME NEW S \in SUBSET Strategies, IsFiniteSet(S)
    PROVE  /\ SampledFrom(S) \in Seq(S) /\ SampledFrom(S) \in Seq(Strategies)
           /\ Len(SampledFrom(S)) <= MaxListed
           /\ IsInjective(SampledFrom(S))
           /\ \A i \in DOMAIN SampledFrom(S) : program[SampledFrom(S)[i]].app = Here
  <1> DEFINE M == {s \in S : program[s].app = Here}
             mine == SetToSeq(M)
             k == IF Len(mine) < MaxListed THEN Len(mine) ELSE MaxListed
  <1>1. IsFiniteSet(M)
    BY FS_Subset
  <1>2. mine \in Seq(M) /\ IsInjective(mine)
    BY <1>1, ListOf
  <1>3. SampledFrom(S) = SubSeq(mine, 1, k)
    BY DEF SampledFrom
  <1> HIDE DEF mine
  <1>4. Len(mine) \in Nat /\ MaxListed \in Nat
    BY <1>2, PublishAssumption DEF MaxInstructionSiblings
  <1>5. k \in 0 .. Len(mine) /\ k <= MaxListed
    BY <1>4
  <1> HIDE DEF k
  <1>6. SubSeq(mine, 1, k) = [i \in 1 .. k |-> mine[i]]
    BY <1>2, <1>4, <1>5
  <1>7. \A i \in 1 .. k : mine[i] \in M /\ i \in DOMAIN mine
    BY <1>2, <1>4, <1>5
  <1> DEFINE f == [i \in 1 .. k |-> mine[i]]
  <1>8. f \in Seq(M) /\ Len(f) = k /\ DOMAIN f = 1 .. k
    BY <1>4, <1>5, <1>7
  <1>9. IsInjective(f)
    BY <1>2, <1>7 DEF IsInjective
  <1>10. f \in Seq(S) /\ f \in Seq(Strategies)
    BY <1>8
  <1>11. \A i \in DOMAIN f : program[f[i]].app = Here
    BY <1>7, <1>8
  <1> QED BY <1>3, <1>5, <1>6, <1>8, <1>9, <1>10, <1>11

\* The program a publication is signed with is one.
LEMMA InstructionIs ==
    ASSUME PTyped, HashesOK, NEW p \in Pubs
    PROVE  Instruction(p) \in Program
  <1>1. pubs[p] \in Publication /\ pubs[p].siblings \in SUBSET Strategies
    BY DEF PTyped, Publication
  <1>2. IsFiniteSet(pubs[p].siblings)
    BY LiveKnown DEF HashesOK
  <1>3. SampledFrom(pubs[p].siblings) \in Seq(Strategies)
    BY <1>1, <1>2, SampledOf
  <1>4. pubs[p].terms \in [maxUtilBps: 0 .. Bps, widenBps: Uint16] /\ pubs[p].declared \in Nat
    BY <1>1, PublishAssumption DEF Publication
  <1>5. pubs[p].terms.maxUtilBps \in 0 .. Bps /\ pubs[p].terms.widenBps \in Uint16
    BY <1>4
  <1>6. \A n \in 0 .. Bps : n \in Uint16
    BY DEF Uint16, Bps
  <1>7. pubs[p].terms.maxUtilBps \in Uint16
    BY <1>5, <1>6
  <1> QED BY <1>3, <1>4, <1>5, <1>7 DEF Instruction, Program, Here

LEMMA UncappedIs == ASSUME NEW app \in {Here, "AnotherApp"} PROVE Uncapped(app) \in Program
  <1>1. <<>> \in Seq(Strategies) /\ 0 \in Uint16
    BY DEF Uint16
  <1> QED BY <1>1 DEF Uncapped, Program, Here

LEMMA NoPubIs == NoPub \in Publication /\ NoPub.pc = "none" /\ ~ NoPub.quiet /\ NoPub.siblings = {}
  BY PublishAssumption DEF NoPub, Publication, PubState

LEMMA PInitInv == PInit => PInv
  <1> SUFFICES ASSUME PInit PROVE PInv
    OBVIOUS
  <1>1. PICK old \in {CHOOSE s \in Strategies : TRUE}, app \in {Here, "AnotherApp"}, promised \in Promises :
          /\ program = [s \in Strategies |-> Uncapped(IF s = old THEN app ELSE Here)]
          /\ wallet = [t \in Tokens |-> Opening] /\ allowance = [t \in Tokens |-> MaxHeld]
          /\ virtual = [s \in Strategies |-> IF s = old THEN promised ELSE [t \in Tokens |-> 0]]
          /\ tokensCount = [s \in Strategies |-> IF s = old THEN Shipped ELSE NeverShipped]
          /\ subgraph \in BOOLEAN /\ indexed = {old}
          /\ pubs = [p \in Pubs |-> NoPub] /\ moves = 0
    BY Zenon DEF PInit
  <1>2. old \in Strategies
    BY PublishAssumption
  <1>3. BookTyped
    <2>1. \A s \in Strategies : Uncapped(IF s = old THEN app ELSE Here) \in Program
      BY UncappedIs
    <2>2. 0 \in 0 .. MaxHeld /\ MaxHeld \in 0 .. MaxHeld /\ Opening \in 0 .. MaxHeld
      BY BookAssumption, PublishAssumption
    <2>3. promised \in [Tokens -> 0 .. MaxHeld]
      BY PublishAssumption
    <2> QED BY <1>1, <2>1, <2>2, <2>3 DEF BookTyped
  <1>4. PTyped
    BY <1>1, <1>3, NoPubIs DEF PTyped
  <1>5. Known = {old}
    <2>1. \A s \in Strategies : tokensCount[s] = IF s = old THEN Shipped ELSE NeverShipped
      BY <1>1
    <2> QED BY <1>2, <2>1 DEF Known, Shipped, NeverShipped
  <1>6. HashesOK
    BY <1>1, <1>5, NoPubIs, FS_Singleton DEF HashesOK, UnderWay, Underway
  <1>7. QuietOK
    BY <1>1, NoPubIs DEF QuietOK
  <1> QED BY <1>4, <1>6, <1>7 DEF PInv

\* Steps of makers and takers: the hashes that have shipped may only grow, and
\* whatever is under way was counted before.
LEMMA DisturbKeeps ==
    ASSUME PInv, BookTyped', UNCHANGED subgraph, Disturb(Pubs), indexed' \subseteq Known', IsFiniteSet(Known'),
           Known \subseteq Known',
           \A p \in Pubs : UnderWay(p) => tokensCount'[pubs[p].s] = NeverShipped
    PROVE  PInv'
  <1>1. pubs' = [q \in Pubs |-> [pubs[q] EXCEPT !.quiet = FALSE]]
    BY DEF Disturb
  <1>2. \A q \in Pubs : pubs[q] \in Publication
    BY DEF PInv, PTyped
  <1>3. ASSUME NEW q \in Pubs
        PROVE  /\ pubs'[q] \in Publication /\ pubs'[q].pc = pubs[q].pc /\ pubs'[q].s = pubs[q].s
               /\ pubs'[q].siblings = pubs[q].siblings /\ pubs'[q].quiet = FALSE
    <2>1. pubs[q] \in Publication
      BY <1>2
    <2>2. pubs'[q] = [pubs[q] EXCEPT !.quiet = FALSE]
      BY <1>1
    <2> QED BY <2>1, <2>2 DEF Publication
  <1>4. PTyped'
    BY <1>1, <1>3 DEF PInv, PTyped
  <1>5. \A p \in Pubs : UnderWay(p)' <=> UnderWay(p)
    BY <1>3 DEF UnderWay
  <1>6. HashesOK'
    <2>1. \A p \in Pubs : pubs'[p].siblings \subseteq Known'
      BY <1>3 DEF PInv, HashesOK
    <2>2. \A p \in Pubs : UnderWay(p)' => tokensCount'[pubs'[p].s] = NeverShipped
      BY <1>3, <1>5
    <2>3. \A p \in Pubs : ~ UnderWay(p)' => pubs'[p].siblings = {}
      BY <1>3, <1>5 DEF PInv, HashesOK
    <2>4. ASSUME NEW p \in Pubs, NEW q \in Pubs, p # q, UnderWay(p)', UnderWay(q)' PROVE pubs'[p].s # pubs'[q].s
      <3>1. UnderWay(p) /\ UnderWay(q)
        BY <1>5, <2>4
      <3>2. pubs[p].s # pubs[q].s
        BY <2>4, <3>1 DEF PInv, HashesOK
      <3> QED BY <1>3, <3>2
    <2> QED BY <2>1, <2>2, <2>3, <2>4 DEF HashesOK
  <1>7. QuietOK'
    BY <1>3 DEF QuietOK
  <1> QED BY <1>4, <1>6, <1>7 DEF PInv

LEMMA FreshIs ==
    ASSUME Fresh # {}
    PROVE  /\ NewHash \in Strategies /\ tokensCount[NewHash] = NeverShipped
           /\ \A p \in Pubs : pubs[p].s # NewHash \/ ~ UnderWay(p)
  <1>1. NewHash \in Fresh
    BY DEF NewHash
  <1> QED BY <1>1 DEF Fresh, UnderWay, Underway, At

\* A ship, of whatever program.
LEMMA ShipAsKeeps ==
    ASSUME PInv, NEW s \in Strategies, NEW prog \in Program, NEW promised \in Promises, ShipAs(s, prog, promised)
    PROVE  /\ BookTyped' /\ Known' = Known \cup {s} /\ IsFiniteSet(Known')
           /\ tokensCount' = [tokensCount EXCEPT ![s] = Shipped]
  <1>1. promised \in [Tokens -> 0 .. MaxHeld]
    BY PublishAssumption
  <1>2. BookTyped
    BY DEF PInv, PTyped
  <1>3. BookTyped'
    BY <1>1, <1>2 DEF ShipAs, BookTyped
  <1>4. tokensCount' = [tokensCount EXCEPT ![s] = Shipped] /\ tokensCount[s] = NeverShipped
    BY DEF ShipAs
  <1>5. Known' = Known \cup {s}
    BY <1>2, <1>4 DEF Known, BookTyped, Shipped, NeverShipped
  <1>6. IsFiniteSet(Known')
    BY <1>5, FS_AddElement DEF PInv, HashesOK
  <1> QED BY <1>3, <1>4, <1>5, <1>6

LEMMA ShipPlainKeeps == ASSUME PInv, ShipPlain PROVE PInv'
  <1>1. PICK app \in {Here, "AnotherApp"}, promised \in Promises :
          /\ Fresh # {} /\ ShipAs(NewHash, Uncapped(app), promised)
          /\ UNCHANGED <<subgraph, indexed>> /\ Disturb(Pubs)
    BY DEF ShipPlain, Aside, Here
  <1>2. NewHash \in Strategies /\ \A p \in Pubs : pubs[p].s # NewHash \/ ~ UnderWay(p)
    BY <1>1, FreshIs
  <1>3. /\ BookTyped' /\ Known' = Known \cup {NewHash} /\ IsFiniteSet(Known')
        /\ tokensCount' = [tokensCount EXCEPT ![NewHash] = Shipped]
    BY <1>1, <1>2, UncappedIs, ShipAsKeeps
  <1>4. \A p \in Pubs : UnderWay(p) => tokensCount'[pubs[p].s] = NeverShipped
    BY <1>2, <1>3 DEF PInv, HashesOK, PTyped, BookTyped, Publication
  <1>5. UNCHANGED <<subgraph, indexed>> /\ indexed \subseteq Known
    BY <1>1 DEF PInv, HashesOK
  <1> QED BY <1>1, <1>3, <1>4, <1>5, DisturbKeeps

\* Docks, fills, and what the maker does outside Aqua.
LEMMA OnBookKeeps ==
    ASSUME PInv, Disturb(Pubs), UNCHANGED <<subgraph, indexed>>, BookTyped',
           \A s \in Strategies : tokensCount'[s] = NeverShipped <=> tokensCount[s] = NeverShipped
    PROVE  PInv'
  <1>1. Known' = Known
    BY DEF Known
  <1>2. \A p \in Pubs : UnderWay(p) => tokensCount'[pubs[p].s] = NeverShipped
    BY DEF PInv, HashesOK, PTyped, Publication
  <1>3. indexed' \subseteq Known' /\ IsFiniteSet(Known') /\ UNCHANGED subgraph
    BY <1>1 DEF PInv, HashesOK
  <1> QED BY <1>1, <1>2, <1>3, DisturbKeeps

LEMMA DockStep == ASSUME PInv, NEW s \in Strategies, OnBook(Dock(s)) PROVE PInv'
  <1>1. Dock(s) /\ Disturb(Pubs) /\ UNCHANGED <<subgraph, indexed>>
    BY DEF OnBook, Aside
  <1>2. BookTyped
    BY DEF PInv, PTyped
  <1>3. BookTyped'
    BY <1>1, <1>2, DockKeeps
  <1>4. \A v \in Strategies : tokensCount'[v] = NeverShipped <=> tokensCount[v] = NeverShipped
    BY <1>1, <1>2 DEF Dock, IsLive, BookTyped, NeverShipped, Shipped, Docked
  <1> QED BY <1>1, <1>3, <1>4, OnBookKeeps

LEMMA FillStep == ASSUME PInv, NEW s \in Strategies, NEW o \in Order, OnBook(Fill(s, o)) PROVE PInv'
  <1>1. Fill(s, o) /\ Disturb(Pubs) /\ UNCHANGED <<subgraph, indexed>>
    BY DEF OnBook, Aside
  <1>2. BookTyped
    BY DEF PInv, PTyped
  <1>3. BookTyped' /\ tokensCount' = tokensCount
    BY <1>1, <1>2, FillKeeps DEF Fill
  <1> QED BY <1>1, <1>3, OnBookKeeps

LEMMA MoveStep ==
    ASSUME PInv, NEW t \in Tokens, OnBook(MakerMoves(t)) \/ OnBook(MakerApproves(t)) PROVE PInv'
  <1>1. (MakerMoves(t) \/ MakerApproves(t)) /\ Disturb(Pubs) /\ UNCHANGED <<subgraph, indexed>>
    BY DEF OnBook, Aside
  <1>2. BookTyped
    BY DEF PInv, PTyped
  <1>3. BookTyped' /\ tokensCount' = tokensCount
    BY <1>1, <1>2, MovesKeep DEF MakerMoves, MakerApproves
  <1> QED BY <1>1, <1>3, OnBookKeeps

LEMMA IndexStep == ASSUME PInv, IndexSees PROVE PInv'
  <1>1. indexed' = Live /\ Disturb(Pubs) /\ UNCHANGED <<book, subgraph, moves>>
    BY DEF IndexSees
  <1>2. UNCHANGED <<program, wallet, allowance, virtual, tokensCount>>
    BY <1>1 DEF book
  <1>3. BookTyped'
    BY <1>2 DEF PInv, PTyped, BookTyped
  <1>4. Known' = Known /\ Live \subseteq Known
    BY <1>2, LiveKnown DEF Known, PInv
  <1>5. \A p \in Pubs : UnderWay(p) => tokensCount'[pubs[p].s] = NeverShipped
    BY <1>2 DEF PInv, HashesOK
  <1> QED BY <1>1, <1>3, <1>4, <1>5, DisturbKeeps DEF PInv, HashesOK

\* A step of one request: the others and the book stay as they are.
LEMMA OwnKeeps ==
    ASSUME PInv, NEW p \in Pubs, NEW x \in Publication, pubs' = [pubs EXCEPT ![p] = x],
           UNCHANGED <<book, subgraph, indexed>>, x.siblings \subseteq Known,
           x.pc \in Underway, tokensCount[x.s] = NeverShipped,
           \A q \in Pubs : q # p /\ UnderWay(q) => pubs[q].s # x.s,
           x.quiet => /\ x.pc \in {"count", "cross", "built"} => x.siblings = Live /\ indexed = Live
                      /\ x.pc = "cross" => x.declared = Promised(Live)
                      /\ x.pc = "built" => x.declared >= Promised(Live)
    PROVE  PInv'
  <1>1. UNCHANGED <<program, wallet, allowance, virtual, tokensCount>>
    BY DEF book
  <1>2. /\ pubs \in [Pubs -> Publication] /\ pubs'[p] = x
        /\ \A q \in Pubs : q # p => pubs'[q] = pubs[q]
    BY DEF PInv, PTyped
  <1>3. PTyped'
    BY <1>1, <1>2 DEF PInv, PTyped, BookTyped
  <1>4. Known' = Known /\ Live' = Live
    BY <1>1 DEF Known, Live, IsLive
  <1>5. Promised(Live)' = Promised(Live)
    BY <1>1, <1>4, LiveSum, LiveSumNext
  <1>6. /\ UnderWay(p)' /\ \A q \in Pubs : q # p => (UnderWay(q)' <=> UnderWay(q))
    BY <1>2 DEF UnderWay, Underway
  <1>7. HashesOK'
    <2>1. \A q \in Pubs : pubs'[q].siblings \subseteq Known'
      BY <1>2, <1>4 DEF PInv, HashesOK
    <2>2. \A q \in Pubs : UnderWay(q)' => tokensCount'[pubs'[q].s] = NeverShipped
      BY <1>1, <1>2, <1>6 DEF PInv, HashesOK
    <2>3. \A q \in Pubs : ~ UnderWay(q)' => pubs'[q].siblings = {}
      BY <1>2, <1>6 DEF PInv, HashesOK
    <2>4. ASSUME NEW u \in Pubs, NEW v \in Pubs, u # v, UnderWay(u)', UnderWay(v)' PROVE pubs'[u].s # pubs'[v].s
      <3>1. CASE u = p
        BY <1>2, <1>6, <2>4, <3>1
      <3>2. CASE v = p
        BY <1>2, <1>6, <2>4, <3>2
      <3>3. CASE u # p /\ v # p
        <4>1. UnderWay(u) /\ UnderWay(v)
          BY <1>6, <2>4, <3>3
        <4>2. pubs[u].s # pubs[v].s
          BY <2>4, <4>1 DEF PInv, HashesOK
        <4> QED BY <1>2, <3>3, <4>2
      <3> QED BY <3>1, <3>2, <3>3
    <2> QED BY <1>4, <2>1, <2>2, <2>3, <2>4 DEF PInv, HashesOK
  <1>8. QuietOK'
    <2> SUFFICES ASSUME NEW q \in Pubs, pubs'[q].quiet
                 PROVE  /\ pubs'[q].pc \in {"count", "cross", "built"} => pubs'[q].siblings = Live' /\ indexed' = Live'
                        /\ pubs'[q].pc = "cross" => pubs'[q].declared = Promised(Live)'
                        /\ pubs'[q].pc = "built" => pubs'[q].declared >= Promised(Live)'
      BY DEF QuietOK
    <2>1. CASE q = p
      BY <1>2, <1>4, <1>5, <2>1
    <2>2. CASE q # p
      BY <1>2, <1>4, <1>5, <2>2 DEF PInv, QuietOK
    <2> QED BY <2>1, <2>2
  <1> QED BY <1>3, <1>7, <1>8 DEF PInv

\* What is listed has shipped; an index in step with the chain lists the live book.
LEMMA ListedIs ==
    ASSUME PInv
    PROVE  /\ Listed \subseteq Known /\ (indexed = Live => Listed = Live)
           /\ {s \in Listed : IsLive(s)} \in SUBSET Known
  <1>1. Listed \subseteq Known
    BY DEF PInv, HashesOK, Listed, SubgraphRows, IndexedRows, ShippedHere, Known
  <1>2. Live \subseteq Known
    BY LiveKnown DEF PInv
  <1>3. ASSUME indexed = Live PROVE Listed = Live
    <2>1. CASE subgraph
      BY <1>3, <2>1 DEF Listed, SubgraphRows
    <2>2. CASE ~ subgraph
      <3>1. Listed = {s \in IndexedRows \cup ShippedHere : IsLive(s)}
        BY <2>2 DEF Listed
      <3>2. \A s \in Live : s \in IndexedRows \cup ShippedHere /\ IsLive(s)
        BY <1>2, <1>3 DEF IndexedRows, ShippedHere, Live, Known
      <3>3. \A s \in IndexedRows \cup ShippedHere : IsLive(s) => s \in Live
        BY <1>3 DEF IndexedRows, ShippedHere, Live
      <3> QED BY <3>1, <3>2, <3>3
    <2> QED BY <2>1, <2>2
  <1> QED BY <1>1, <1>3

\* The numbers of a reading of both chains.
LEMMA ReadingIs ==
    ASSUME PInv, NEW r \in Readings
    PROVE  /\ r.here.promised \in Nat /\ r.here.backing \in Nat
           /\ r.there.promised \in Nat /\ r.there.backing \in Nat
  <1>1. PICK answers \in BOOLEAN, there \in OtherChain : r = [here |-> HereRead(answers), there |-> there]
    BY DEF Readings
  <1>2. there.promised \in Nat /\ there.backing \in Nat
    <2>1. there.promised \in Amounts /\ there.backing \in Amounts
      BY DEF OtherChain
    <2>2. Amounts \subseteq Nat
      BY BookAssumption
    <2> QED BY <2>1, <2>2
  <1>3. Backing(TokenOut) \in Nat
    BY BackingType, PublishAssumption DEF PInv, PTyped
  <1>4. Promised({s \in Listed : IsLive(s)}) \in Nat
    BY ListedIs, LiveKnown DEF PInv
  <1>5. TokenRow.promised \in Nat /\ TokenRow.backing \in Nat
    BY <1>3, <1>4 DEF TokenRow
  <1>6. HereRead(answers).promised \in Nat /\ HereRead(answers).backing \in Nat
    BY <1>5 DEF HereRead, Nothing
  <1> QED BY <1>1, <1>2, <1>6

\* The declared share of a combined book: not below the ratio, however it rounds.
LEMMA ScaledIs ==
    ASSUME NEW r, r.here.promised \in Nat, r.here.backing \in Nat, r.there.promised \in Nat, r.there.backing \in Nat
    PROVE  LET promised == r.here.promised + r.there.promised
               backing  == r.here.backing + r.there.backing
           IN /\ Scaled(r) \in Nat
              /\ Scaled(r) * backing >= promised * r.here.backing
              /\ backing = 0 /\ promised > 0 => Scaled(r) > r.here.backing
  <1> DEFINE promised == r.here.promised + r.there.promised
             here == r.here.backing
             backing  == r.here.backing + r.there.backing
             top == promised * here + backing - 1
             q == top \div backing
  <1>1. promised \in Nat /\ backing \in Nat /\ here \in Nat /\ here <= backing
    OBVIOUS
  <1>2. Scaled(r) = IF backing = 0 THEN (IF promised > 0 THEN here + 1 ELSE 0) ELSE q
    BY DEF Scaled
  <1> HIDE DEF promised, here, backing, q
  <1>3. CASE backing = 0
    <2>1. here = 0
      BY <1>1, <1>3
    <2>2. Scaled(r) \in Nat /\ Scaled(r) * backing = 0 /\ promised * here = 0
      BY <1>1, <1>2, <1>3, <2>1
    <2> QED BY <1>1, <1>2, <1>3, <2>1, <2>2 DEF promised, here, backing
  <1>4. CASE backing # 0
    <2>1. backing > 0
      BY <1>1, <1>4
    <2>2. promised * here \in Nat
      BY <1>1, TimesKeepsOrder
    <2>3. top \in Nat
      BY <1>1, <2>1, <2>2
    <2>4. q \in Nat /\ top < q * backing + backing
      BY <1>1, <2>1, <2>3, Quotient DEF q
    <2>5. q * backing \in Nat
      BY <1>1, <2>4, TimesKeepsOrder
    <2>6. q * backing >= promised * here
      BY <1>1, <2>1, <2>2, <2>4, <2>5
    <2> QED BY <1>2, <1>4, <2>4, <2>6 DEF promised, here, backing
  <1> QED BY <1>3, <1>4

LEMMA RequestStep == ASSUME PInv, NEW p \in Pubs, Request(p) PROVE PInv'
  <1>1. PICK terms \in Terms :
          pubs' = [pubs EXCEPT ![p] = [NoPub EXCEPT !.pc = "list", !.s = NewHash, !.terms = terms, !.quiet = TRUE]]
    BY DEF Request
  <1> DEFINE x == [NoPub EXCEPT !.pc = "list", !.s = NewHash, !.terms = terms, !.quiet = TRUE]
  <1>2. Fresh # {} /\ UNCHANGED <<book, subgraph, indexed>>
    BY DEF Request
  <1>3. /\ NewHash \in Strategies /\ tokensCount[NewHash] = NeverShipped
        /\ \A q \in Pubs : pubs[q].s # NewHash \/ ~ UnderWay(q)
    BY <1>2, FreshIs
  <1>4. /\ x \in Publication /\ x.pc = "list" /\ x.s = NewHash /\ x.siblings = {}
    BY <1>3, NoPubIs DEF Publication, PubState
  <1>5. pubs' = [pubs EXCEPT ![p] = x]
    BY <1>1
  <1> HIDE DEF x
  <1> QED BY <1>2, <1>3, <1>4, <1>5, OwnKeeps DEF Underway

\* The request's own facts, while it is under way.
LEMMA OwnIs ==
    ASSUME PInv, NEW p \in Pubs, UnderWay(p)
    PROVE  /\ pubs[p] \in Publication /\ tokensCount[pubs[p].s] = NeverShipped
           /\ pubs[p].siblings \subseteq Known /\ pubs[p].quiet \in BOOLEAN /\ pubs[p].s \notin Known
           /\ \A q \in Pubs : q # p /\ UnderWay(q) => pubs[q].s # pubs[p].s
  <1>1. pubs[p] \in Publication
    BY DEF PInv, PTyped
  <1>2. pubs[p].quiet \in BOOLEAN
    BY <1>1 DEF Publication
  <1> QED BY <1>1, <1>2 DEF PInv, HashesOK, Known

\* A step of a request that keeps its hash.
LEMMA OnwardKeeps ==
    ASSUME PInv, NEW p \in Pubs, UnderWay(p), NEW x \in Publication, pubs' = [pubs EXCEPT ![p] = x],
           UNCHANGED <<book, subgraph, indexed>>, x.siblings \subseteq Known,
           x.pc \in {"count", "cross", "built"}, x.s = pubs[p].s,
           x.quiet => /\ x.siblings = Live /\ indexed = Live
                      /\ x.pc = "cross" => x.declared = Promised(Live)
                      /\ x.pc = "built" => x.declared >= Promised(Live)
    PROVE  PInv'
  <1>1. tokensCount[x.s] = NeverShipped
    BY OwnIs
  <1>2. \A q \in Pubs : q # p /\ UnderWay(q) => pubs[q].s # x.s
    BY OwnIs
  <1>3. x.pc \in Underway
    BY DEF Underway
  <1> QED BY <1>1, <1>2, <1>3, OwnKeeps

LEMMA ListStep == ASSUME PInv, NEW p \in Pubs, List(p) PROVE PInv'
  <1> DEFINE x == [pubs[p] EXCEPT !.pc = "count", !.siblings = Listed, !.quiet = @ /\ indexed = Live]
  <1>1. UnderWay(p)
    BY DEF List, At, UnderWay, Underway
  <1>2. UNCHANGED <<book, subgraph, indexed>>
    BY DEF List
  <1>3. pubs' = [pubs EXCEPT ![p] = x]
    BY DEF List, PInv, PTyped
  <1>4. Listed \subseteq Known /\ (indexed = Live => Listed = Live) /\ Known \subseteq Strategies
    BY ListedIs, LiveKnown DEF PInv
  <1>5. /\ x \in Publication /\ x.pc = "count" /\ x.s = pubs[p].s /\ x.siblings = Listed
        /\ x.quiet => indexed = Live
    <2>1. pubs[p] \in Publication /\ Listed \in SUBSET Strategies
      BY <1>1, <1>4, OwnIs
    <2> QED BY <2>1 DEF Publication, PubState
  <1> HIDE DEF x
  <1>6. /\ x.siblings \subseteq Known /\ (x.quiet => x.siblings = Live)
        /\ x.pc \in {"count", "cross", "built"} /\ x.pc # "cross" /\ x.pc # "built"
    BY <1>4, <1>5
  <1> QED BY <1>1, <1>2, <1>3, <1>5, <1>6, OnwardKeeps

LEMMA ListClaimedStep == ASSUME PInv, NEW p \in Pubs, ListClaimed(p) PROVE PInv'
  <1>1. PICK hashes \in SUBSET {s \in Strategies : tokensCount[s] # NeverShipped} :
          pubs' = [pubs EXCEPT ![p].pc = "count", ![p].quiet = FALSE,
                               ![p].siblings = {s \in hashes : program[s].app = Here}]
    BY DEF ListClaimed
  <1> DEFINE x == [pubs[p] EXCEPT !.pc = "count", !.quiet = FALSE, !.siblings = {s \in hashes : program[s].app = Here}]
  <1>2. UnderWay(p) /\ UNCHANGED <<book, subgraph, indexed>>
    BY DEF ListClaimed, At, UnderWay, Underway
  <1>3. pubs' = [pubs EXCEPT ![p] = x]
    BY <1>1 DEF PInv, PTyped
  <1>4. {s \in hashes : program[s].app = Here} \subseteq Known /\ Known \subseteq Strategies
    BY DEF Known
  <1>5. /\ x \in Publication /\ x.pc = "count" /\ x.s = pubs[p].s /\ x.siblings \subseteq Known
        /\ ~ x.quiet
    BY <1>2, <1>4, OwnIs DEF Publication, PubState
  <1> HIDE DEF x
  <1>6. x.pc \in {"count", "cross", "built"}
    BY <1>5
  <1> QED BY <1>2, <1>3, <1>5, <1>6, OnwardKeeps

LEMMA CountStep == ASSUME PInv, NEW p \in Pubs, Count(p) PROVE PInv'
  <1>1. PICK next \in {"cross", "built"} :
          pubs' = [pubs EXCEPT ![p].pc = next, ![p].declared = Declared(pubs[p].siblings)]
    BY DEF Count
  <1> DEFINE n == Declared(pubs[p].siblings)
             x == [pubs[p] EXCEPT !.pc = next, !.declared = n]
  <1>2. At(p, "count") /\ UnderWay(p) /\ UNCHANGED <<book, subgraph, indexed>>
    BY DEF Count, At, UnderWay, Underway
  <1>3. pubs' = [pubs EXCEPT ![p] = x]
    BY <1>1 DEF PInv, PTyped
  <1>4. n \in Nat
    <2>1. {s \in pubs[p].siblings : IsLive(s)} \in SUBSET Known
      BY <1>2, OwnIs
    <2> QED BY <2>1, LiveKnown DEF Declared, PInv
  <1>5. pubs[p].quiet => pubs[p].siblings = Live /\ indexed = Live /\ n = Promised(Live)
    <2>1. pubs[p].quiet => pubs[p].siblings = Live /\ indexed = Live
      BY <1>2 DEF PInv, QuietOK, At
    <2>2. {s \in Live : IsLive(s)} = Live
      BY DEF Live
    <2> QED BY <2>1, <2>2 DEF Declared
  <1> HIDE DEF n
  <1>6. /\ x \in Publication /\ x.pc = next /\ x.s = pubs[p].s /\ x.siblings = pubs[p].siblings
        /\ x.quiet = pubs[p].quiet /\ x.declared = n
    BY <1>2, <1>4, OwnIs DEF Publication, PubState
  <1> HIDE DEF x
  <1>7. x.quiet => /\ x.siblings = Live /\ indexed = Live
                   /\ x.pc = "cross" => x.declared = Promised(Live)
                   /\ x.pc = "built" => x.declared >= Promised(Live)
    BY <1>4, <1>5, <1>6
  <1>8. x.siblings \subseteq Known /\ x.pc \in {"count", "cross", "built"}
    BY <1>2, <1>6, OwnIs
  <1> QED BY <1>2, <1>3, <1>6, <1>7, <1>8, OnwardKeeps

LEMMA CrossStep == ASSUME PInv, NEW p \in Pubs, Cross(p) PROVE PInv'
  <1>1. PICK r \in Readings :
          pubs' = [pubs EXCEPT ![p].pc = "built", ![p].declared = Larger(Scaled(r), @)]
    BY DEF Cross
  <1> DEFINE n == Larger(Scaled(r), pubs[p].declared)
             x == [pubs[p] EXCEPT !.pc = "built", !.declared = n]
  <1>2. At(p, "cross") /\ UnderWay(p) /\ UNCHANGED <<book, subgraph, indexed>>
    BY DEF Cross, At, UnderWay, Underway
  <1>3. pubs' = [pubs EXCEPT ![p] = x]
    BY <1>1 DEF PInv, PTyped
  <1>4. n \in Nat /\ n >= pubs[p].declared /\ pubs[p].declared \in Nat
    <2>1. Scaled(r) \in Nat
      BY ReadingIs, ScaledIs
    <2>2. pubs[p].declared \in Nat
      BY <1>2, OwnIs DEF Publication
    <2> QED BY <2>1, <2>2 DEF Larger
  <1>5. pubs[p].quiet => pubs[p].siblings = Live /\ indexed = Live /\ pubs[p].declared = Promised(Live)
    BY <1>2 DEF PInv, QuietOK, At
  <1> HIDE DEF n
  <1>6. /\ x \in Publication /\ x.pc = "built" /\ x.s = pubs[p].s /\ x.siblings = pubs[p].siblings
        /\ x.quiet = pubs[p].quiet /\ x.declared = n
    BY <1>2, <1>4, OwnIs DEF Publication, PubState
  <1> HIDE DEF x
  <1>7. x.quiet => /\ x.siblings = Live /\ indexed = Live
                   /\ x.pc = "cross" => x.declared = Promised(Live)
                   /\ x.pc = "built" => x.declared >= Promised(Live)
    BY <1>4, <1>5, <1>6
  <1>8. x.siblings \subseteq Known /\ x.pc \in {"count", "cross", "built"}
    BY <1>2, <1>6, OwnIs
  <1> QED BY <1>2, <1>3, <1>6, <1>7, <1>8, OnwardKeeps

\* What signing does: the hash of this request ships with its instruction, and
\* every other request was counted before that.
LEMMA SignIs ==
    ASSUME PInv, NEW p \in Pubs, Sign(p)
    PROVE  LET s == pubs[p].s IN
           /\ UnderWay(p) /\ s \in Strategies /\ tokensCount[s] = NeverShipped
           /\ UNCHANGED <<wallet, allowance, subgraph, indexed>>
           /\ program' = [program EXCEPT ![s] = Instruction(p)]
           /\ tokensCount' = [tokensCount EXCEPT ![s] = Shipped]
           /\ \A v \in Strategies : v # s => virtual'[v] = virtual[v]
           /\ BookTyped' /\ Known' = Known \cup {s} /\ IsFiniteSet(Known')
           /\ pubs' = [q \in Pubs |-> IF q = p THEN [NoPub EXCEPT !.pc = "signed", !.s = s]
                                      ELSE [pubs[q] EXCEPT !.quiet = FALSE]]
  <1>1. UnderWay(p) /\ UNCHANGED <<subgraph, indexed>>
    BY DEF Sign, At, UnderWay, Underway
  <1>2. PICK promised \in Promises : ShipAs(pubs[p].s, Instruction(p), promised)
    BY DEF Sign
  <1>3. pubs[p].s \in Strategies /\ Instruction(p) \in Program
    BY <1>1, OwnIs, InstructionIs DEF PInv, Publication
  <1>4. \A v \in Strategies : v # pubs[p].s => virtual'[v] = virtual[v]
    BY <1>2 DEF ShipAs, PInv, PTyped, BookTyped
  <1>5. /\ BookTyped' /\ Known' = Known \cup {pubs[p].s} /\ IsFiniteSet(Known')
        /\ tokensCount' = [tokensCount EXCEPT ![pubs[p].s] = Shipped]
    BY <1>2, <1>3, ShipAsKeeps
  <1>6. /\ tokensCount[pubs[p].s] = NeverShipped /\ UNCHANGED <<wallet, allowance>>
        /\ program' = [program EXCEPT ![pubs[p].s] = Instruction(p)]
    BY <1>2 DEF ShipAs
  <1> QED BY <1>1, <1>3, <1>4, <1>5, <1>6 DEF Sign

LEMMA SignStep == ASSUME PInv, NEW p \in Pubs, Sign(p) PROVE PInv'
  <1> DEFINE s == pubs[p].s
             x == [NoPub EXCEPT !.pc = "signed", !.s = s]
  <1>1. /\ UnderWay(p) /\ s \in Strategies /\ UNCHANGED <<subgraph, indexed>>
        /\ tokensCount' = [tokensCount EXCEPT ![s] = Shipped]
        /\ BookTyped' /\ Known' = Known \cup {s} /\ IsFiniteSet(Known')
        /\ pubs' = [q \in Pubs |-> IF q = p THEN x ELSE [pubs[q] EXCEPT !.quiet = FALSE]]
    BY SignIs
  <1>2. x \in Publication /\ x.pc = "signed" /\ x.siblings = {} /\ x.quiet = FALSE
    BY <1>1, NoPubIs DEF Publication, PubState
  <1> HIDE DEF x
  <1>3. ASSUME NEW q \in Pubs, q # p
        PROVE  /\ pubs'[q] \in Publication /\ pubs'[q].pc = pubs[q].pc /\ pubs'[q].s = pubs[q].s
               /\ pubs'[q].siblings = pubs[q].siblings /\ pubs'[q].quiet = FALSE
    <2>1. pubs[q] \in Publication
      BY DEF PInv, PTyped
    <2>2. pubs'[q] = [pubs[q] EXCEPT !.quiet = FALSE]
      BY <1>1, <1>3
    <2> QED BY <2>1, <2>2 DEF Publication
  <1>4. pubs'[p] = x
    BY <1>1
  <1>5. PTyped'
    <2>1. \A q \in Pubs : pubs'[q] \in Publication
      BY <1>2, <1>3, <1>4
    <2> QED BY <1>1, <2>1 DEF PInv, PTyped
  <1>6. ~ UnderWay(p)' /\ \A q \in Pubs : q # p => (UnderWay(q)' <=> UnderWay(q))
    BY <1>2, <1>3, <1>4 DEF UnderWay, Underway
  <1>7. HashesOK'
    <2>1. \A q \in Pubs : pubs'[q].siblings \subseteq Known'
      BY <1>1, <1>2, <1>3, <1>4 DEF PInv, HashesOK
    <2>2. ASSUME NEW q \in Pubs, UnderWay(q)' PROVE tokensCount'[pubs'[q].s] = NeverShipped
      <3>1. q # p /\ UnderWay(q)
        BY <1>6, <2>2
      <3>2. pubs[q].s # s /\ tokensCount[pubs[q].s] = NeverShipped
        BY <1>1, <3>1 DEF PInv, HashesOK
      <3>3. pubs[q].s \in Strategies
        BY DEF PInv, PTyped, Publication
      <3>4. tokensCount'[pubs[q].s] = tokensCount[pubs[q].s]
        BY <1>1, <3>2, <3>3 DEF PInv, PTyped, BookTyped
      <3>5. pubs'[q].s = pubs[q].s
        BY <1>3, <3>1
      <3> QED BY <3>2, <3>4, <3>5
    <2>3. \A q \in Pubs : ~ UnderWay(q)' => pubs'[q].siblings = {}
      BY <1>2, <1>3, <1>4, <1>6 DEF PInv, HashesOK
    <2>4. ASSUME NEW u \in Pubs, NEW v \in Pubs, u # v, UnderWay(u)', UnderWay(v)' PROVE pubs'[u].s # pubs'[v].s
      <3>1. u # p /\ v # p /\ UnderWay(u) /\ UnderWay(v)
        BY <1>6, <2>4
      <3>2. pubs[u].s # pubs[v].s
        BY <2>4, <3>1 DEF PInv, HashesOK
      <3> QED BY <1>3, <3>1, <3>2
    <2>5. indexed' \subseteq Known'
      BY <1>1 DEF PInv, HashesOK
    <2> QED BY <1>1, <2>1, <2>2, <2>3, <2>4, <2>5 DEF HashesOK
  <1>8. QuietOK'
    BY <1>2, <1>3, <1>4 DEF QuietOK
  <1> QED BY <1>5, <1>7, <1>8 DEF PInv

LEMMA PNextInv == PInv /\ [PNext]_pvars => PInv'
  <1> SUFFICES ASSUME PInv, [PNext]_pvars PROVE PInv'
    OBVIOUS
  <1>1. ASSUME NEW p \in Pubs,
               Request(p) \/ List(p) \/ ListClaimed(p) \/ Count(p) \/ Cross(p) \/ Sign(p)
        PROVE  PInv'
    BY <1>1, RequestStep, ListStep, ListClaimedStep, CountStep, CrossStep, SignStep
  <1>2. CASE ShipPlain
    BY <1>2, ShipPlainKeeps
  <1>3. ASSUME NEW s \in Strategies, OnBook(Dock(s)) PROVE PInv'
    BY <1>3, DockStep
  <1>4. ASSUME NEW s \in Strategies, NEW o \in Order, OnBook(Fill(s, o)) PROVE PInv'
    BY <1>4, FillStep
  <1>5. ASSUME NEW t \in Tokens, OnBook(MakerMoves(t)) \/ OnBook(MakerApproves(t)) PROVE PInv'
    BY <1>5, MoveStep
  <1>6. CASE IndexSees
    BY <1>6, IndexStep
  <1>7. CASE UNCHANGED pvars
    <2>1. UNCHANGED <<program, wallet, allowance, virtual, tokensCount, subgraph, indexed, pubs>>
      BY <1>7 DEF pvars, book
    <2>2. Known' = Known /\ Live' = Live
      BY <2>1 DEF Known, Live, IsLive
    <2>3. Promised(Live)' = Promised(Live)
      BY <2>1, <2>2, LiveSum, LiveSumNext
    <2> QED BY <2>1, <2>2, <2>3 DEF PInv, PTyped, BookTyped, HashesOK, UnderWay, QuietOK
  <1> QED BY <1>1, <1>2, <1>3, <1>4, <1>5, <1>6, <1>7 DEF PNext

LEMMA Publishes == PSpec => []PInv
  BY PInitInv, PNextInv, PTL DEF PSpec

-----------------------------------------------------------------------------
(***************************************************************************)
(* What a publication declares.                                            *)
(***************************************************************************)

LEMMA NotMoreThan == ASSUME NEW a \in Nat, NEW b \in Nat, NEW c \in Nat, a <= b PROVE a + c <= b + c
  OBVIOUS

LEMMA OneMore ==
    ASSUME NEW a \in Nat, NEW x \in Nat, NEW b \in Nat, NEW c \in Nat, a <= b, x + b <= c
    PROVE  a + x \in Nat /\ a + x <= c
  OBVIOUS

\* What the strategies of a list are promised, each read once, is within the book.
LEMMA ListSum ==
    ASSUME PTyped, HashesOK, NEW S \in SUBSET Known, NEW f \in Seq(S), IsInjective(f), Len(f) <= 6,
           NEW slot \in [1 .. 6 -> Nat],
           \A i \in 1 .. 6 : slot[i] <= IF i <= Len(f) THEN virtual[f[i]][TokenOut] ELSE 0
    PROVE  slot[1] + slot[2] + slot[3] + slot[4] + slot[5] + slot[6] <= Promised(S)
  <1> DEFINE T == [i \in 0 .. 6 |-> {f[j] : j \in {k \in 1 .. Len(f) : k <= i}}]
             P == [i \in 0 .. 6 |-> Promised(T[i])]
  <1>0. Len(f) \in Nat /\ DOMAIN f = 1 .. Len(f) /\ \A j \in 1 .. Len(f) : f[j] \in S
    OBVIOUS
  <1>1. \A i \in 0 .. 6 : T[i] \in SUBSET S /\ T[i] \in SUBSET Known
    BY <1>0
  <1>2. \A i \in 0 .. 6 : IsFiniteSet(T[i]) /\ Weighed(T[i]) /\ Promised(T[i]) \in Nat
    BY <1>1, LiveKnown
  <1>3. ASSUME NEW i \in 1 .. 6 PROVE i - 1 \in 0 .. 6 /\ i \in 0 .. 6
    OBVIOUS
  <1>4. P \in [0 .. 6 -> Nat] /\ \A i \in 0 .. 6 : P[i] = Promised(T[i])
    BY <1>2
  <1> HIDE DEF P
  <1>5. ASSUME NEW i \in 1 .. 6 PROVE slot[i] + P[i - 1] <= P[i]
    <2> DEFINE j == i - 1
    <2>1. j \in 0 .. 6 /\ i \in 0 .. 6 /\ i \in Nat /\ j \in Nat /\ \A n \in Nat : n <= i <=> n <= j \/ n = i
      BY <1>3
    <2> HIDE DEF j
    <2>2. slot[i] \in Nat /\ P[i] \in Nat /\ P[j] \in Nat
      BY <1>4, <2>1
    <2>3. CASE i <= Len(f)
      <3>1. T[i] = {f[k] : k \in {n \in 1 .. Len(f) : n <= i}} /\ T[j] = {f[k] : k \in {n \in 1 .. Len(f) : n <= j}}
        BY <2>1
      <3>2. i \in 1 .. Len(f) /\ f[i] \in T[i]
        BY <1>0, <2>1, <2>3, <3>1
      <3>3. \A k \in 1 .. Len(f) : k # i => f[k] # f[i]
        BY <1>0, <3>2 DEF IsInjective
      <3>4. T[i] \ {f[i]} = T[j]
        <4>1. ASSUME NEW x \in T[i] \ {f[i]} PROVE x \in T[j]
          <5>1. PICK k \in 1 .. Len(f) : k <= i /\ x = f[k]
            BY <3>1, <4>1
          <5>2. k <= j
            BY <2>1, <4>1, <5>1
          <5> QED BY <3>1, <5>1, <5>2
        <4>2. ASSUME NEW x \in T[j] PROVE x \in T[i] \ {f[i]}
          <5>1. PICK k \in 1 .. Len(f) : k <= j /\ x = f[k]
            BY <3>1
          <5>2. k <= i /\ k # i
            BY <2>1, <5>1, i = j + 1 DEF j
          <5> QED BY <3>1, <3>3, <5>1, <5>2
        <4> QED BY <4>1, <4>2
      <3> HIDE DEF T
      <3>5. Promised(T[i]) = Owed(f[i]) + Promised(T[i] \ {f[i]})
        BY <1>2, <2>1, <3>2, SumLess
      <3>6. P[i] = Owed(f[i]) + P[j]
        BY <1>4, <2>1, <3>4, <3>5
      <3>7. Owed(f[i]) \in Nat /\ Owed(f[i]) = virtual[f[i]][TokenOut]
        BY <1>2, <2>1, <3>2 DEF Weighed, Owed
      <3>8. slot[i] <= Owed(f[i])
        BY <2>3, <3>7
      <3>9. slot[i] + P[j] <= P[i]
        BY <2>2, <3>6, <3>7, <3>8, NotMoreThan
      <3> QED BY <3>9 DEF j
    <2>4. CASE ~ (i <= Len(f))
      <3>1. T[i] = T[j]
        <4>1. \A n \in 1 .. Len(f) : n <= i /\ n <= j
          BY <1>0, <2>1, <2>4, i = j + 1 DEF j
        <4> QED BY <2>1, <4>1
      <3>2. slot[i] = 0
        BY <2>2, <2>4
      <3>3. P[i] = P[j]
        BY <1>4, <2>1, <3>1
      <3>4. slot[i] + P[j] <= P[i]
        BY <2>2, <3>2, <3>3
      <3> QED BY <3>4 DEF j
    <2> QED BY <2>3, <2>4
  <1>6. P[6] <= Promised(S)
    <2>1. 6 \in 0 .. 6
      OBVIOUS
    <2>2. T[6] \in SUBSET S /\ P[6] = Promised(T[6])
      BY <1>1, <1>4, <2>1
    <2>3. IsFiniteSet(S) /\ Weighed(S)
      BY LiveKnown
    <2> HIDE DEF T
    <2>4. Promised(T[6]) <= Promised(S)
      BY <2>2, <2>3, SumGrows
    <2> QED BY <2>2, <2>4
  <1>7. P[0] \in Nat /\ P[1] \in Nat /\ P[2] \in Nat /\ P[3] \in Nat /\ P[4] \in Nat /\ P[5] \in Nat /\ P[6] \in Nat
    BY <1>4
  <1>8. Promised(S) \in Nat
    BY LiveKnown
  <1>9. /\ slot[1] + P[0] <= P[1] /\ slot[2] + P[1] <= P[2] /\ slot[3] + P[2] <= P[3]
        /\ slot[4] + P[3] <= P[4] /\ slot[5] + P[4] <= P[5] /\ slot[6] + P[5] <= P[6]
    <2>1. /\ slot[1] + P[1 - 1] <= P[1] /\ slot[2] + P[2 - 1] <= P[2] /\ slot[3] + P[3 - 1] <= P[3]
          /\ slot[4] + P[4 - 1] <= P[4] /\ slot[5] + P[5 - 1] <= P[5] /\ slot[6] + P[6 - 1] <= P[6]
      BY <1>5
    <2> QED BY <2>1
  <1>10. /\ slot[1] \in Nat /\ slot[2] \in Nat /\ slot[3] \in Nat /\ slot[4] \in Nat /\ slot[5] \in Nat /\ slot[6] \in Nat
    OBVIOUS
  <1> HIDE DEF T
  <1> DEFINE x1 == slot[1]
             x2 == slot[2]
             x3 == slot[3]
             x4 == slot[4]
             x5 == slot[5]
             x6 == slot[6]
             p1 == P[1]
             p2 == P[2]
             p3 == P[3]
             p4 == P[4]
             p5 == P[5]
             p6 == P[6]
             s2 == x1 + x2
             s3 == s2 + x3
             s4 == s3 + x4
             s5 == s4 + x5
             s6 == s5 + x6
  <1>11. x1 \in Nat /\ x2 \in Nat /\ x3 \in Nat /\ x4 \in Nat /\ x5 \in Nat /\ x6 \in Nat
    BY <1>10
  <1>12. p1 \in Nat /\ p2 \in Nat /\ p3 \in Nat /\ p4 \in Nat /\ p5 \in Nat /\ p6 \in Nat
    BY <1>7
  <1>13. x2 + p1 <= p2 /\ x3 + p2 <= p3 /\ x4 + p3 <= p4 /\ x5 + p4 <= p5 /\ x6 + p5 <= p6
    BY <1>9
  <1>14. x1 <= p1
    <2>1. x1 + P[0] <= p1
      BY <1>9
    <2> HIDE DEF x1, p1
    <2> QED BY <1>7, <1>11, <1>12, <2>1
  <1> HIDE DEF x1, x2, x3, x4, x5, x6, p1, p2, p3, p4, p5, p6
  <1>15. s2 \in Nat /\ s2 <= p2
    BY <1>11, <1>12, <1>13, <1>14, OneMore
  <1> HIDE DEF s2
  <1>16. s3 \in Nat /\ s3 <= p3
    BY <1>11, <1>12, <1>13, <1>15, OneMore
  <1> HIDE DEF s3
  <1>17. s4 \in Nat /\ s4 <= p4
    BY <1>11, <1>12, <1>13, <1>16, OneMore
  <1> HIDE DEF s4
  <1>18. s5 \in Nat /\ s5 <= p5
    BY <1>11, <1>12, <1>13, <1>17, OneMore
  <1> HIDE DEF s5
  <1>19. s6 \in Nat /\ s6 <= p6
    BY <1>11, <1>12, <1>13, <1>18, OneMore
  <1>20. s6 = slot[1] + slot[2] + slot[3] + slot[4] + slot[5] + slot[6]
    BY DEF s2, s3, s4, s5, x1, x2, x3, x4, x5, x6
  <1>21. p6 <= Promised(S)
    BY <1>6 DEF p6
  <1> HIDE DEF s6
  <1>22. s6 <= Promised(S)
    BY <1>8, <1>12, <1>19, <1>21
  <1> QED BY <1>20, <1>22

\* A signature nothing overtook: the contract's floor has nothing to say.
LEMMA SignDeclares ==
    ASSUME PInv, NEW p \in Pubs, Sign(p), pubs[p].quiet, NEW s \in Strategies, s = pubs[p].s
    PROVE  /\ program'[s] = Instruction(p) /\ program'[s].declared = pubs[p].declared
           /\ pubs[p].declared >= Promised(Live) /\ DeclaresEnough(s, TokenOut)'
           /\ \A t \in Tokens : Backing(t)' = Backing(t)
  <1> DEFINE list == SampledFrom(Live)
  <1>1. /\ UnderWay(p) /\ tokensCount[s] = NeverShipped /\ UNCHANGED <<wallet, allowance>>
        /\ program' = [program EXCEPT ![s] = Instruction(p)] /\ program \in [Strategies -> Program]
        /\ tokensCount' = [tokensCount EXCEPT ![s] = Shipped]
        /\ \A v \in Strategies : v # s => virtual'[v] = virtual[v]
    BY SignIs DEF PInv, PTyped, BookTyped
  <1>2. /\ pubs[p].siblings = Live /\ pubs[p].declared >= Promised(Live)
        /\ pubs[p].declared \in Nat
    BY OwnIs, <1>1 DEF Sign, At, PInv, QuietOK, Publication
  <1>3. /\ program'[s] = Instruction(p) /\ program'[s].declared = pubs[p].declared
        /\ program'[s].siblings = list
    BY <1>1, <1>2 DEF Instruction
  <1>4. Live \in SUBSET Known /\ Live \in SUBSET Strategies /\ IsFiniteSet(Live)
    BY LiveKnown DEF PInv
  <1>5. list \in Seq(Live) /\ IsInjective(list) /\ Len(list) <= MaxListed
    BY <1>4, SampledOf
  <1> HIDE DEF list
  <1>6. Len(list) \in Nat /\ Len(list) <= 6
    BY <1>5, PublishAssumption DEF MaxInstructionSiblings
  <1>7. s \notin Live
    BY <1>1 DEF Live, IsLive, Shipped, NeverShipped
  <1> DEFINE slot == [i \in 1 .. 6 |-> Slot(s, TokenOut, i)']
  <1>8. ASSUME NEW i \in 1 .. 6
        PROVE  /\ Slot(s, TokenOut, i)' \in Nat
               /\ Slot(s, TokenOut, i)' <= IF i <= Len(list) THEN virtual[list[i]][TokenOut] ELSE 0
    <2>1. CASE Counts(s, i)'
      <3>1. i <= Len(list) /\ Slot(s, TokenOut, i)' = virtual'[list[i]][TokenOut]
        BY <1>3, <2>1 DEF Counts, Slot
      <3>2. list[i] \in Live /\ list[i] \in Strategies /\ list[i] # s
        BY <1>4, <1>5, <1>6, <1>7, <3>1
      <3>3. virtual[list[i]][TokenOut] \in 0 .. MaxHeld
        BY <3>2, PublishAssumption DEF PInv, PTyped, BookTyped
      <3>4. \A n \in 0 .. MaxHeld : n \in Nat
        BY BookAssumption
      <3>5. Slot(s, TokenOut, i)' = virtual[list[i]][TokenOut] /\ virtual[list[i]][TokenOut] \in Nat
        BY <1>1, <3>1, <3>2, <3>3, <3>4
      <3> QED BY <3>1, <3>5
    <2>2. CASE ~ Counts(s, i)'
      <3>1. Slot(s, TokenOut, i)' = 0
        BY <2>2 DEF Slot
      <3>2. i <= Len(list) => virtual[list[i]][TokenOut] \in Nat
        <4>1. SUFFICES ASSUME i <= Len(list) PROVE virtual[list[i]][TokenOut] \in Nat
          OBVIOUS
        <4>2. list[i] \in Strategies
          BY <1>4, <1>5, <1>6, <4>1
        <4>3. virtual[list[i]][TokenOut] \in 0 .. MaxHeld
          BY <4>2, PublishAssumption DEF PInv, PTyped, BookTyped
        <4> QED BY <4>3, BookAssumption
      <3> QED BY <3>1, <3>2
    <2> QED BY <2>1, <2>2
  <1>9. slot \in [1 .. 6 -> Nat] /\ \A i \in 1 .. 6 : slot[i] = Slot(s, TokenOut, i)'
    BY <1>8
  <1>10. \A i \in 1 .. 6 : slot[i] <= IF i <= Len(list) THEN virtual[list[i]][TokenOut] ELSE 0
    BY <1>8, <1>9
  <1> HIDE DEF slot
  <1>11. slot[1] + slot[2] + slot[3] + slot[4] + slot[5] + slot[6] <= Promised(Live)
    BY <1>4, <1>5, <1>6, <1>9, <1>10, ListSum DEF PInv
  <1>12. Sampled(s, TokenOut)' = slot[1] + slot[2] + slot[3] + slot[4] + slot[5] + slot[6]
    BY <1>9 DEF Sampled
  <1>13. Promised(Live) \in Nat /\ slot[1] + slot[2] + slot[3] + slot[4] + slot[5] + slot[6] \in Nat
    BY <1>4, <1>9, LiveKnown DEF PInv
  <1>14. DeclaresEnough(s, TokenOut)'
    BY <1>2, <1>3, <1>11, <1>12, <1>13 DEF DeclaresEnough
  <1>15. \A t \in Tokens : Backing(t)' = Backing(t)
    BY <1>1 DEF Backing
  <1> QED BY <1>2, <1>3, <1>14, <1>15

\* Nothing but its own signature makes a publication signed.
LEMMA OnlySignSigns ==
    ASSUME PInv, [PNext]_pvars, NEW p \in Pubs, At(p, "built"), pubs'[p].pc = "signed"
    PROVE  Sign(p) /\ pubs'[p].s = pubs[p].s
  <1>1. \A q \in Pubs : pubs[q] \in Publication
    BY DEF PInv, PTyped
  <1>2. pubs[p].pc = "built"
    BY DEF At
  <1>3. ASSUME Disturb(Pubs) PROVE FALSE
    <2>1. pubs'[p] = [pubs[p] EXCEPT !.quiet = FALSE]
      BY <1>3 DEF Disturb
    <2>2. pubs'[p].pc = "built"
      BY <1>1, <1>2, <2>1 DEF Publication
    <2> QED BY <2>2
  <1>4. ASSUME pubs'[p] = pubs[p] PROVE FALSE
    BY <1>2, <1>4
  <1>5. ASSUME NEW q \in Pubs, Request(q) \/ List(q) \/ ListClaimed(q) \/ Count(q) \/ Cross(q) PROVE FALSE
    <2>1. pubs[q].pc # "built"
      BY <1>5 DEF Request, List, ListClaimed, Count, Cross, At
    <2>2. q # p
      BY <1>2, <2>1
    <2>3. pubs'[p] = pubs[p]
      BY <1>5, <2>2 DEF Request, List, ListClaimed, Count, Cross, PInv, PTyped
    <2> QED BY <1>4, <2>3
  <1>6. ASSUME NEW q \in Pubs, Sign(q) PROVE q = p
    <2>1. SUFFICES ASSUME q # p PROVE FALSE
      OBVIOUS
    <2>2. pubs'[p] = [pubs[p] EXCEPT !.quiet = FALSE]
      BY <1>6, <2>1 DEF Sign
    <2>3. pubs'[p].pc = "built"
      BY <1>1, <1>2, <2>2 DEF Publication
    <2> QED BY <2>3
  <1>9. Sign(p) => pubs'[p].s = pubs[p].s
    BY <1>1 DEF Sign, NoPub
  <1>7. CASE UNCHANGED pvars
    BY <1>4, <1>7 DEF pvars
  <1>8. CASE PNext
    <2>1. CASE \E q \in Pubs : Sign(q)
      BY <1>6, <1>9, <2>1
    <2>2. CASE \E q \in Pubs : Request(q) \/ List(q) \/ ListClaimed(q) \/ Count(q) \/ Cross(q)
      BY <1>5, <2>2
    <2>3. CASE ShipPlain \/ IndexSees
      BY <1>3, <2>3 DEF ShipPlain, IndexSees, Aside
    <2>4. CASE \E s \in Strategies : OnBook(Dock(s)) \/ \E o \in Order : OnBook(Fill(s, o))
      BY <1>3, <2>4 DEF OnBook, Aside
    <2>5. CASE \E t \in Tokens : OnBook(MakerMoves(t)) \/ OnBook(MakerApproves(t))
      BY <1>3, <2>5 DEF OnBook, Aside
    <2> QED BY <1>8, <2>1, <2>2, <2>3, <2>4, <2>5 DEF PNext
  <1> QED BY <1>7, <1>8

\* What is said of a request's hash after a step is said of that hash.
LEMMA HashAfter ==
    ASSUME NEW p \in Pubs, NEW s, pubs'[p].s = s, NEW o
    PROVE  /\ DeclaresEnough(pubs[p].s, TokenOut)' <=> DeclaresEnough(s, TokenOut)'
           /\ Accepts(pubs[p].s, o)' <=> Accepts(s, o)'
  <1>1. ASSUME NEW t, NEW i PROVE Slot(pubs[p].s, t, i)' = Slot(s, t, i)'
    <2>1. Counts(pubs[p].s, i)' = Counts(s, i)'
      BY Zenon DEF Counts
    <2> QED BY <2>1 DEF Slot
  <1>2. ASSUME NEW t PROVE Sampled(pubs[p].s, t)' = Sampled(s, t)'
    BY <1>1 DEF Sampled
  <1>3. ASSUME NEW t PROVE DeclaresEnough(pubs[p].s, t)' = DeclaresEnough(s, t)'
    BY <1>2 DEF DeclaresEnough
  <1>4. Accepts(pubs[p].s, o)' = Accepts(s, o)'
    BY <1>3 DEF Accepts
  <1> QED BY <1>3, <1>4

\* A publication that nothing overtook declares all its maker has promised, and
\* the contract's floor cannot refuse it: whichever router the siblings are
\* under, whatever the other chain answered (route.ts:109-299).
THEOREM Declares == PSpec => DeclaresItsBook
  <1>1. PInv /\ [PNext]_pvars =>
          (\A p \in Pubs :
              At(p, "built") /\ pubs[p].quiet /\ pubs'[p].pc = "signed"
                 => /\ program'[pubs[p].s].declared >= Promised(Live)
                    /\ DeclaresEnough(pubs[p].s, TokenOut)')
    <2>1. SUFFICES ASSUME PInv, [PNext]_pvars, NEW p \in Pubs,
                          At(p, "built"), pubs[p].quiet, pubs'[p].pc = "signed"
                   PROVE  /\ program'[pubs[p].s].declared >= Promised(Live)
                          /\ DeclaresEnough(pubs[p].s, TokenOut)'
      OBVIOUS
    <2>2. Sign(p) /\ pubs'[p].s = pubs[p].s
      BY <2>1, OnlySignSigns
    <2>3. PICK s \in Strategies : s = pubs[p].s
      BY <2>1 DEF PInv, PTyped, Publication
    <2>4. /\ program'[s].declared = pubs[p].declared /\ pubs[p].declared >= Promised(Live)
          /\ DeclaresEnough(s, TokenOut)'
      BY <2>1, <2>2, <2>3, SignDeclares
    <2> QED BY <2>2, <2>3, <2>4, HashAfter
  <1> QED BY <1>1, Publishes, PTL DEF PSpec, DeclaresItsBook

\* On the terms of the form, below the cliff, the haircut is part of the order.
LEMMA HaircutFits ==
    ASSUME NEW prog \in Program, NEW o \in Order, NEW b \in Nat, b > 0,
           prog.widenBps \in 0 .. 1500, Util(prog, b) < 9500
    PROVE  Haircut(prog, o, b) \in Nat /\ Haircut(prog, o, b) <= o.amountOut
  <1> DEFINE out == o.amountOut
             w == prog.widenBps
             u == Util(prog, b)
  <1>1. out \in Nat
    BY OrderFields
  <1>2. w \in Nat /\ w <= 1500 /\ u \in Nat /\ u <= 9500
    <2>1. \A n \in 0 .. 1500 : n \in Nat /\ n <= 1500
      OBVIOUS
    <2>2. u \in Nat
      BY UtilFalls
    <2>3. u < 9500
      OBVIOUS
    <2>4. u <= 9500
      <3> HIDE DEF u
      <3> QED BY <2>2, <2>3
    <2>5. w \in Nat /\ w <= 1500
      <3>1. w \in 0 .. 1500
        OBVIOUS
      <3> HIDE DEF w, u
      <3> QED BY <2>1, <3>1
    <2> QED BY <2>2, <2>4, <2>5
  <1> HIDE DEF out, w, u
  <1>3. w * u \in Nat /\ w * u <= BpsSquared
    <2>1. w * u <= 1500 * u /\ w * u \in Nat
      BY <1>2, TimesKeepsOrder
    <2> QED BY <1>2, <2>1 DEF BpsSquared
  <1> DEFINE slope == w * u
             q == (out * slope) \div BpsSquared
  <1>4. slope \in Nat /\ slope <= BpsSquared
    BY <1>3
  <1> HIDE DEF slope
  <1>5. out * slope \in Nat /\ out * slope <= out * BpsSquared
    BY <1>1, <1>4, TimesKeepsOrder DEF BpsSquared
  <1>6. q \in Nat /\ q * BpsSquared <= out * slope
    BY <1>5, Quotient DEF BpsSquared
  <1> HIDE DEF q
  <1>7. q <= out
    BY <1>1, <1>5, <1>6 DEF BpsSquared
  <1> QED BY <1>6, <1>7 DEF Haircut, q, slope, out, w, u

\* What the page draws is what the contract does: red refuses every order, and
\* an order drawn as fitting, on terms the sliders reach, is filled
\* (Provide.tsx:558-566, Encumbrance.sol:193-221).
THEOREM RedIsTrue == PSpec => RedIsRefused
  <1>1. PInv /\ [PNext]_pvars =>
          (\A p \in Pubs :
             At(p, "built") /\ pubs[p].quiet /\ ~ zeroBacking /\ pubs'[p].pc = "signed" =>
                LET total == pubs[p].declared
                    red == isCliffRefused(total, pubs[p].terms) IN
                \A o \in {x \in Order : x.tokenOut = TokenOut} :
                   /\ red => ~ Accepts(pubs[p].s, o)'
                   /\ pubs[p].terms \in Sliders /\ ~ red /\ ~ isSizeRefused(total, o.amountOut) => Accepts(pubs[p].s, o)')
    <2>1. SUFFICES ASSUME PInv, [PNext]_pvars, NEW p \in Pubs,
                          At(p, "built"), pubs[p].quiet, ~ zeroBacking, pubs'[p].pc = "signed",
                          NEW o \in Order, o.tokenOut = TokenOut
                   PROVE  /\ isCliffRefused(pubs[p].declared, pubs[p].terms) => ~ Accepts(pubs[p].s, o)'
                          /\ pubs[p].terms \in Sliders /\ ~ isCliffRefused(pubs[p].declared, pubs[p].terms)
                                /\ ~ isSizeRefused(pubs[p].declared, o.amountOut) => Accepts(pubs[p].s, o)'
      OBVIOUS
    <2> DEFINE total == pubs[p].declared
               terms == pubs[p].terms
    <2>2. Sign(p) /\ pubs'[p].s = pubs[p].s
      BY <2>1, OnlySignSigns
    <2>3. PICK s \in Strategies : s = pubs[p].s
      BY <2>1 DEF PInv, PTyped, Publication
    <2>4. PICK prog \in Program : prog = Instruction(p)
      BY <2>1, InstructionIs DEF PInv
    <2>5. PICK b \in Nat : b = Backing(TokenOut) /\ b > 0
      BY <2>1, BackingType, PublishAssumption DEF PInv, PTyped, zeroBacking, backingOut
    <2>6. program'[s] = prog /\ DeclaresEnough(s, TokenOut)' /\ Backing(TokenOut)' = b
      BY <2>1, <2>2, <2>3, <2>4, <2>5, SignDeclares, PublishAssumption
    <2>7. /\ prog.capped /\ prog.declared = total /\ prog.maxUtilBps = terms.maxUtilBps
          /\ prog.widenBps = terms.widenBps /\ total \in Nat
      BY <2>1, <2>4 DEF Instruction, PInv, PTyped, Publication
    <2>8. Accepts(pubs[p].s, o)' <=> Admits(prog, o, b)
      <3>1. Accepts(s, o)' <=> Admits(prog, o, b)
        <4>1. Backing(o.tokenOut)' = b
          BY <2>1, <2>6
        <4>2. DeclaresEnough(s, o.tokenOut)'
          BY <2>1, <2>6
        <4> QED BY <2>6, <2>7, <4>1, <4>2 DEF Accepts
      <3> QED BY <2>2, <2>3, <3>1, HashAfter
    <2>9. isCliffRefused(total, terms) <=> Util(prog, b) >= prog.maxUtilBps
      BY <2>5, <2>7 DEF isCliffRefused, currentUtil, backingOut, Util
    <2>10. Util(prog, b) \in Nat /\ prog.maxUtilBps \in Nat
      BY <2>5, UtilFalls, ProgramFields
    <2> HIDE DEF total, terms
    <2>11. ASSUME isCliffRefused(total, terms) PROVE ~ Admits(prog, o, b)
      BY <2>9, <2>10, <2>11 DEF Admits
    <2>12. ASSUME terms \in Sliders, ~ isCliffRefused(total, terms), ~ isSizeRefused(total, o.amountOut)
           PROVE  Admits(prog, o, b)
      <3>1. terms.widenBps \in 0 .. 1500 /\ terms.maxUtilBps \in 3000 .. 9500
        BY <2>12 DEF Sliders
      <3>2. prog.maxUtilBps <= 9500 /\ prog.widenBps \in 0 .. 1500
        <4>1. \A n \in 3000 .. 9500 : n <= 9500
          OBVIOUS
        <4>2. prog.maxUtilBps = terms.maxUtilBps /\ prog.widenBps = terms.widenBps
          BY <2>7 DEF terms
        <4>3. prog.maxUtilBps \in 3000 .. 9500 /\ prog.widenBps \in 0 .. 1500
          BY <3>1, <4>2
        <4>4. prog.maxUtilBps <= 9500
          <5> DEFINE m == prog.maxUtilBps
          <5>1. m \in 3000 .. 9500
            BY <4>3
          <5> HIDE DEF m
          <5>2. m <= 9500
            BY <5>1
          <5> QED BY <5>2 DEF m
        <4> QED BY <4>3, <4>4
      <3>3. Util(prog, b) < prog.maxUtilBps
        BY <2>9, <2>10, <2>12
      <3>4. Util(prog, b) < 9500
        BY <2>10, <3>2, <3>3
      <3>5. Haircut(prog, o, b) \in Nat /\ Haircut(prog, o, b) <= o.amountOut
        BY <2>5, <3>2, <3>4, HaircutFits
      <3>6. o.amountOut \in Nat
        BY OrderFields
      <3>7. total + o.amountOut < b
        BY <2>5, <2>7, <2>12, <3>6 DEF isSizeRefused, backingOut, total
      <3>8. Free(prog, b) \in Nat /\ o.amountOut <= Free(prog, b)
        BY <2>5, <2>7, <3>6, <3>7 DEF Free, total
      <3>9. Widened(prog, o, b).amountOut <= o.amountOut /\ Widened(prog, o, b).amountOut \in Nat
        BY <3>5, <3>6, OrderFields DEF Widened
      <3>10. Widened(prog, o, b).amountOut <= Free(prog, b)
        BY <3>6, <3>8, <3>9
      <3> QED BY <2>5, <3>3, <3>5, <3>10 DEF Admits
    <2> QED BY <2>8, <2>11, <2>12 DEF total, terms
  <1> QED BY <1>1, Publishes, PTL DEF PSpec, RedIsRefused

-----------------------------------------------------------------------------
(***************************************************************************)
(* What the book, the page and an oracle strategy say in every state.      *)
(***************************************************************************)

LEMMA Least == ASSUME NEW T, T \subseteq Nat, T # {} PROVE \E n \in T : \A m \in T : n <= m
  <1> DEFINE R == OpToRel(<, Nat)
  <1>1. IsWellFoundedOn(R, Nat)
    BY NatLessThanWellFounded
  <1>2. \A m, n \in Nat : m < n => <<m, n>> \in R
    BY DEF OpToRel
  <1> HIDE DEF R
  <1>3. PICK n \in T : \A m \in T : ~ (<<m, n>> \in R)
    BY <1>1, WFMin
  <1>4. \A m \in T : ~ (m < n)
    BY <1>2, <1>3
  <1> QED BY <1>3, <1>4

\* Some token is backed best, and the verdict is read there.
LEMMA PickIs == ASSUME PTyped, NEW s PROVE Pick(s) \in Tokens /\ \A u \in Tokens : Backing(u) <= Backing(Pick(s))
  <1> DEFINE room(t) == MaxHeld - Backing(t)
             T == {room(t) : t \in Tokens}
  <1>1. ASSUME NEW t \in Tokens PROVE Backing(t) \in Nat /\ Backing(t) <= MaxHeld /\ room(t) \in Nat
    <2>1. Backing(t) \in Nat /\ Backing(t) <= wallet[t]
      BY BackingType DEF PTyped
    <2>2. wallet[t] \in 0 .. MaxHeld
      BY DEF PTyped, BookTyped
    <2>3. wallet[t] \in Nat /\ wallet[t] <= MaxHeld /\ MaxHeld \in Nat
      BY <2>2, BookAssumption
    <2> QED BY <2>1, <2>3
  <1>2. T \subseteq Nat /\ T # {}
    BY <1>1, PublishAssumption
  <1> HIDE DEF T
  <1>3. PICK n \in T : \A m \in T : n <= m
    BY <1>2, Least
  <1>4. PICK t \in Tokens : n = room(t)
    BY <1>3 DEF T
  <1>5. ASSUME NEW u \in Tokens PROVE Backing(u) <= Backing(t)
    <2>1. room(t) <= room(u)
      BY <1>3, <1>4 DEF T
    <2> QED BY <1>1, <2>1, BookAssumption
  <1> QED BY <1>4, <1>5 DEF Pick

LEMMA RefusalsHold == ASSUME PInv PROVE RefusalsAreReal
  <1> SUFFICES ASSUME NEW s \in Live, program[s].capped, RefusesNow(s), NEW o \in Order, Accepts(s, o)
               PROVE  FALSE
    BY DEF RefusalsAreReal
  <1> DEFINE prog == program[s]
             best == Backing(Pick(s))
             b == Backing(o.tokenOut)
  <1>1. s \in Strategies /\ prog \in Program
    BY DEF Live, PInv, PTyped, BookTyped
  <1>2. best \in Nat /\ b \in Nat /\ b <= best
    BY PickIs, BackingType, OrderFields DEF PInv, PTyped
  <1>3. Admits(prog, o, b)
    BY DEF Accepts
  <1>4. b # 0 /\ Util(prog, b) < prog.maxUtilBps
    BY <1>3 DEF Admits
  <1>5. best # 0 /\ Util(prog, best) >= prog.maxUtilBps
    BY <1>2, <1>4 DEF RefusesNow
  <1> HIDE DEF prog, best, b
  <1>6. Util(prog, b) \in Nat /\ Util(prog, best) \in Nat /\ Util(prog, best) <= Util(prog, b)
    BY <1>1, <1>2, <1>4, UtilFalls
  <1>7. prog.maxUtilBps \in Nat
    BY <1>1, ProgramFields
  <1> QED BY <1>4, <1>5, <1>6, <1>7

LEMMA RatiosHold == ASSUME PInv PROVE CombinedRatioIsDeclared
  <1> SUFFICES ASSUME NEW p \in Pubs, NEW r \in Readings, At(p, "cross")
               PROVE  LET promised == r.here.promised + r.there.promised
                          backing  == r.here.backing + r.there.backing
                          total    == Larger(Scaled(r), pubs[p].declared)
                      IN /\ total * backing >= promised * r.here.backing
                         /\ backing = 0 /\ promised > 0 => total > r.here.backing
    BY DEF CombinedRatioIsDeclared
  <1> DEFINE promised == r.here.promised + r.there.promised
             here == r.here.backing
             backing  == r.here.backing + r.there.backing
             q == Scaled(r)
             total == Larger(q, pubs[p].declared)
  <1>1. promised \in Nat /\ backing \in Nat /\ here \in Nat
    BY ReadingIs
  <1>2. /\ q \in Nat /\ q * backing >= promised * here
        /\ backing = 0 /\ promised > 0 => q > here
    BY ReadingIs, ScaledIs
  <1>3. pubs[p].declared \in Nat
    BY DEF PInv, PTyped, Publication
  <1> HIDE DEF promised, here, backing, q
  <1>4. total \in Nat /\ q <= total
    BY <1>2, <1>3 DEF Larger
  <1> HIDE DEF total
  <1>5. total * backing \in Nat /\ q * backing \in Nat /\ q * backing <= total * backing
    BY <1>1, <1>2, <1>4, TimesKeepsOrder
  <1>6. promised * here \in Nat
    BY <1>1, TimesKeepsOrder
  <1>7. total * backing >= promised * here
    BY <1>2, <1>5, <1>6
  <1>8. backing = 0 /\ promised > 0 => total > here
    BY <1>1, <1>2, <1>4
  <1> QED BY <1>7, <1>8 DEF total, q, promised, here, backing

LEMMA PreviewsHold == ASSUME PInv PROVE PreviewIsDeclared
  <1> SUFFICES ASSUME NEW p \in Pubs, NEW r \in Readings, At(p, "cross"), pubs[p].quiet,
                      r.here = HereRead(TRUE), ~ zeroBacking
               PROVE  declaredOut(r) = Larger(Scaled(r), pubs[p].declared)
    BY DEF PreviewIsDeclared
  <1>1. indexed = Live /\ pubs[p].declared = Promised(Live)
    BY DEF PInv, QuietOK, At
  <1>2. Listed = Live
    BY <1>1, ListedIs
  <1>3. alreadyPromisedOut = Promised(Live)
    <2>1. Listed \cap Live = Live
      BY <1>2
    <2> QED BY <2>1 DEF alreadyPromisedOut
  <1>4. r.here.backing = backingOut
    BY DEF HereRead, TokenRow, backingOut
  <1>5. r.here.backing \in Nat /\ r.there.backing \in Nat /\ backingOut # 0
    BY ReadingIs DEF zeroBacking
  <1>6. r.here.backing + r.there.backing # 0
    <2> DEFINE h == r.here.backing
               e == r.there.backing
    <2>1. h \in Nat /\ e \in Nat /\ h # 0
      BY <1>4, <1>5
    <2> HIDE DEF h, e
    <2>2. h + e # 0
      BY <2>1
    <2> QED BY <2>2 DEF h, e
  <1>7. Scaled(r) = ((r.here.promised + r.there.promised) * backingOut + (r.here.backing + r.there.backing) - 1)
                       \div (r.here.backing + r.there.backing)
    BY <1>4, <1>6 DEF Scaled
  <1>8. declaredOut(r) =
          Larger(((r.here.promised + r.there.promised) * backingOut + (r.here.backing + r.there.backing) - 1)
                    \div (r.here.backing + r.there.backing), alreadyPromisedOut)
    BY <1>6 DEF declaredOut, combinedOut
  <1> QED BY <1>1, <1>3, <1>7, <1>8

LEMMA PublishTyped == ASSUME PInv PROVE PublishTypeOK
  <1>1. program \in [Strategies -> Program] /\ indexed \subseteq Strategies
    BY LiveKnown DEF PInv, PTyped, BookTyped, HashesOK
  <1>2. ASSUME NEW p \in Pubs
        PROVE  /\ pubs[p].pc \in PubState /\ pubs[p].siblings \subseteq Strategies \ {pubs[p].s}
               /\ pubs[p].declared \in Nat
               /\ Len(SampledFrom(pubs[p].siblings)) <= MaxListed
    <2>1. pubs[p] \in Publication
      BY DEF PInv, PTyped
    <2>2. pubs[p].siblings \subseteq Strategies \ {pubs[p].s}
      <3>1. CASE UnderWay(p)
        BY <3>1, OwnIs DEF Known
      <3>2. CASE ~ UnderWay(p)
        BY <3>2 DEF PInv, HashesOK
      <3> QED BY <3>1, <3>2
    <2>3. pubs[p].siblings \in SUBSET Strategies /\ IsFiniteSet(pubs[p].siblings)
      BY <2>2, LiveKnown DEF PInv, HashesOK
    <2>4. Len(SampledFrom(pubs[p].siblings)) <= MaxListed
      BY <2>3, SampledOf
    <2> QED BY <2>1, <2>2, <2>4 DEF Publication
  <1> QED BY <1>1, <1>2 DEF PublishTypeOK

-----------------------------------------------------------------------------
(***************************************************************************)
(* The price of an oracle strategy.                                        *)
(***************************************************************************)

\* Given the input: the value V of what comes in, the value L of what goes out
\* and the output itself are each rounded down.
LEMMA PaidIn ==
    ASSUME NEW x \in Nat, NEW PI \in Nat, NEW PO \in Nat, NEW UI \in Nat, NEW UO \in Nat, NEW kept \in Nat,
           NEW B \in Nat, NEW V \in Nat, NEW L \in Nat, NEW out \in Nat,
           V * UI <= x * PI, L * B <= V * kept, out * PO <= L * UO
    PROVE  ((out * PO) * UI) * B <= ((x * PI) * UO) * kept
  <1>1. /\ V * UI \in Nat /\ x * PI \in Nat /\ L * B \in Nat /\ V * kept \in Nat
        /\ out * PO \in Nat /\ L * UO \in Nat /\ UO * UI \in Nat /\ kept * UO \in Nat
    BY TimesKeepsOrder
  <1>2. /\ (out * PO) * UI \in Nat /\ (L * UO) * UI \in Nat /\ (out * PO) * UI <= (L * UO) * UI
    BY <1>1, TimesKeepsOrder
  <1>3. /\ ((out * PO) * UI) * B \in Nat /\ ((L * UO) * UI) * B \in Nat
        /\ ((out * PO) * UI) * B <= ((L * UO) * UI) * B
    BY <1>2, TimesKeepsOrder
  <1>4. ((L * UO) * UI) * B = (L * B) * (UO * UI)
    OBVIOUS
  <1>5. (L * B) * (UO * UI) \in Nat /\ (V * kept) * (UO * UI) \in Nat /\ (L * B) * (UO * UI) <= (V * kept) * (UO * UI)
    BY <1>1, TimesKeepsOrder
  <1>6. (V * kept) * (UO * UI) = (V * UI) * (kept * UO)
    OBVIOUS
  <1>7. (V * UI) * (kept * UO) \in Nat /\ (x * PI) * (kept * UO) \in Nat /\ (V * UI) * (kept * UO) <= (x * PI) * (kept * UO)
    BY <1>1, TimesKeepsOrder
  <1>8. (x * PI) * (kept * UO) = ((x * PI) * UO) * kept
    OBVIOUS
  <1> DEFINE a == ((out * PO) * UI) * B
             b == (L * B) * (UO * UI)
             c == (V * UI) * (kept * UO)
             d == (x * PI) * (kept * UO)
  <1>9. a \in Nat /\ b \in Nat /\ c \in Nat /\ d \in Nat /\ a <= b /\ b <= c /\ c <= d
    BY <1>3, <1>4, <1>5, <1>6, <1>7
  <1> HIDE DEF a, b, c, d
  <1>10. a <= d
    BY <1>9
  <1> QED BY <1>8, <1>10 DEF a, d

\* Given the output: each of the three is less than one more than it should be.
LEMMA PaidOut ==
    ASSUME NEW x \in Nat, NEW PI \in Nat, NEW PO \in Nat, NEW UI \in Nat, NEW UO \in Nat, NEW kept \in Nat,
           NEW B \in Nat, NEW V \in Nat, NEW M \in Nat, NEW in \in Nat, UI > 0, B > 0,
           x * PO < V * UO + UO, V * B < M * kept + kept, M * UI < in * PI + PI
    PROVE  ((x * PO) * UI) * B < ((in * PI) * UO + (PI * UO + UI * UO)) * kept + (UI * UO) * B
  <1> DEFINE units == UI * UO
             k == UI * B
  <1>1. /\ x * PO \in Nat /\ V * UO \in Nat /\ V * B \in Nat /\ M * kept \in Nat /\ M * UI \in Nat
        /\ in * PI \in Nat /\ units \in Nat /\ k \in Nat /\ PI * UO \in Nat /\ (in * PI) * UO \in Nat
        /\ M * units \in Nat
    <2>1. units \in Nat /\ in * PI \in Nat
      BY TimesKeepsOrder
    <2> QED BY <2>1, TimesKeepsOrder
  <1>2. k > 0
    <2>1. 1 * B <= UI * B
      BY TimesKeepsOrder
    <2> QED BY <2>1
  <1>3. (x * PO + 1) * k <= (V * UO + UO) * k
    BY <1>1, TimesKeepsOrder
  <1>4. (x * PO + 1) * k = ((x * PO) * UI) * B + k
    OBVIOUS
  <1>5. (V * UO + UO) * k = (V * B) * units + units * B
    OBVIOUS
  <1>6. (V * B) * units <= (M * kept + kept) * units
    BY <1>1, TimesKeepsOrder
  <1>7. (M * kept + kept) * units = (M * units + units) * kept
    OBVIOUS
  <1>8. (M * UI) * UO <= (in * PI + PI) * UO
    BY <1>1, TimesKeepsOrder
  <1>9. (M * UI) * UO = M * units /\ (in * PI + PI) * UO = (in * PI) * UO + PI * UO
    OBVIOUS
  <1> DEFINE h == (in * PI) * UO
             g == PI * UO
             m == M * units
  <1>10. h \in Nat /\ g \in Nat /\ m \in Nat /\ m <= h + g
    BY <1>1, <1>8, <1>9
  <1>11. (m + units) * kept <= (h + (g + units)) * kept
    <2> HIDE DEF h, g, m, units
    <2>1. m + units \in Nat /\ h + (g + units) \in Nat /\ m + units <= h + (g + units)
      BY <1>1, <1>10
    <2> QED BY <2>1, TimesKeepsOrder
  <1> DEFINE left == ((x * PO) * UI) * B
             v == (V * B) * units
             w == (m + units) * kept
             z == (h + (g + units)) * kept
             u == units * B
  <1>12. left \in Nat /\ v \in Nat /\ w \in Nat /\ z \in Nat /\ u \in Nat
    <2>1. (x * PO) * UI \in Nat /\ m + units \in Nat /\ h + (g + units) \in Nat
      BY <1>1, <1>10, TimesKeepsOrder
    <2> HIDE DEF h, g, m, units
    <2> QED BY <1>1, <2>1, TimesKeepsOrder
  <1>13. left + k <= v + u
    BY <1>3, <1>4, <1>5
  <1>14. v <= w /\ w <= z
    BY <1>6, <1>7, <1>11
  <1> HIDE DEF left, v, w, z, u, k
  <1>15. left < z + u
    BY <1>1, <1>2, <1>12, <1>13, <1>14
  <1> QED BY <1>15 DEF left, z, u, h, g, units

\* Prices are positive: a feed has at most 18 decimals.
LEMMA LegIs ==
    ASSUME NEW leg \in Legs, NEW t \in Tokens
    PROVE  /\ PriceOf(t, leg) \in Nat /\ PriceOf(t, leg) > 0
           /\ leg.unit[t] \in Nat /\ leg.unit[t] > 0
           /\ leg.spreadBps \in Nat /\ Bps - leg.spreadBps \in Nat /\ Bps - leg.spreadBps > 0
  <1>1. /\ leg.price[t] \in Nat /\ leg.price[t] > 0 /\ leg.feedUnit[t] \in Nat /\ leg.feedUnit[t] > 0
        /\ leg.unit[t] \in Nat /\ leg.unit[t] > 0 /\ leg.feedUnit[t] <= One /\ One \in Nat
    <2>1. /\ leg \in [price: [Tokens -> Nat \ {0}], feedUnit: [Tokens -> Nat \ {0}],
                      unit: [Tokens -> Nat \ {0}], spreadBps: 0 .. 999]
          /\ leg.feedUnit[t] <= One /\ One \in Nat
      BY BeaconAssumption
    <2>2. leg.price[t] \in Nat \ {0} /\ leg.feedUnit[t] \in Nat \ {0} /\ leg.unit[t] \in Nat \ {0}
      BY <2>1
    <2> QED BY <2>1, <2>2
  <1>2. leg.spreadBps \in Nat /\ Bps - leg.spreadBps \in Nat /\ Bps - leg.spreadBps > 0
    <2>1. leg.spreadBps \in 0 .. 999
      BY BeaconAssumption
    <2>2. \A n \in 0 .. 999 : n \in Nat /\ Bps - n \in Nat /\ Bps - n > 0
      BY DEF Bps
    <2> QED BY <2>1, <2>2
  <1> DEFINE f == leg.feedUnit[t]
             a == leg.price[t]
             q == (a * One) \div f
  <1>3. a \in Nat /\ a > 0 /\ f \in Nat /\ f > 0 /\ f <= One /\ One \in Nat
    BY <1>1
  <1> HIDE DEF a, f
  <1>4. 1 * One <= a * One /\ a * One \in Nat
    BY <1>3, TimesKeepsOrder
  <1>5. q \in Nat /\ a * One < q * f + f
    BY <1>3, <1>4, Quotient
  <1>6. q # 0
    <2> HIDE DEF q
    <2>1. ASSUME q = 0 PROVE FALSE
      BY <1>3, <1>4, <1>5, <2>1
    <2> QED BY <2>1
  <1>7. PriceOf(t, leg) = q
    BY DEF PriceOf, Normalised, q, a, f
  <1> HIDE DEF q
  <1> QED BY <1>1, <1>2, <1>5, <1>6, <1>7

\* What the taker of an oracle strategy pays, before opcode 35.
LEMMA GivenPays ==
    ASSUME NEW leg \in Legs, NEW t \in Tokens, NEW u \in Tokens, NEW e \in BOOLEAN, NEW x \in Sizes,
           NEW o, o = Extruded([tokenIn |-> t, tokenOut |-> u, isExactIn |-> e, amountIn |-> x, amountOut |-> x], leg)
    PROVE  /\ o.tokenIn = t /\ o.tokenOut = u /\ o.isExactIn = e
           /\ o.amountIn \in Nat /\ o.amountOut \in Nat
           /\ o \in [tokenIn: Tokens, tokenOut: Tokens, isExactIn: BOOLEAN, amountIn: Nat, amountOut: Nat]
           /\ PaysTheSpread(o, leg)
  <1> DEFINE PI == PriceOf(t, leg)
             PO == PriceOf(u, leg)
             UI == leg.unit[t]
             UO == leg.unit[u]
             kept == Bps - leg.spreadBps
             given == [tokenIn |-> t, tokenOut |-> u, isExactIn |-> e, amountIn |-> x, amountOut |-> x]
  <1>1. /\ PI \in Nat /\ PI > 0 /\ PO \in Nat /\ PO > 0 /\ UI \in Nat /\ UI > 0 /\ UO \in Nat /\ UO > 0
        /\ kept \in Nat /\ kept > 0 /\ x \in Nat /\ Bps \in Nat /\ Bps > 0
    BY LegIs, BeaconAssumption DEF Bps
  <1>2. CASE e
    <2> DEFINE V == (x * PI) \div UI
               L == (V * kept) \div Bps
               out == (L * UO) \div PO
    <2>1. V \in Nat /\ V * UI <= x * PI
      <3> HIDE DEF PI, UI
      <3>1. x * PI \in Nat
        BY <1>1, TimesKeepsOrder
      <3> QED BY <1>1, <3>1, Quotient
    <2>2. L \in Nat /\ L * Bps <= V * kept
      <3> HIDE DEF V, kept
      <3>1. V * kept \in Nat
        BY <1>1, <2>1, TimesKeepsOrder
      <3> QED BY <1>1, <3>1, Quotient
    <2>3. out \in Nat /\ out * PO <= L * UO
      <3> HIDE DEF L, UO, PO
      <3>1. L * UO \in Nat
        BY <1>1, <2>2, TimesKeepsOrder
      <3> QED BY <1>1, <3>1, Quotient
    <2>4. ((out * PO) * UI) * Bps <= ((x * PI) * UO) * kept
      <3> HIDE DEF PI, PO, UI, UO, kept, V, L, out
      <3> QED BY <1>1, <2>1, <2>2, <2>3, PaidIn
    <2>5. o = [given EXCEPT !.amountOut = out]
      BY <1>2 DEF Extruded, AmountOf, Less, ValueOf
    <2> HIDE DEF out
    <2>6. /\ o.tokenIn = t /\ o.tokenOut = u /\ o.isExactIn = e /\ o.amountIn = x /\ o.amountOut = out
          /\ o \in [tokenIn: Tokens, tokenOut: Tokens, isExactIn: BOOLEAN, amountIn: Nat, amountOut: Nat]
      BY <1>1, <2>3, <2>5
    <2>7. PaysTheSpread(o, leg)
      BY <1>2, <2>4, <2>6 DEF PaysTheSpread
    <2> QED BY <1>1, <2>3, <2>6, <2>7
  <1>3. CASE ~ e
    <2> DEFINE V == (x * PO) \div UO
               M == (V * Bps) \div kept
               in == (M * UI) \div PI
    <2>1. V \in Nat /\ x * PO < V * UO + UO
      <3> HIDE DEF PO, UO
      <3>1. x * PO \in Nat
        BY <1>1, TimesKeepsOrder
      <3> QED BY <1>1, <3>1, Quotient
    <2>2. M \in Nat /\ V * Bps < M * kept + kept
      <3> HIDE DEF V, kept
      <3>1. V * Bps \in Nat
        BY <1>1, <2>1, TimesKeepsOrder
      <3> QED BY <1>1, <3>1, Quotient
    <2>3. in \in Nat /\ M * UI < in * PI + PI
      <3> HIDE DEF M, UI, PI
      <3>1. M * UI \in Nat
        BY <1>1, <2>2, TimesKeepsOrder
      <3> QED BY <1>1, <3>1, Quotient
    <2>4. ((x * PO) * UI) * Bps < ((in * PI) * UO + (PI * UO + UI * UO)) * kept + (UI * UO) * Bps
      <3> HIDE DEF PI, PO, UI, UO, kept, V, M, in
      <3> QED BY <1>1, <2>1, <2>2, <2>3, PaidOut
    <2>5. o = [given EXCEPT !.amountIn = in]
      BY <1>3 DEF Extruded, AmountOf, More, ValueOf
    <2> HIDE DEF in
    <2>6. /\ o.tokenIn = t /\ o.tokenOut = u /\ o.isExactIn = e /\ o.amountIn = in /\ o.amountOut = x
          /\ o \in [tokenIn: Tokens, tokenOut: Tokens, isExactIn: BOOLEAN, amountIn: Nat, amountOut: Nat]
      BY <1>1, <2>3, <2>5
    <2>7. PaysTheSpread(o, leg)
      BY <1>3, <2>4, <2>6 DEF PaysTheSpread
    <2> QED BY <1>1, <2>3, <2>6, <2>7
  <1> QED BY <1>2, <1>3

\* A worse order for the taker still pays it.
LEMMA WorsePays ==
    ASSUME NEW leg \in Legs,
           NEW o \in [tokenIn: Tokens, tokenOut: Tokens, isExactIn: BOOLEAN, amountIn: Nat, amountOut: Nat],
           PaysTheSpread(o, leg), NEW n \in Nat
    PROVE  /\ o.isExactIn /\ n <= o.amountOut => PaysTheSpread([o EXCEPT !.amountOut = n], leg)
           /\ ~ o.isExactIn /\ o.amountIn <= n => PaysTheSpread([o EXCEPT !.amountIn = n], leg)
  <1> DEFINE PI == PriceOf(o.tokenIn, leg)
             PO == PriceOf(o.tokenOut, leg)
             UI == leg.unit[o.tokenIn]
             UO == leg.unit[o.tokenOut]
             kept == Bps - leg.spreadBps
             a == o.amountIn
             b == o.amountOut
  <1>1. o.tokenIn \in Tokens /\ o.tokenOut \in Tokens /\ a \in Nat /\ b \in Nat
    OBVIOUS
  <1>2. /\ PI \in Nat /\ PO \in Nat /\ UI \in Nat /\ UO \in Nat /\ kept \in Nat /\ Bps \in Nat
    BY <1>1, LegIs DEF Bps
  <1>3. ASSUME o.isExactIn, n <= b PROVE PaysTheSpread([o EXCEPT !.amountOut = n], leg)
    <2>1. ((b * PO) * UI) * Bps <= ((a * PI) * UO) * kept
      BY <1>3 DEF PaysTheSpread
    <2>2. ((n * PO) * UI) * Bps <= ((a * PI) * UO) * kept
      <3> HIDE DEF PI, PO, UI, UO, kept, a, b
      <3>1. n * PO \in Nat /\ b * PO \in Nat /\ n * PO <= b * PO /\ a * PI \in Nat
        BY <1>1, <1>2, <1>3, TimesKeepsOrder
      <3>2. (n * PO) * UI \in Nat /\ (b * PO) * UI \in Nat /\ (n * PO) * UI <= (b * PO) * UI /\ (a * PI) * UO \in Nat
        BY <1>2, <3>1, TimesKeepsOrder
      <3> DEFINE x == ((n * PO) * UI) * Bps
                 y == ((b * PO) * UI) * Bps
                 z == ((a * PI) * UO) * kept
      <3>3. x \in Nat /\ y \in Nat /\ x <= y /\ z \in Nat
        BY <1>2, <3>2, TimesKeepsOrder
      <3>4. y <= z
        BY <2>1
      <3> HIDE DEF x, y, z
      <3>5. x <= z
        BY <3>3, <3>4
      <3> QED BY <3>5 DEF x, z
    <2>3. LET w == [o EXCEPT !.amountOut = n] IN
            w.isExactIn /\ w.tokenIn = o.tokenIn /\ w.tokenOut = o.tokenOut /\ w.amountIn = a /\ w.amountOut = n
      BY <1>3
    <2> QED BY <2>2, <2>3 DEF PaysTheSpread
  <1>4. ASSUME ~ o.isExactIn, a <= n PROVE PaysTheSpread([o EXCEPT !.amountIn = n], leg)
    <2> DEFINE slack == PI * UO + UI * UO
    <2>1. ((b * PO) * UI) * Bps < ((a * PI) * UO + slack) * kept + (UI * UO) * Bps
      BY <1>4 DEF PaysTheSpread
    <2>2. ((b * PO) * UI) * Bps < ((n * PI) * UO + slack) * kept + (UI * UO) * Bps
      <3> HIDE DEF PI, PO, UI, UO, kept, a, b
      <3>1. /\ n * PI \in Nat /\ a * PI \in Nat /\ a * PI <= n * PI /\ b * PO \in Nat /\ UI * UO \in Nat /\ PI * UO \in Nat
        BY <1>1, <1>2, <1>4, TimesKeepsOrder
      <3>2. /\ (a * PI) * UO \in Nat /\ (n * PI) * UO \in Nat /\ (a * PI) * UO <= (n * PI) * UO
            /\ (b * PO) * UI \in Nat /\ slack \in Nat
        BY <1>2, <3>1, TimesKeepsOrder
      <3> HIDE DEF slack
      <3> DEFINE f == (a * PI) * UO + slack
                 g == (n * PI) * UO + slack
      <3>3. f \in Nat /\ g \in Nat /\ f <= g
        BY <3>2
      <3> HIDE DEF f, g
      <3> DEFINE x == ((b * PO) * UI) * Bps
                 y == f * kept
                 z == g * kept
                 r == (UI * UO) * Bps
      <3>4. x \in Nat /\ y \in Nat /\ z \in Nat /\ r \in Nat /\ y <= z
        BY <1>2, <3>1, <3>2, <3>3, TimesKeepsOrder
      <3>5. x < y + r
        BY <2>1 DEF f
      <3> HIDE DEF x, y, z, r
      <3>6. x < z + r
        BY <3>4, <3>5
      <3> QED BY <3>6 DEF x, z, r, g
    <2>3. LET w == [o EXCEPT !.amountIn = n] IN
            ~ w.isExactIn /\ w.tokenIn = o.tokenIn /\ w.tokenOut = o.tokenOut /\ w.amountIn = n /\ w.amountOut = b
      BY <1>4
    <2> QED BY <2>2, <2>3 DEF PaysTheSpread
  <1> QED BY <1>3, <1>4

\* Every strategy, every size, every cap: the spread is paid.
LEMMA SpreadHolds == SpreadIsPaid
  <1> SUFFICES ASSUME NEW leg \in Legs, NEW o \in Given(leg)
               PROVE  /\ PaysTheSpread(o, leg)
                      /\ \A d \in Amounts, x \in Terms, b \in Sizes :
                            LET capped == [declared |-> d, maxUtilBps |-> x.maxUtilBps, widenBps |-> x.widenBps]
                            IN Admits(capped, o, b) => PaysTheSpread(Widened(capped, o, b), leg)
    BY Zenon DEF SpreadIsPaid
  <1>1. /\ PaysTheSpread(o, leg) /\ o.isExactIn \in BOOLEAN /\ o.amountIn \in Nat /\ o.amountOut \in Nat
        /\ o \in [tokenIn: Tokens, tokenOut: Tokens, isExactIn: BOOLEAN, amountIn: Nat, amountOut: Nat]
    <2>1. \E t \in Tokens, u \in Tokens, e \in BOOLEAN, x \in Sizes :
            o = Extruded([tokenIn |-> t, tokenOut |-> u, isExactIn |-> e, amountIn |-> x, amountOut |-> x], leg)
      BY SMT DEF Given
    <2>2. PICK t \in Tokens, u \in Tokens, e \in BOOLEAN, x \in Sizes :
            o = Extruded([tokenIn |-> t, tokenOut |-> u, isExactIn |-> e, amountIn |-> x, amountOut |-> x], leg)
      BY Zenon, <2>1
    <2> QED BY <2>2, GivenPays
  <1>2. ASSUME NEW d \in Amounts, NEW x \in Terms, NEW b \in Sizes, NEW capped,
               capped = [declared |-> d, maxUtilBps |-> x.maxUtilBps, widenBps |-> x.widenBps], Admits(capped, o, b)
        PROVE  PaysTheSpread(Widened(capped, o, b), leg)
    <2> DEFINE util == (d * Bps) \div b
               w == x.widenBps
               slope == w * util
               hair == (o.amountOut * slope) \div BpsSquared
               top == o.amountIn * slope + BpsSquared - 1
               more == top \div BpsSquared
    <2>1. d \in Nat /\ b \in Nat /\ b > 0
      BY BookAssumption, BeaconAssumption
    <2>2. w \in Nat
      <3>1. w \in Uint16
        BY PublishAssumption
      <3>2. \A n \in Uint16 : n \in Nat
        BY DEF Uint16
      <3> QED BY <3>1, <3>2
    <2>3. util \in Nat
      <3>1. d * Bps \in Nat
        BY <2>1 DEF Bps
      <3> QED BY <2>1, <3>1, Quotient
    <2>4. Util(capped, b) = util /\ capped.widenBps = w
      BY <1>2 DEF Util
    <2>5. Haircut(capped, o, b) = hair /\ Penalty(capped, o, b) = more
      BY <2>4 DEF Haircut, Penalty
    <2> HIDE DEF util, w
    <2>6. slope \in Nat
      BY <2>2, <2>3, TimesKeepsOrder
    <2> HIDE DEF slope
    <2>7. hair \in Nat
      <3>1. o.amountOut * slope \in Nat
        BY <1>1, <2>6, TimesKeepsOrder
      <3> QED BY <3>1, Quotient DEF BpsSquared
    <2>8. more \in Nat
      <3>1. o.amountIn * slope \in Nat
        BY <1>1, <2>6, TimesKeepsOrder
      <3>2. top \in Nat
        BY <3>1 DEF BpsSquared
      <3> HIDE DEF top
      <3> QED BY <3>2, Quotient DEF BpsSquared
    <2> HIDE DEF hair, more
    <2>9. CASE o.isExactIn
      <3>1. hair <= o.amountOut
        BY <1>2, <2>5, <2>9 DEF Admits
      <3>2. o.amountOut - hair \in Nat /\ o.amountOut - hair <= o.amountOut
        BY <1>1, <2>7, <3>1
      <3>3. Widened(capped, o, b) = [o EXCEPT !.amountOut = o.amountOut - hair]
        BY <1>1, <2>5, <2>9 DEF Widened
      <3> DEFINE n == o.amountOut - hair
      <3>4. n \in Nat /\ n <= o.amountOut /\ Widened(capped, o, b) = [o EXCEPT !.amountOut = n]
        BY <3>2, <3>3
      <3> HIDE DEF n
      <3>5. PaysTheSpread([o EXCEPT !.amountOut = n], leg)
        BY <1>1, <2>9, <3>4, WorsePays
      <3> QED BY <3>4, <3>5
    <2>10. CASE ~ o.isExactIn
      <3>1. o.amountIn + more \in Nat /\ o.amountIn <= o.amountIn + more
        BY <1>1, <2>8
      <3>2. Widened(capped, o, b) = [o EXCEPT !.amountIn = o.amountIn + more]
        BY <1>1, <2>5, <2>10 DEF Widened
      <3> DEFINE n == o.amountIn + more
      <3>3. n \in Nat /\ o.amountIn <= n /\ Widened(capped, o, b) = [o EXCEPT !.amountIn = n]
        BY <3>1, <3>2
      <3> HIDE DEF n
      <3>4. PaysTheSpread([o EXCEPT !.amountIn = n], leg)
        BY <1>1, <2>10, <3>3, WorsePays
      <3> QED BY <3>3, <3>4
    <2> QED BY <2>9, <2>10
  <1> QED BY <1>1, <1>2

\* A price the page calls fresh is one the strategy settles (oracle.ts:46-83,
\* BeaconStrategy.sol:129-147).
LEMMA FreshHolds == \A rounds \in Feeds, now \in Times : FreshIsSettled(rounds, now)
  <1> SUFFICES ASSUME NEW rounds \in Feeds, NEW now \in Times PROVE FreshIsSettled(rounds, now)
    OBVIOUS
  <1> DEFINE r == Latest(rounds)
             v == Normalised(r.answer, FeedUnit)
             q == [priceUsdE18 |-> v, updatedAt |-> r.updatedAt, stale |-> now - r.updatedAt > MaxStalenessSeconds]
             quote == oraclePriceUsd(rounds, FeedUnit, now)
             settled == SettledPrice(rounds, FeedUnit, now)
             shown == OnChainPrice(rounds, FeedUnit)
  <1>1. r.answer \in Int /\ r.updatedAt \in Nat /\ now \in Nat
    <2>1. PICK n \in 1 .. Chart + 1 : rounds \in [1 .. n -> [answer: Answers, updatedAt: Times]]
      BY DEF Feeds
    <2>2. n \in Nat /\ n >= 1
      BY <2>1, BeaconAssumption
    <2>3. Len(rounds) = n /\ n \in 1 .. n
      BY <2>1, <2>2
    <2>4. r \in [answer: Answers, updatedAt: Times]
      BY <2>1, <2>3 DEF Latest
    <2> QED BY <2>4, BeaconAssumption
  <1>2. quote = IF r.answer <= 0 THEN <<>> ELSE <<q>>
    BY DEF oraclePriceUsd, Reverts
  <1>3. shown = IF r.answer <= 0 THEN <<>> ELSE <<v>>
    BY DEF OnChainPrice, Reverts
  <1>4. settled = IF r.answer <= 0 \/ now < r.updatedAt \/ now - r.updatedAt > MaxStalenessSeconds THEN <<>> ELSE <<v>>
    BY DEF SettledPrice, Reverts
  <1>5. /\ q.priceUsdE18 = v /\ q.updatedAt = r.updatedAt
        /\ q.stale <=> now - r.updatedAt > MaxStalenessSeconds
    OBVIOUS
  <1>6. MaxStalenessSeconds \in Nat
    BY BeaconAssumption
  <1> HIDE DEF r, v, q, quote, settled, shown
  <1>7. /\ quote = <<>> <=> shown = <<>>
        /\ settled # <<>> => settled = shown
        /\ settled = IF quote # <<>> /\ ~quote[1].stale /\ quote[1].updatedAt <= now
                     THEN <<quote[1].priceUsdE18>> ELSE <<>>
    <2>1. CASE r.answer <= 0
      <3>1. quote = <<>> /\ shown = <<>> /\ settled = <<>>
        BY <1>2, <1>3, <1>4, <2>1
      <3> QED BY <3>1
    <2>2. CASE ~ (r.answer <= 0)
      <3>1. quote = <<q>> /\ shown = <<v>> /\ <<q>> # <<>> /\ <<v>> # <<>> /\ quote[1] = q
        BY <1>2, <1>3, <2>2
      <3>2. CASE now < r.updatedAt \/ now - r.updatedAt > MaxStalenessSeconds
        <4>1. settled = <<>>
          BY <1>4, <3>2
        <4>2. q.stale \/ ~ (q.updatedAt <= now)
          BY <1>1, <1>5, <3>2
        <4> QED BY <3>1, <4>1, <4>2
      <3>3. CASE ~ (now < r.updatedAt \/ now - r.updatedAt > MaxStalenessSeconds)
        <4>1. settled = <<v>>
          BY <1>4, <2>2, <3>3
        <4>2. ~ q.stale /\ q.updatedAt <= now
          BY <1>1, <1>5, <3>3
        <4> QED BY <1>5, <3>1, <4>1, <4>2
      <3> QED BY <3>2, <3>3
    <2> QED BY <2>1, <2>2
  <1> QED BY <1>7 DEF FreshIsSettled, quote, settled, shown, Reverts

-----------------------------------------------------------------------------
(* The chart: sorting by the number of members before, then one of a time.  *)

LEMMA RankedIs ==
    ASSUME NEW S, IsFiniteSet(S), NEW R,
           \A a \in S : <<a, a>> \notin R,
           \A a, b, c \in S : <<a, b>> \in R /\ <<b, c>> \in R => <<a, c>> \in R,
           \A a, b \in S : a # b => <<a, b>> \in R \/ <<b, a>> \in R
    PROVE  /\ Cardinality(S) \in Nat
           /\ Ranked(S, R) \in [1 .. Cardinality(S) -> S]
           /\ \A k \in S : \E m \in 1 .. Cardinality(S) : Ranked(S, R)[m] = k
           /\ \A j, k \in 1 .. Cardinality(S) : j < k => <<Ranked(S, R)[j], Ranked(S, R)[k]>> \in R
<1> DEFINE n == Cardinality(S)
           Pred(k) == {j \in S : <<j, k>> \in R}
           place == [k \in S |-> Cardinality(Pred(k)) + 1]
<1>1. n \in Nat
  BY FS_CardinalityType
<1>2. ASSUME NEW k \in S PROVE /\ IsFiniteSet(Pred(k)) /\ Cardinality(Pred(k)) \in Nat /\ Cardinality(Pred(k)) < n
  <2>1. Pred(k) \in SUBSET S /\ k \notin Pred(k)
    OBVIOUS
  <2>2. IsFiniteSet(Pred(k)) /\ Cardinality(Pred(k)) <= n /\ (n = Cardinality(Pred(k)) => S = Pred(k))
    BY <2>1, FS_Subset
  <2>3. Cardinality(Pred(k)) \in Nat
    BY <2>2, FS_CardinalityType
  <2> QED
    BY <1>1, <2>1, <2>2, <2>3
<1>3. ASSUME NEW j \in S, NEW k \in S, <<j, k>> \in R PROVE Cardinality(Pred(j)) < Cardinality(Pred(k))
  <2>1. Pred(j) \in SUBSET Pred(k) /\ j \in Pred(k) /\ j \notin Pred(j)
    BY <1>3
  <2>2. /\ IsFiniteSet(Pred(k)) /\ Cardinality(Pred(k)) \in Nat /\ Cardinality(Pred(j)) \in Nat
    BY <1>2
  <2>3. Cardinality(Pred(j)) <= Cardinality(Pred(k)) /\ (Cardinality(Pred(k)) = Cardinality(Pred(j)) => Pred(k) = Pred(j))
    BY <2>1, <2>2, FS_Subset
  <2> QED
    BY <2>1, <2>2, <2>3
<1>4. place \in [S -> 1 .. n]
  BY <1>1, <1>2
<1>6. \A k \in S : place[k] = Cardinality(Pred(k)) + 1
  OBVIOUS
<1>7. \A k \in S : Cardinality(Pred(k)) \in Nat
  BY <1>2
<1> HIDE DEF place
<1>5. ASSUME NEW j \in S, NEW k \in S, place[j] = place[k] PROVE j = k
  <2>1. Cardinality(Pred(j)) = Cardinality(Pred(k)) /\ Cardinality(Pred(j)) \in Nat
    <3> HIDE DEF Pred
    <3> QED
      BY <1>5, <1>6, <1>7
  <2>2. ~ (Cardinality(Pred(j)) < Cardinality(Pred(k))) /\ ~ (Cardinality(Pred(k)) < Cardinality(Pred(j)))
    BY <2>1
  <2>3. ~ (<<j, k>> \in R) /\ ~ (<<k, j>> \in R)
    BY <1>3, <2>2
  <2> QED
    BY <2>3
<1>8. place \in Injection(S, 1 .. n)
  BY <1>4, <1>5 DEF Injection, IsInjective
<1>9. IsFiniteSet(1 .. n) /\ Cardinality(1 .. n) = n
  BY <1>1, FS_Interval
<1>10. place \in Surjection(S, 1 .. n)
  BY <1>8, <1>9, FS_Injection
<1>11. \A m \in 1 .. n : \E k \in S : place[k] = m
  BY <1>10 DEF Surjection
<1>12. \A m \in 1 .. n : \E k \in S : Cardinality(Pred(k)) = m - 1
  <2> SUFFICES ASSUME NEW m \in 1 .. n PROVE \E k \in S : Cardinality(Pred(k)) = m - 1
    OBVIOUS
  <2>1. PICK k \in S : place[k] = m
    BY <1>11
  <2>2. Cardinality(Pred(k)) = m - 1
    BY <1>6, <1>7, <2>1
  <2> QED
    BY <2>2
<1> DEFINE q == Ranked(S, R)
<1>18. q = [m \in 1 .. n |-> CHOOSE k \in S : Cardinality(Pred(k)) = m - 1]
  BY DEF Ranked
<1> HIDE DEF q, n, Pred
<1>13. \A m \in 1 .. n : q[m] = CHOOSE k \in S : Cardinality(Pred(k)) = m - 1
  BY <1>18
<1>14. q = [m \in 1 .. n |-> q[m]]
  BY <1>18
<1>15. \A m \in 1 .. n : q[m] \in S /\ Cardinality(Pred(q[m])) = m - 1
  BY <1>12, <1>13
<1>16. q \in [1 .. n -> S]
  BY <1>14, <1>15
<1>17. \A j, k \in 1 .. n : j < k => <<q[j], q[k]>> \in R
  <2> SUFFICES ASSUME NEW j \in 1 .. n, NEW k \in 1 .. n, j < k PROVE <<q[j], q[k]>> \in R
    OBVIOUS
  <2>1. /\ q[j] \in S /\ q[k] \in S /\ j - 1 < k - 1 /\ j \in Int /\ k \in Int
        /\ Cardinality(Pred(q[j])) = j - 1 /\ Cardinality(Pred(q[k])) = k - 1
    BY <1>1, <1>15
  <2>2. q[j] # q[k]
    BY <2>1
  <2>3. <<q[k], q[j]>> \in R => Cardinality(Pred(q[k])) < Cardinality(Pred(q[j]))
    BY <1>3, <2>1
  <2>4. ~ (<<q[k], q[j]>> \in R)
    BY <2>1, <2>3
  <2> QED
    BY <2>1, <2>2, <2>4
<1>19. \A k \in S : \E m \in 1 .. n : q[m] = k
  <2> SUFFICES ASSUME NEW k \in S PROVE \E m \in 1 .. n : q[m] = k
    OBVIOUS
  <2> DEFINE m == place[k]
  <2>1. m \in 1 .. n /\ Cardinality(Pred(k)) = m - 1
    BY <1>1, <1>4, <1>6, <1>7
  <2> HIDE DEF m
  <2>2. q[m] \in S /\ Cardinality(Pred(q[m])) = m - 1
    BY <1>15, <2>1
  <2>3. ~ (<<q[m], k>> \in R) /\ ~ (<<k, q[m]>> \in R)
    <3>1. ~ (Cardinality(Pred(q[m])) < Cardinality(Pred(k))) /\ ~ (Cardinality(Pred(k)) < Cardinality(Pred(q[m])))
      BY <1>1, <2>1, <2>2
    <3> QED
      BY <1>3, <2>2, <3>1
  <2> QED
    BY <2>1, <2>2, <2>3
<1> QED
  BY <1>1, <1>16, <1>17, <1>19 DEF q, n

LEMMA AscendingIs ==
    ASSUME NEW S \in SUBSET Int, IsFiniteSet(S)
    PROVE  /\ Cardinality(S) \in Nat
           /\ Ascending(S) \in [1 .. Cardinality(S) -> S]
           /\ \A k \in S : \E m \in 1 .. Cardinality(S) : Ascending(S)[m] = k
           /\ \A j, k \in 1 .. Cardinality(S) : j < k => Ascending(S)[j] < Ascending(S)[k]
<1> DEFINE R == {e \in S \X S : e[1] < e[2]}
<1>1. \A x, y \in S : <<x, y>> \in R <=> x < y
  OBVIOUS
<1>2. Ascending(S) = Ranked(S, R)
  BY DEF Ascending
<1> HIDE DEF R
<1>3. \A x \in S : <<x, x>> \notin R
  BY <1>1
<1>4. \A x, y, z \in S : <<x, y>> \in R /\ <<y, z>> \in R => <<x, z>> \in R
  BY <1>1
<1>5. \A x, y \in S : x # y => <<x, y>> \in R \/ <<y, x>> \in R
  BY <1>1
<1>6. /\ Cardinality(S) \in Nat
      /\ Ranked(S, R) \in [1 .. Cardinality(S) -> S]
      /\ \A k \in S : \E m \in 1 .. Cardinality(S) : Ranked(S, R)[m] = k
      /\ \A j, k \in 1 .. Cardinality(S) : j < k => <<Ranked(S, R)[j], Ranked(S, R)[k]>> \in R
  BY <1>3, <1>4, <1>5, RankedIs
<1> QED
  BY <1>1, <1>2, <1>6

\* A feed has rounds, each with a price and a time.
LEMMA FeedIs ==
    ASSUME NEW rounds \in Feeds
    PROVE  /\ Len(rounds) \in Nat \ {0} /\ DOMAIN rounds = 1 .. Len(rounds)
           /\ \A k \in 1 .. Len(rounds) : rounds[k].answer \in Int /\ rounds[k].updatedAt \in Nat
           /\ rounds \in Seq([answer: Int, updatedAt: Nat])
           /\ Latest(rounds).answer \in Int /\ Latest(rounds).updatedAt \in Nat
<1>1. PICK n \in 1 .. Chart + 1 : rounds \in [1 .. n -> [answer: Answers, updatedAt: Times]]
  BY DEF Feeds
<1>2. n \in Nat /\ n >= 1
  BY <1>1, BeaconAssumption
<1>3. \A k \in 1 .. n : rounds[k].answer \in Int /\ rounds[k].updatedAt \in Nat
                        /\ rounds[k] \in [answer: Int, updatedAt: Nat]
  <2> SUFFICES ASSUME NEW r \in [answer: Answers, updatedAt: Times]
               PROVE  r.answer \in Int /\ r.updatedAt \in Nat /\ r \in [answer: Int, updatedAt: Nat]
    BY <1>1
  <2>1. Answers \subseteq Int /\ Times \subseteq Nat
    BY BeaconAssumption
  <2> QED
    BY <2>1
<1> DEFINE Round == [answer: Int, updatedAt: Nat]
<1>4. rounds \in [1 .. n -> Round]
  BY <1>1, <1>3
<1>5. Len(rounds) = n /\ DOMAIN rounds = 1 .. n /\ n \in 1 .. n
  BY <1>1, <1>2
<1>6. rounds \in Seq([answer: Int, updatedAt: Nat])
  <2> HIDE DEF Round
  <2>1. rounds \in Seq(Round)
    BY <1>2, <1>4
  <2> QED
    BY <2>1 DEF Round
<1>7. Latest(rounds) = rounds[n] /\ n \in 1 .. n /\ n # 0
  BY <1>2, <1>5 DEF Latest
<1> QED
  BY <1>2, <1>3, <1>5, <1>6, <1>7

\* Points in the order of their times, thinned to one of each time: the times
\* rise, none is lost, and the last of them is kept if it is the first of its time.
LEMMA DistinctIs ==
    ASSUME NEW N \in Nat \ {0}, NEW points \in [1 .. N -> [time: Nat, value: Int]],
           \A j, k \in 1 .. N : j < k => points[j].time <= points[k].time
    PROVE  LET d == Distinct(points) IN
           /\ d # <<>>
           /\ Len(d) \in Nat /\ DOMAIN d = 1 .. Len(d)
           /\ \A m \in DOMAIN d : \E k \in 1 .. N : d[m] = points[k]
           /\ \A k \in 1 .. N : \E m \in DOMAIN d : d[m].time = points[k].time
           /\ \A m \in 2 .. Len(d) : d[m - 1].time < d[m].time
           /\ \A k \in 1 .. N :
                 /\ \A j \in 1 .. N : points[j].time <= points[k].time
                 /\ \A j \in 1 .. k - 1 : points[j].time < points[k].time
                 => d[Len(d)] = points[k]
<1> DEFINE D == {k \in 1 .. N : k = 1 \/ points[k].time > points[k - 1].time}
           later == Ascending(D)
           n == Cardinality(D)
           d == Distinct(points)
           t(k) == points[k].time
<1>1. DOMAIN points = 1 .. N /\ 1 \in 1 .. N /\ N \in Nat /\ \A k \in 1 .. N : t(k) \in Nat
  OBVIOUS
<1>2. IsFiniteSet(D) /\ D \in SUBSET Int
  <2>1. IsFiniteSet(1 .. N)
    BY FS_Interval
  <2>2. D \in SUBSET (1 .. N)
    OBVIOUS
  <2> QED
    BY <2>1, <2>2, FS_Subset
<1>3. d = [k \in DOMAIN later |-> points[later[k]]]
  BY <1>1 DEF Distinct
<1>4. 1 \in D /\ \A k \in D : k \in 1 .. N
  BY <1>1
<1>5. \A k \in D : \A j \in 1 .. N : j < k => t(j) < t(k)
  <2> SUFFICES ASSUME NEW k \in D, NEW j \in 1 .. N, j < k PROVE t(j) < t(k)
    OBVIOUS
  <2>1. k \in 1 .. N /\ k # 1 /\ t(k) > t(k - 1) /\ k - 1 \in 1 .. N /\ j <= k - 1
    OBVIOUS
  <2>2. t(j) <= t(k - 1)
    BY <2>1
  <2>3. t(j) \in Nat /\ t(k) \in Nat /\ t(k - 1) \in Nat
    BY <1>1, <2>1
  <2> HIDE DEF t, D
  <2> QED
    BY <2>1, <2>2, <2>3
<1>6. \A k \in 1 .. N : \E j \in D : t(j) = t(k)
  <2> SUFFICES ASSUME NEW k \in 1 .. N PROVE \E j \in D : t(j) = t(k)
    OBVIOUS
  <2> DEFINE Same == {j \in 1 .. N : t(j) = t(k)}
  <2>1. Same \in SUBSET Nat /\ Same # {}
    <3>1. k \in Same /\ Same \in SUBSET (1 .. N)
      OBVIOUS
    <3>2. 1 .. N \in SUBSET Nat
      OBVIOUS
    <3> HIDE DEF Same
    <3> QED
      BY <3>1, <3>2
  <2>2. PICK j \in Same : \A i \in Same : j <= i
    <3> HIDE DEF Same
    <3>1. PICK j \in Same : \A i \in Same : ~ (<<i, j>> \in OpToRel(<, Nat))
      BY <2>1, NatLessThanWellFounded, WFMin
    <3>2. \A i \in Same : i \in Nat /\ j \in Nat /\ ~ (i < j)
      BY <2>1, <3>1 DEF OpToRel
    <3> QED
      BY <3>2
  <2>3. j \in 1 .. N /\ t(j) = t(k)
    OBVIOUS
  <2>4. j = 1 \/ t(j) > t(j - 1)
    <3> SUFFICES ASSUME j # 1 PROVE t(j) > t(j - 1)
      OBVIOUS
    <3>1. j - 1 \in 1 .. N /\ j - 1 < j
      BY <2>3
    <3>2. t(j - 1) <= t(j) /\ j - 1 \notin Same
      BY <2>2, <2>3, <3>1
    <3>3. t(j - 1) # t(j)
      BY <2>3, <3>1, <3>2
    <3>4. t(j - 1) \in Nat /\ t(j) \in Nat
      BY <1>1, <2>3, <3>1
    <3> HIDE DEF t, Same
    <3> QED
      BY <3>2, <3>3, <3>4
  <2>5. j \in D
    BY <2>3, <2>4
  <2> QED
    BY <2>3, <2>5
<1>7. \A k \in 1 .. N : (\A j \in 1 .. k - 1 : t(j) < t(k)) => k \in D
  <2> SUFFICES ASSUME NEW k \in 1 .. N, \A j \in 1 .. k - 1 : t(j) < t(k), k # 1 PROVE t(k) > t(k - 1)
    OBVIOUS
  <2>1. k - 1 \in 1 .. k - 1 /\ k - 1 \in 1 .. N
    OBVIOUS
  <2> QED
    BY <1>1, <2>1
<1> HIDE DEF D
<1>8. /\ n \in Nat /\ later \in [1 .. n -> D]
      /\ \A k \in D : \E m \in 1 .. n : later[m] = k
      /\ \A j, k \in 1 .. n : j < k => later[j] < later[k]
  BY <1>2, AscendingIs
<1> HIDE DEF n, later, d
<1>9. DOMAIN d = 1 .. n /\ Len(d) = n /\ \A m \in 1 .. n : d[m] = points[later[m]] /\ later[m] \in D /\ later[m] \in 1 .. N
  BY <1>3, <1>4, <1>8
<1>10. n > 0 /\ d # <<>>
  BY <1>4, <1>8, <1>9
<1>11. \A m \in DOMAIN d : \E k \in 1 .. N : d[m] = points[k]
  BY <1>9
<1>12. \A k \in 1 .. N : \E m \in DOMAIN d : d[m].time = points[k].time
  <2> SUFFICES ASSUME NEW k \in 1 .. N PROVE \E m \in DOMAIN d : d[m].time = t(k)
    OBVIOUS
  <2>1. PICK j \in D : t(j) = t(k)
    BY <1>6
  <2>2. PICK m \in 1 .. n : later[m] = j
    BY <1>8
  <2>3. m \in DOMAIN d /\ d[m] = points[j]
    BY <1>9, <2>2
  <2> QED
    BY <2>1, <2>3
<1>13. \A m \in 2 .. Len(d) : d[m - 1].time < d[m].time
  <2> SUFFICES ASSUME NEW m \in 2 .. n PROVE d[m - 1].time < d[m].time
    BY <1>9
  <2>1. m \in 1 .. n /\ m - 1 \in 1 .. n /\ m - 1 < m
    BY <1>8
  <2>2. later[m - 1] < later[m] /\ later[m] \in D /\ later[m - 1] \in 1 .. N
    BY <1>8, <1>9, <2>1
  <2> QED
    BY <1>5, <1>9, <2>1, <2>2
<1>14. ASSUME NEW k \in 1 .. N, \A j \in 1 .. N : t(j) <= t(k), \A j \in 1 .. k - 1 : t(j) < t(k)
       PROVE  d[Len(d)] = points[k]
  <2>1. k \in D
    BY <1>7, <1>14
  <2>2. PICK m \in 1 .. n : later[m] = k
    BY <1>8, <2>1
  <2>3. n \in 1 .. n
    BY <1>8, <1>10
  <2>4. ~ (m < n)
    <3> SUFFICES ASSUME m < n PROVE FALSE
      OBVIOUS
    <3>1. k < later[n] /\ later[n] \in D /\ later[n] \in 1 .. N
      BY <1>8, <1>9, <2>2, <2>3
    <3>2. t(k) < t(later[n]) /\ t(later[n]) <= t(k)
      BY <1>5, <1>14, <3>1
    <3>3. t(k) \in Nat /\ t(later[n]) \in Nat
      BY <1>1, <3>1
    <3> HIDE DEF t
    <3> QED
      BY <3>2, <3>3
  <2>5. m = n
    BY <1>8, <2>4
  <2> QED
    BY <1>9, <2>2, <2>3, <2>5
<1> QED
  BY <1>8, <1>9, <1>10, <1>11, <1>12, <1>13, <1>14 DEF d

\* The chart shows rounds of the feed only, in rising time, each it asked for
\* and, of a feed in order, the price beside it last (oracle.ts:78-148).
LEMMA ChartHolds == \A rounds \in Feeds, now \in Times : ChartIsGenuine(rounds, now)
<1> SUFFICES ASSUME NEW rounds \in Feeds, NEW now \in Times, Latest(rounds).answer > 0
             PROVE  ChartIsGenuine(rounds, now)
  <2> SUFFICES ASSUME NEW rounds \in Feeds, NEW now \in Times PROVE ChartIsGenuine(rounds, now)
    OBVIOUS
  <2>1. CASE Latest(rounds).answer > 0
    BY <2>1
  <2>2. CASE ~ (Latest(rounds).answer > 0)
    <3>1. Latest(rounds).answer <= 0
      BY <2>2, FeedIs
    <3>2. oraclePriceUsd(rounds, FeedUnit, now) = Reverts
      BY <3>1 DEF oraclePriceUsd
    <3>3. Shown(oraclePriceUsd(rounds, FeedUnit, now), oraclePriceHistory(rounds)).spot = Reverts
      BY <3>2 DEF Shown
    <3> QED
      BY <3>3 DEF ChartIsGenuine
  <2> QED
    BY <2>1, <2>2
<1> DEFINE n == Len(rounds)
           back(k) == rounds[n - k]
           read == {0} \cup {k \in 1 .. Min({Chart, n}) - 1 : Genuine(back(k))}
           R == {e \in read \X read :
                   \/ back(e[1]).updatedAt < back(e[2]).updatedAt
                   \/ back(e[1]).updatedAt = back(e[2]).updatedAt /\ e[1] < e[2]}
           order == Ranked(read, R)
           N == Cardinality(read)
           points == [k \in DOMAIN order |-> Point(back(order[k]))]
           d == Distinct(points)
           w(k) == back(k).updatedAt
           first == Max({1, n - Chart + 1})
           asked == {r \in Range(SubSeq(rounds, first, n)) : Genuine(r)}
<1>1. /\ n \in Nat \ {0} /\ DOMAIN rounds = 1 .. n
      /\ \A k \in 1 .. n : rounds[k].answer \in Int /\ rounds[k].updatedAt \in Nat
      /\ rounds \in Seq([answer: Int, updatedAt: Nat])
  BY FeedIs
<1>2. oraclePriceHistory(rounds) = d
  <2>1. ~ (Latest(rounds).answer <= 0)
    BY FeedIs
  <2> QED
    BY <2>1 DEF oraclePriceHistory
<1>3. oraclePriceUsd(rounds, FeedUnit, now) # Reverts
  <2>1. ~ (Latest(rounds).answer <= 0)
    BY FeedIs
  <2> QED
    BY <2>1 DEF oraclePriceUsd, Reverts
<1>4. Min({Chart, n}) \in Nat /\ Min({Chart, n}) <= n /\ Min({Chart, n}) <= Chart
      /\ (Min({Chart, n}) = Chart \/ Min({Chart, n}) = n)
  <2>1. Chart \in Nat
    BY BeaconAssumption
  <2>2. PICK x \in {Chart, n} : \A y \in {Chart, n} : x <= y
    BY <1>1, <2>1
  <2>3. Min({Chart, n}) \in {Chart, n} /\ \A y \in {Chart, n} : Min({Chart, n}) <= y
    BY <2>2 DEF Min
  <2> QED
    BY <1>1, <2>1, <2>3
<1>5. first \in Nat /\ first >= 1 /\ first >= n - Chart + 1 /\ first <= n
  <2>1. Chart \in Nat \ {0}
    BY BeaconAssumption
  <2>2. PICK x \in {1, n - Chart + 1} : \A y \in {1, n - Chart + 1} : x >= y
    BY <1>1, <2>1
  <2>3. first \in {1, n - Chart + 1} /\ \A y \in {1, n - Chart + 1} : first >= y
    BY <2>2 DEF Max
  <2> HIDE DEF first
  <2> QED
    BY <1>1, <2>1, <2>3
<1>6. /\ 0 \in read /\ \A k \in read : k \in Nat /\ n - k \in 1 .. n
      /\ \A k \in 1 .. n : k < Min({Chart, n}) /\ Genuine(back(k)) => k \in read
  <2> DEFINE c == Min({Chart, n})
  <2>1. c \in Nat /\ c <= n
    BY <1>4
  <2> HIDE DEF c
  <2>2. read = {0} \cup {k \in 1 .. c - 1 : Genuine(back(k))}
    BY DEF c
  <2> HIDE DEF read, back
  <2>3. \A k \in 1 .. n : k < c <=> k \in 1 .. c - 1
    BY <1>1, <2>1
  <2>4. \A k \in {0} \cup 1 .. c - 1 : k \in Nat /\ n - k \in 1 .. n
    BY <1>1, <2>1
  <2>5. \A k \in read : k \in {0} \cup 1 .. c - 1
    BY <2>2
  <2> QED
    BY <2>2, <2>3, <2>4, <2>5 DEF c
<1>7. IsFiniteSet(read)
  <2>1. IsFiniteSet(0 .. n)
    BY <1>1, FS_Interval
  <2>2. read \in SUBSET (0 .. n)
    BY <1>1, <1>4
  <2> QED
    BY <2>1, <2>2, FS_Subset
<1>8. \A k \in read : w(k) \in Nat /\ k \in Nat
  BY <1>1, <1>6
<1>9. \A j, k \in read : <<j, k>> \in R <=> (w(j) < w(k) \/ (w(j) = w(k) /\ j < k))
  <2>1. R = {e \in read \X read : w(e[1]) < w(e[2]) \/ (w(e[1]) = w(e[2]) /\ e[1] < e[2])}
    OBVIOUS
  <2> HIDE DEF R, w, read
  <2> QED
    BY <2>1
<1>23. w(0) = Latest(rounds).updatedAt /\ back(0) = Latest(rounds)
  BY <1>1 DEF Latest
<1>10. /\ N \in Nat /\ order \in [1 .. N -> read]
       /\ \A k \in read : \E m \in 1 .. N : order[m] = k
       /\ \A j, k \in 1 .. N : j < k => <<order[j], order[k]>> \in R
  <2> HIDE DEF read, R, w
  <2>1. \A x \in read : <<x, x>> \notin R
    BY <1>8, <1>9
  <2>2. \A x, y, z \in read : <<x, y>> \in R /\ <<y, z>> \in R => <<x, z>> \in R
    BY <1>8, <1>9
  <2>3. \A x, y \in read : x # y => <<x, y>> \in R \/ <<y, x>> \in R
    BY <1>8, <1>9
  <2> QED
    BY <1>7, <2>1, <2>2, <2>3, RankedIs
<1>11. \A k \in read : Point(back(k)).time = w(k) /\ Point(back(k)) \in [time: Nat, value: Int]
  <2> SUFFICES ASSUME NEW k \in read PROVE Point(back(k)).time = w(k) /\ Point(back(k)) \in [time: Nat, value: Int]
    OBVIOUS
  <2>1. n - k \in 1 .. n
    BY <1>6
  <2>2. back(k).answer \in Int /\ back(k).updatedAt \in Nat
    BY <1>1, <2>1
  <2>3. Normalised(back(k).answer, FeedUnit) \in Int
    <3> DEFINE num == back(k).answer * One
    <3>1. num \in Int /\ FeedUnit \in Nat \ {0}
      BY <2>2, BeaconAssumption
    <3> HIDE DEF num
    <3>2. num \div FeedUnit \in Int
      BY <3>1
    <3> QED
      BY <3>2 DEF Normalised, num
  <2> HIDE DEF back
  <2> QED
    BY <2>2, <2>3 DEF Point, w
<1> HIDE DEF order, N
<1>12. /\ points \in [1 .. N -> [time: Nat, value: Int]]
       /\ \A k \in 1 .. N : points[k].time = w(order[k]) /\ points[k] = Point(back(order[k])) /\ order[k] \in read
  <2> HIDE DEF read, w, back
  <2> QED
    BY <1>10, <1>11
<1>13. N \in Nat \ {0}
  BY <1>6, <1>10
<1> HIDE DEF points, R
<1>14. \A j, k \in 1 .. N : j < k => points[j].time <= points[k].time
  <2> HIDE DEF read, w, back
  <2> SUFFICES ASSUME NEW j \in 1 .. N, NEW k \in 1 .. N, j < k PROVE points[j].time <= points[k].time
    OBVIOUS
  <2>1. <<order[j], order[k]>> \in R /\ order[j] \in read /\ order[k] \in read
    BY <1>10, <1>12
  <2>2. w(order[j]) <= w(order[k])
    BY <1>8, <1>9, <2>1
  <2> QED
    BY <1>12, <2>2
<1>15. /\ d # <<>>
       /\ Len(d) \in Nat /\ DOMAIN d = 1 .. Len(d)
       /\ \A m \in DOMAIN d : \E k \in 1 .. N : d[m] = points[k]
       /\ \A k \in 1 .. N : \E m \in DOMAIN d : d[m].time = points[k].time
       /\ \A m \in 2 .. Len(d) : d[m - 1].time < d[m].time
       /\ \A k \in 1 .. N :
             /\ \A j \in 1 .. N : points[j].time <= points[k].time
             /\ \A j \in 1 .. k - 1 : points[j].time < points[k].time
             => d[Len(d)] = points[k]
  <2>1. points \in [1 .. N -> [time: Nat, value: Int]]
    BY <1>12
  <2> HIDE DEF read, w, back
  <2>2. LET e == Distinct(points) IN
        /\ e # <<>>
        /\ Len(e) \in Nat /\ DOMAIN e = 1 .. Len(e)
        /\ \A m \in DOMAIN e : \E k \in 1 .. N : e[m] = points[k]
        /\ \A k \in 1 .. N : \E m \in DOMAIN e : e[m].time = points[k].time
        /\ \A m \in 2 .. Len(e) : e[m - 1].time < e[m].time
        /\ \A k \in 1 .. N :
              /\ \A j \in 1 .. N : points[j].time <= points[k].time
              /\ \A j \in 1 .. k - 1 : points[j].time < points[k].time
              => e[Len(e)] = points[k]
    BY ONLY <1>13, <1>14, <2>1, DistinctIs
  <2> QED
    BY <2>2
<1> HIDE DEF d
<1>16. Shown(oraclePriceUsd(rounds, FeedUnit, now), oraclePriceHistory(rounds)).history = d
  BY <1>2, <1>3, <1>15 DEF Shown
<1>17. Range(d) \subseteq {Point(r) : r \in Range(rounds)}
  <2> SUFFICES ASSUME NEW m \in DOMAIN d PROVE \E i \in DOMAIN rounds : d[m] = Point(rounds[i])
    BY DEF Range
  <2>1. PICK k \in 1 .. N : d[m] = points[k]
    BY <1>15
  <2>2. order[k] \in read /\ d[m] = Point(rounds[n - order[k]])
    BY <1>12, <2>1
  <2>3. n - order[k] \in DOMAIN rounds
    BY <1>1, <1>6, <2>2
  <2> QED
    BY <2>2, <2>3
<1>18. \A k \in read : \E m \in DOMAIN d : d[m].time = w(k)
  <2> SUFFICES ASSUME NEW k \in read PROVE \E m \in DOMAIN d : d[m].time = w(k)
    OBVIOUS
  <2>1. PICK i \in 1 .. N : order[i] = k
    BY <1>10
  <2> HIDE DEF w
  <2>2. points[i].time = w(k)
    BY <1>12, <2>1
  <2> QED
    BY <1>15, <2>2
<1>19. {r.updatedAt : r \in asked} \subseteq {e.time : e \in Range(d)}
  <2> SUFFICES ASSUME NEW r \in asked PROVE \E m \in DOMAIN d : r.updatedAt = d[m].time
    BY DEF Range
  <2> DEFINE q == SubSeq(rounds, first, n)
  <2>1. PICK j \in DOMAIN q : r = q[j]
    BY DEF Range
  <2>2. first \in 1 .. n + 1 /\ n \in first - 1 .. n
    BY <1>1, <1>5
  <2>3. DOMAIN q = 1 .. (n - first + 1) /\ \A i \in 1 .. (n - first + 1) : q[i] = rounds[first + i - 1]
    <3> HIDE DEF first
    <3>1. \A i \in first .. n : rounds[i] \in [answer: Int, updatedAt: Nat]
      <4> DEFINE Round == [answer: Int, updatedAt: Nat]
      <4>1. rounds \in Seq(Round)
        BY <1>1
      <4> HIDE DEF Round
      <4>2. \A i \in 1 .. n : rounds[i] \in Round
        BY <1>1, <4>1
      <4>3. \A i \in first .. n : i \in 1 .. n
        BY <1>1, <1>5
      <4> QED
        BY <4>2, <4>3 DEF Round
    <3>2. first \in Int /\ n \in Int /\ first <= n
      BY <1>1, <1>5
    <3>3. q \in Seq([answer: Int, updatedAt: Nat]) /\ Len(q) = n - first + 1
          /\ \A i \in 1 .. n - first + 1 : q[i] = rounds[first + i - 1]
      BY <3>1, <3>2, SubSeqProperties
    <3> HIDE DEF q
    <3> QED
      BY <3>3
  <2>4. j \in 1 .. (n - first + 1) /\ r = rounds[first + j - 1] /\ Genuine(r)
    BY <2>1, <2>3
  <2> DEFINE k == n - (first + j - 1)
  <2>5. k \in Nat /\ k < Chart /\ k < n /\ back(k) = r
    <3> HIDE DEF first, q, n
    <3>1. Chart \in Nat /\ j \in Nat /\ j >= 1 /\ j <= n - first + 1
      BY <1>1, <1>5, <2>4, BeaconAssumption
    <3>2. n \in Int /\ first \in Int /\ Chart \in Int /\ j \in Int /\ first >= 1 /\ first >= n - Chart + 1
      BY <1>1, <1>5, <3>1
    <3>3. k \in Nat /\ k < Chart /\ k < n /\ n - k = first + j - 1
      BY ONLY <3>1, <3>2
    <3> QED
      BY <2>4, <3>3
  <2> HIDE DEF k, q, first
  <2>6. k \in read
    <3>1. CASE k = 0
      BY <1>6, <3>1
    <3>2. CASE k # 0
      <4>1. k < Min({Chart, n}) /\ k \in 1 .. n
        BY <1>1, <1>4, <2>5, <3>2
      <4> QED
        BY <1>6, <2>4, <2>5, <4>1
    <3> QED
      BY <3>1, <3>2
  <2> QED
    BY <1>18, <2>5, <2>6
<1>20. ASSUME InOrder(rounds) PROVE d[Len(d)] = Point(Latest(rounds))
  <2>1. PICK m \in 1 .. N : order[m] = 0
    BY <1>6, <1>10
  <2>2. \A k \in read : w(k) <= w(0)
    <3> SUFFICES ASSUME NEW k \in read PROVE rounds[n - k].updatedAt <= rounds[n - 0].updatedAt
      OBVIOUS
    <3>1. n - k \in DOMAIN rounds /\ n - 0 \in DOMAIN rounds /\ (n - k < n - 0 \/ k = 0)
      <4>1. k \in Nat /\ n - k \in 1 .. n /\ n - 0 \in 1 .. n
        BY <1>6
      <4> QED
        BY <1>1, <4>1
    <3>2. CASE n - k < n - 0
      BY <1>20, <3>1, <3>2 DEF InOrder
    <3>3. CASE k = 0
      BY <1>8, <3>3
    <3> QED
      BY <3>1, <3>2, <3>3
  <2>3. \A j \in 1 .. N : points[j].time <= points[m].time
    <3> HIDE DEF w, read
    <3> QED
      BY <1>12, <2>1, <2>2
  <2>4. \A j \in 1 .. m - 1 : points[j].time < points[m].time
    <3> SUFFICES ASSUME NEW j \in 1 .. m - 1 PROVE points[j].time < points[m].time
      OBVIOUS
    <3> HIDE DEF w, read
    <3>1. j \in 1 .. N /\ j < m
      BY <1>13
    <3>2. <<order[j], 0>> \in R /\ order[j] \in read /\ 0 \in read
      BY <1>6, <1>10, <1>12, <2>1, <3>1
    <3>3. w(order[j]) < w(0) \/ (w(order[j]) = w(0) /\ order[j] < 0)
      BY <1>9, <3>2
    <3>4. w(order[j]) < w(0)
      BY <1>8, <3>2, <3>3
    <3> QED
      BY <1>12, <2>1, <3>1, <3>4
  <2>5. d[Len(d)] = points[m]
    BY <1>15, <2>3, <2>4
  <2> QED
    BY <1>12, <1>23, <2>1, <2>5
<1>21. Shown(oraclePriceUsd(rounds, FeedUnit, now), oraclePriceHistory(rounds)).spot # Reverts =>
         /\ \A k \in 2 .. Len(d) : d[k - 1].time < d[k].time
         /\ Range(d) \subseteq {Point(r) : r \in Range(rounds)}
         /\ {r.updatedAt : r \in asked} \subseteq {e.time : e \in Range(d)}
         /\ InOrder(rounds) => d[Len(d)] = Point(Latest(rounds))
  BY <1>15, <1>17, <1>19, <1>20
<1> HIDE DEF asked
<1>22. asked = {r \in Range(SubSeq(rounds, Max({1, Len(rounds) - Chart + 1}), Len(rounds))) : Genuine(r)}
  BY DEF asked, n, first
<1> QED
  BY <1>16, <1>21, <1>22 DEF ChartIsGenuine

-----------------------------------------------------------------------------
\* In every state of the route and the book around it: publications are typed
\* and within the instruction's room, the combined ratio is declared however it
\* rounds, a refusal the book reports is the contract's, the page previews what
\* the route declares, an oracle strategy is paid its spread, capped or not, a
\* price called fresh is the one it settles at, and the chart shows every round
\* it asked for and no other.
THEOREM PublishesSoundly == PSpec => []DeclarationInv
  <1>1. FeedsAreShown
    BY FreshHolds, ChartHolds DEF FeedsAreShown
  <1>2. PInv => DeclarationInv
    BY <1>1, PublishTyped, RatiosHold, RefusalsHold, PreviewsHold, SpreadHolds DEF DeclarationInv
  <1> QED BY <1>2, Publishes, PTL
=============================================================================
