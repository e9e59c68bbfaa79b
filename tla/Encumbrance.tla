---------------------------- MODULE Encumbrance ----------------------------
(***************************************************************************)
(* One maker's book of strategies over one wallet, and opcode 35           *)
(* (_encumberedCap), the instruction by which a strategy refuses to be     *)
(* filled out of what its siblings have been promised.                     *)
(*                                                                         *)
(* A strategy's hash commits to its program, so program never changes:     *)
(* the declared total and the sibling list are a snapshot taken when the   *)
(* strategy was written, while fills in both directions, docking, and      *)
(* the maker's own transfers go on moving what they describe.  Pricing     *)
(* (the instructions before opcode 35) is any amount; Aqua and the ERC-20  *)
(* tokens are external and modelled from how the contracts call them.      *)
(***************************************************************************)
EXTENDS Integers, Sequences

CONSTANTS
    Strategies,   \* strategy hashes of the maker
    Tokens,       \* the two tokens every strategy quotes
    ProgramsOf,   \* the programs a strategy may carry, per strategy
    Amounts,      \* amounts of a token a step may move
    MaxHeld       \* bound on the wallet and on a book, per token

VARIABLES
    program,      \* what each strategy hash commits to
    wallet,       \* balanceOf(maker), per token
    allowance,    \* allowance(maker, Aqua), per token
    virtual,      \* Aqua's balance per strategy and token
    tokensCount   \* Aqua's marker per strategy

vars == <<program, wallet, allowance, virtual, tokensCount>>

NeverShipped == 0
Shipped == 2
Docked == 255

MaxInstructionSiblings == 6
Bps == 10000
BpsSquared == 100000000

Uint16 == 0 .. 65535

Program ==
    [capped: BOOLEAN,               \* does it contain opcode 35
     app: {"BoneDryRouter", "AnotherApp"},
     declared: Nat,
     siblings: Seq(Strategies),
     maxUtilBps: Uint16,
     widenBps: Uint16]

ASSUME BookAssumption ==
    /\ MaxHeld \in Nat
    /\ Amounts \subseteq 0 .. MaxHeld
    /\ 0 \in Amounts
    /\ ProgramsOf \in [Strategies -> SUBSET Program]
    /\ \A s \in Strategies : \A p \in ProgramsOf[s] :
          Len(p.siblings) <= MaxInstructionSiblings   \* parse refuses more

\* A taker's order as it reaches opcode 35: one side given, the other priced.
Order == {o \in [tokenIn: Tokens, tokenOut: Tokens, isExactIn: BOOLEAN,
                 amountIn: Amounts \ {0}, amountOut: Amounts] :
             o.tokenIn # o.tokenOut}

IsLive(s) == tokensCount[s] = Shipped
Backing(t) == IF wallet[t] <= allowance[t] THEN wallet[t] ELSE allowance[t]

(***************************************************************************)
(* What the instruction reads of slot i of the sibling list: nothing past  *)
(* the end, for the strategy itself, or for a docked strategy; and the     *)
(* book is read under address(this), so nothing of another app.            *)
(***************************************************************************)
Counts(s, i) ==
    /\ i <= Len(program[s].siblings)
    /\ program[s].siblings[i] # s
    /\ program[program[s].siblings[i]].app = program[s].app
    /\ tokensCount[program[s].siblings[i]] # Docked

Slot(s, t, i) == IF Counts(s, i) THEN virtual[program[s].siblings[i]][t] ELSE 0

Sampled(s, t) == Slot(s, t, 1) + Slot(s, t, 2) + Slot(s, t, 3)
                     + Slot(s, t, 4) + Slot(s, t, 5) + Slot(s, t, 6)

-----------------------------------------------------------------------------
(***************************************************************************)
(* The curve and the floor, for a program p, an order o and a backing b.   *)
(***************************************************************************)
Util_Inverted(p, b) == (b * Bps) \div (p.declared + 1)   \* the quotient upside down (fault)
Util(p, b) == (p.declared * Bps) \div b

Haircut(p, o, b) == (o.amountOut * (p.widenBps * Util(p, b))) \div BpsSquared

\* Rounded up.
Penalty(p, o, b) ==
    (o.amountIn * (p.widenBps * Util(p, b)) + BpsSquared - 1) \div BpsSquared

Widened(p, o, b) ==
    IF o.isExactIn THEN [o EXCEPT !.amountOut = @ - Haircut(p, o, b)]
                   ELSE [o EXCEPT !.amountIn = @ + Penalty(p, o, b)]

Free_Whole(p, b) == b            \* forgets what is declared (fault)
Free(p, b) == IF b > p.declared THEN b - p.declared ELSE 0

\* The haircut subtracted in unchecked arithmetic (fault).
Admits_Unchecked(p, o, b) ==
    /\ b # 0
    /\ Util(p, b) < p.maxUtilBps
    /\ Widened(p, o, b).amountOut <= Free(p, b)

\* The haircut is subtracted in checked arithmetic: a widenBps above 100% can
\* exceed the whole output and the instruction reverts.
Admits(p, o, b) ==
    /\ b # 0
    /\ Util(p, b) < p.maxUtilBps
    /\ o.isExactIn => Haircut(p, o, b) <= o.amountOut
    /\ Widened(p, o, b).amountOut <= Free(p, b)

\* Takes the maker's word for the declared total (fault).
DeclaresEnough_Trusted(s, t) == TRUE
DeclaresEnough(s, t) == program[s].declared >= Sampled(s, t)

(***************************************************************************)
(* What the strategy's program makes of an order in this state.            *)
(***************************************************************************)
Accepts(s, o) ==
    program[s].capped =>
        /\ DeclaresEnough(s, o.tokenOut)
        /\ Admits(program[s], o, Backing(o.tokenOut))

Executed(s, o) ==
    IF program[s].capped THEN Widened(program[s], o, Backing(o.tokenOut)) ELSE o

-----------------------------------------------------------------------------
Init ==
    /\ program \in {f \in [Strategies -> UNION {ProgramsOf[s] : s \in Strategies}] :
                       \A s \in Strategies : f[s] \in ProgramsOf[s]}
    /\ wallet = [t \in Tokens |-> 0]
    /\ allowance = [t \in Tokens |-> 0]
    /\ virtual = [s \in Strategies |-> [t \in Tokens |-> 0]]
    /\ tokensCount = [s \in Strategies |-> NeverShipped]

\* Aqua.ship: a hash ships once; what is promised need not be there.
Ship(s) ==
    /\ tokensCount[s] = NeverShipped
    /\ \E promised \in [Tokens -> Amounts] :
          virtual' = [virtual EXCEPT ![s] = promised]
    /\ tokensCount' = [tokensCount EXCEPT ![s] = Shipped]
    /\ UNCHANGED <<program, wallet, allowance>>

Dock(s) ==
    /\ IsLive(s)
    /\ virtual' = [virtual EXCEPT ![s] = [t \in Tokens |-> 0]]
    /\ tokensCount' = [tokensCount EXCEPT ![s] = Docked]
    /\ UNCHANGED <<program, wallet, allowance>>

\* One fill: the program runs, Aqua pulls the output from the wallet and the
\* input is pushed to it.  A refusal reverts and leaves no trace.
Fill(s, o) ==
    LET x == Executed(s, o) IN
    /\ IsLive(s)
    /\ Accepts(s, o)
    /\ x.amountOut <= virtual[s][o.tokenOut]
    /\ x.amountOut <= Backing(o.tokenOut)
    /\ wallet[o.tokenIn] + x.amountIn <= MaxHeld
    /\ virtual[s][o.tokenIn] + x.amountIn <= MaxHeld
    /\ wallet' = [wallet EXCEPT ![o.tokenOut] = @ - x.amountOut,
                                ![o.tokenIn] = @ + x.amountIn]
    /\ allowance' = [allowance EXCEPT ![o.tokenOut] = @ - x.amountOut]
    /\ virtual' = [virtual EXCEPT ![s][o.tokenOut] = @ - x.amountOut,
                                  ![s][o.tokenIn] = @ + x.amountIn]
    /\ UNCHANGED <<program, tokensCount>>

\* The maker spends, receives, or re-approves outside Aqua.
MakerMoves(t) ==
    /\ wallet' \in {[wallet EXCEPT ![t] = a] : a \in Amounts}
    /\ UNCHANGED <<program, allowance, virtual, tokensCount>>

MakerApproves(t) ==
    /\ allowance' \in {[allowance EXCEPT ![t] = a] : a \in Amounts}
    /\ UNCHANGED <<program, wallet, virtual, tokensCount>>

Next ==
    \/ \E s \in Strategies : Ship(s) \/ Dock(s)
    \/ \E s \in Strategies, o \in Order : Fill(s, o)
    \/ \E t \in Tokens : MakerMoves(t) \/ MakerApproves(t)

Spec == Init /\ [][Next]_vars

-----------------------------------------------------------------------------
(***************************************************************************)
(* No balance goes below zero or wraps through fills that subtract an      *)
(* adjusted amount from wallet, allowance and book at once.                *)
(***************************************************************************)
TypeOK ==
    /\ program \in [Strategies -> Program]
    /\ \A s \in Strategies : program[s] \in ProgramsOf[s]
    /\ wallet \in [Tokens -> 0 .. MaxHeld]
    /\ allowance \in [Tokens -> 0 .. MaxHeld]
    /\ virtual \in [Strategies -> [Tokens -> 0 .. MaxHeld]]
    /\ tokensCount \in [Strategies -> {NeverShipped, Shipped, Docked}]

\* A live book lost t in this step: only a fill does that.
PaysOut(s, t) == IsLive(s) /\ IsLive(s)' /\ virtual'[s][t] < virtual[s][t]

(***************************************************************************)
(* The promise of opcode 35, across stale declarations and siblings that   *)
(* grew by fills in the other direction: after a fill the wallet still     *)
(* covers everything the sampled siblings are promised, together.          *)
(***************************************************************************)
SiblingsStayCovered ==
    [][\A s \in Strategies, t \in Tokens :
          program[s].capped /\ PaysOut(s, t) => Sampled(s, t)' <= Backing(t)']_vars

(***************************************************************************)
(* No fill happens while the real obligations of the sampled siblings are  *)
(* at or above maxUtilBps of the wallet, whatever the maker declared and   *)
(* however the quotient rounds.                                            *)
(***************************************************************************)
NoFillAtMaxUtil ==
    [][\A s \in Strategies, t \in Tokens :
          program[s].capped /\ PaysOut(s, t)
             => Sampled(s, t) * Bps < program[s].maxUtilBps * Backing(t)]_vars

(***************************************************************************)
(* The curve is monotone: an order that is filled at some backing gets     *)
(* terms no worse for the taker at any larger one, and the only refusal a  *)
(* larger backing can bring is the floor's (a narrower haircut asks for    *)
(* more output).  Rounding, refusal and haircut must move the same way.    *)
(***************************************************************************)
MoreBackingNeverWorse ==
    \A s \in Strategies, o \in Order :
       \A b \in {Backing(t) : t \in Tokens}, more \in Amounts :
          LET p == program[s] IN
          p.capped /\ b <= more /\ Admits(p, o, b)
             => /\ Widened(p, o, more).amountOut >= Widened(p, o, b).amountOut
                /\ Widened(p, o, more).amountIn <= Widened(p, o, b).amountIn
                /\ \/ Admits(p, o, more)
                   \/ Widened(p, o, more).amountOut > Free(p, more)

(***************************************************************************)
(* No book is ever overdrawn by an adjusted amount, and a larger wallet    *)
(* never worsens the terms of an order (Encumbrance.sol:193-249).          *)
(***************************************************************************)
EncumbranceInv == TypeOK /\ MoreBackingNeverWorse
=============================================================================
