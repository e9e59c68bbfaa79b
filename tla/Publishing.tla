----------------------------- MODULE Publishing -----------------------------
(***************************************************************************)
(* POST /api/strategy composed with the book of Encumbrance: counting what *)
(* a maker has already promised, writing it into opcode 35 as a            *)
(* declaration nobody can change, and the maker's own signature, later.    *)
(*                                                                         *)
(* The route reads an index, then the chain, then perhaps every chain, and *)
(* answers with unsigned calldata.  Between any two of those the maker may *)
(* fill, dock, ship, publish from another tab or move money, and the index *)
(* follows when it can.  What a chain does not answer reads as zero.       *)
(***************************************************************************)
EXTENDS Encumbrance, FiniteSetsExt, SequencesExt

CONSTANTS
    TokenOut,       \* the token every publication is sized in
    Pubs,           \* requests
    Terms,          \* maxUtilBps and widenBps a maker may ask for
    Promises,       \* amounts a strategy may promise, per token
    Opening,        \* what the wallet holds of each token to begin with
    MaxListed,      \* siblings an instruction has room for; 6 in the code
    MaxMoves        \* bound on the steps of makers, takers and indexers

VARIABLES
    subgraph,       \* does this chain have a subgraph?
    indexed,        \* strategies the index of this chain lists as active
    pubs,
    moves

book == <<program, wallet, allowance, virtual, tokensCount>>
pvars == <<book, subgraph, indexed, pubs, moves>>

Here == "BoneDryRouter"
Uncapped(where) == [capped |-> FALSE, app |-> where, declared |-> 0, siblings |-> <<>>,
                    maxUtilBps |-> 0, widenBps |-> 0]
Nothing == [promised |-> 0, backing |-> 0]
NoPub == [pc |-> "none", s |-> CHOOSE s \in Strategies : TRUE, terms |-> CHOOSE x \in Terms : TRUE,
          siblings |-> {}, declared |-> 0, quiet |-> FALSE]
PubState == {"none", "list", "count", "cross", "built", "signed"}

ASSUME PublishAssumption ==
    /\ Strategies # {} /\ TokenOut \in Tokens /\ Promises \subseteq [Tokens -> 0 .. MaxHeld]
    /\ Terms \subseteq [maxUtilBps: 0 .. Bps, widenBps: Uint16] /\ Terms # {}
    /\ Opening \in 0 .. MaxHeld /\ MaxListed \in 0 .. MaxInstructionSiblings /\ MaxMoves \in Nat

Live == {s \in Strategies : IsLive(s)}
Promised(set) == MapThenSumSet(LAMBDA s : virtual[s][TokenOut], set)

-----------------------------------------------------------------------------
(***************************************************************************)
(* What the route computes.                                                *)
(***************************************************************************)

\* Only siblings under this router are counted (fault).
Declared_Sampled(siblings) == Promised({s \in siblings : IsLive(s) /\ program[s].app = Here})

\* rawBalances of every sibling, under whichever router; dead ones read as none.
Declared(siblings) == Promised({s \in siblings : IsLive(s)})

\* Forgets the slice (fault).
SampledFrom_All(siblings) == SetToSeq({s \in siblings : program[s].app = Here})

\* Under this router, and no more than the instruction holds.
SampledFrom(siblings) ==
    LET mine == SetToSeq({s \in siblings : program[s].app = Here}) IN
    SubSeq(mine, 1, IF Len(mine) < MaxListed THEN Len(mine) ELSE MaxListed)

\* Rounds down (fault).
Scaled_Floor(r) ==
    LET promised == r.here.promised + r.there.promised
        backing  == r.here.backing + r.there.backing IN
    IF backing = 0 THEN (IF promised > 0 THEN r.here.backing + 1 ELSE 0)
    ELSE (promised * r.here.backing) \div backing

\* The combined ratio times this chain's backing, rounded up.
Scaled(r) ==
    LET promised == r.here.promised + r.there.promised
        backing  == r.here.backing + r.there.backing IN
    IF backing = 0 THEN (IF promised > 0 THEN r.here.backing + 1 ELSE 0)
    ELSE (promised * r.here.backing + backing - 1) \div backing

Larger(x, y) == IF x > y THEN x ELSE y

\* What the encoder accepts: no more hashes than fit, and numbers of their width.
Encodable(i) ==
    /\ Len(i.siblings) <= MaxInstructionSiblings /\ i.declared >= 0
    /\ i.maxUtilBps \in Uint16 /\ i.widenBps \in Uint16

Instruction(p) ==
    [capped |-> TRUE, app |-> Here, declared |-> pubs[p].declared,
     siblings |-> SampledFrom(pubs[p].siblings),
     maxUtilBps |-> pubs[p].terms.maxUtilBps, widenBps |-> pubs[p].terms.widenBps]

(***************************************************************************)
(* What a maker's book lists, less what the chain shows docked: the        *)
(* subgraph's rows, or, without a subgraph, the Postgres index for other   *)
(* routers and the Shipped logs for this one.                              *)
(***************************************************************************)
SubgraphRows == indexed
IndexedRows == {s \in indexed : program[s].app # Here}
ShippedHere == {s \in Strategies : tokensCount[s] # NeverShipped /\ program[s].app = Here}

Listed == IF subgraph THEN SubgraphRows ELSE {s \in IndexedRows \cup ShippedHere : IsLive(s)}

\* A maker without strategies still has a wallet.
TokenRow == [promised |-> Promised({s \in Listed : IsLive(s)}), backing |-> Backing(TokenOut)]

\* One chain of the combined book; a chain that does not answer adds nothing.
HereRead(answers) == IF answers THEN TokenRow ELSE Nothing
OtherChain == [promised: Amounts, backing: Amounts]
Readings == {[here |-> HereRead(answers), there |-> there] : answers \in BOOLEAN, there \in OtherChain}

(***************************************************************************)
(* The verdict the book shows beside a capped strategy: one declared       *)
(* number is read against the side where it looks smallest.                *)
(***************************************************************************)
\* Reads it against the side where it looks largest (fault).
Pick_Largest(s) == CHOOSE t \in Tokens : \A u \in Tokens : Backing(t) <= Backing(u)
Pick(s) == CHOOSE t \in Tokens : \A u \in Tokens : Backing(u) <= Backing(t)

RefusesNow(s) ==
    Backing(Pick(s)) = 0 \/ Util(program[s], Backing(Pick(s))) >= program[s].maxUtilBps

-----------------------------------------------------------------------------
\* The maker has shipped one plain strategy, and the index knows it.
PInit ==
    \E old \in {CHOOSE s \in Strategies : TRUE}, app \in {Here, "AnotherApp"}, promised \in Promises :
       /\ program = [s \in Strategies |-> Uncapped(IF s = old THEN app ELSE Here)]
       /\ wallet = [t \in Tokens |-> Opening] /\ allowance = [t \in Tokens |-> MaxHeld]
       /\ virtual = [s \in Strategies |-> IF s = old THEN promised ELSE [t \in Tokens |-> 0]]
       /\ tokensCount = [s \in Strategies |-> IF s = old THEN Shipped ELSE NeverShipped]
       /\ subgraph \in BOOLEAN /\ indexed = {old}
       /\ pubs = [p \in Pubs |-> NoPub] /\ moves = 0

At(p, pc) == pubs[p].pc = pc
Fresh == {s \in Strategies : tokensCount[s] = NeverShipped /\ \A p \in Pubs : pubs[p].s # s \/ At(p, "none")}
\* A salt makes every hash new; which one it is does not matter.
NewHash == CHOOSE s \in Fresh : TRUE

\* The form's request.
Request(p) ==
    /\ At(p, "none") /\ Fresh # {}
    /\ \E terms \in Terms :
          pubs' = [pubs EXCEPT ![p] = [NoPub EXCEPT !.pc = "list", !.s = NewHash, !.terms = terms,
                                                    !.quiet = TRUE]]
    /\ UNCHANGED <<book, subgraph, indexed, moves>>

\* A usable index, or the book without one, names the siblings.
List(p) ==
    /\ At(p, "list")
    /\ pubs' = [pubs EXCEPT ![p].pc = "count", ![p].siblings = Listed,
                            ![p].quiet = @ /\ indexed = Live]
    /\ UNCHANGED <<book, subgraph, indexed, moves>>

\* The index lags too far: the client's own list is taken, as if all of it lay
\* under this router, where the others read as nothing.
ListClaimed(p) ==
    /\ At(p, "list") /\ subgraph
    /\ \E hashes \in SUBSET {s \in Strategies : tokensCount[s] # NeverShipped} :
          pubs' = [pubs EXCEPT ![p].pc = "count", ![p].quiet = FALSE,
                               ![p].siblings = {s \in hashes : program[s].app = Here}]
    /\ UNCHANGED <<book, subgraph, indexed, moves>>

\* The request says whether the other chain is to be counted too.
Count(p) ==
    /\ At(p, "count")
    /\ \E next \in {"cross", "built"} :
          pubs' = [pubs EXCEPT ![p].pc = next, ![p].declared = Declared(pubs[p].siblings)]
    /\ UNCHANGED <<book, subgraph, indexed, moves>>

\* A subgraph chain has a row for the token only if some strategy lists it.
Cross(p) ==
    /\ At(p, "cross") /\ (subgraph => Listed # {})
    /\ \E r \in Readings :
          pubs' = [pubs EXCEPT ![p].pc = "built", ![p].declared = Larger(Scaled(r), @)]
    /\ UNCHANGED <<book, subgraph, indexed, moves>>

-----------------------------------------------------------------------------
ShipAs(s, prog, promised) ==
    /\ tokensCount[s] = NeverShipped
    /\ program' = [program EXCEPT ![s] = prog]
    /\ virtual' = [virtual EXCEPT ![s] = promised]
    /\ tokensCount' = [tokensCount EXCEPT ![s] = Shipped]
    /\ UNCHANGED <<wallet, allowance>>

\* Whatever is under way was counted before this.
Disturb(ps) == pubs' = [q \in Pubs |-> IF q \in ps THEN [pubs[q] EXCEPT !.quiet = FALSE] ELSE pubs[q]]

Sign(p) ==
    /\ At(p, "built") /\ Encodable(Instruction(p))
    /\ \E promised \in Promises : ShipAs(pubs[p].s, Instruction(p), promised)
    /\ pubs' = [q \in Pubs |-> IF q = p THEN [NoPub EXCEPT !.pc = "signed", !.s = pubs[p].s]
                                        ELSE [pubs[q] EXCEPT !.quiet = FALSE]]
    /\ UNCHANGED <<subgraph, indexed, moves>>

\* A step of somebody else's.
Aside(A) == moves < MaxMoves /\ moves' = moves + 1 /\ Disturb(Pubs) /\ A

ShipPlain ==
    \E app \in {Here, "AnotherApp"}, promised \in Promises :
        /\ Fresh # {}
        /\ Aside(ShipAs(NewHash, Uncapped(app), promised) /\ UNCHANGED <<subgraph, indexed>>)

OnBook(A) == Aside(A /\ UNCHANGED <<subgraph, indexed>>)

IndexSees ==
    /\ indexed # Live /\ indexed' = Live /\ Disturb(Pubs)
    /\ UNCHANGED <<book, subgraph, moves>>

PNext ==
    \/ \E p \in Pubs : Request(p) \/ List(p) \/ ListClaimed(p) \/ Count(p) \/ Cross(p) \/ Sign(p)
    \/ ShipPlain
    \/ \E s \in Strategies : OnBook(Dock(s))
    \/ \E s \in Strategies, o \in Order : OnBook(Fill(s, o))
    \/ \E t \in Tokens : OnBook(MakerMoves(t)) \/ OnBook(MakerApproves(t))
    \/ IndexSees

PSpec == PInit /\ [][PNext]_pvars

-----------------------------------------------------------------------------
\* A publication carries a usable instruction at every step.
PublishTypeOK ==
    /\ program \in [Strategies -> Program]
    /\ indexed \subseteq Strategies
    /\ \A p \in Pubs :
          /\ pubs[p].pc \in PubState /\ pubs[p].siblings \subseteq Strategies \ {pubs[p].s}
          /\ pubs[p].declared \in Nat
          /\ Len(SampledFrom(pubs[p].siblings)) <= MaxListed

\* A publication that nothing disturbed, over an index in step with the chain,
\* declares all its maker has promised on the token, under whichever router and
\* whatever the combined ratio: the contract's floor cannot refuse it.
DeclaresItsBook ==
    [][\A p \in Pubs :
          At(p, "built") /\ pubs[p].quiet /\ pubs'[p].pc = "signed"
             => /\ program'[pubs[p].s].declared >= Promised(Live)
                /\ DeclaresEnough(pubs[p].s, TokenOut)']_pvars

\* Of the two chains as they were read, the ratio opcode 35 will compute from the declared
\* total and this chain's backing is not below the combined one, however it
\* rounds, and a maker with promises and no backing anywhere always refuses.
CombinedRatioIsDeclared ==
    \A p \in Pubs, r \in Readings :
       LET promised == r.here.promised + r.there.promised
           backing  == r.here.backing + r.there.backing
           total    == Larger(Scaled(r), pubs[p].declared) IN
       At(p, "cross") =>
          /\ total * backing >= promised * r.here.backing
          /\ backing = 0 /\ promised > 0 => total > r.here.backing

\* A refusal the book reports is the contract's: it admits no order on either
\* side, although the report looks at one.
RefusalsAreReal ==
    \A s \in Live :
       program[s].capped /\ RefusesNow(s) => \A o \in Order : ~ Accepts(s, o)
=============================================================================
