------------------------------ MODULE Preview ------------------------------
(***************************************************************************)
(* What the Provide tab shows before anything is published: the promises   *)
(* already made, the total opcode 35 would be given, the utilisation and   *)
(* the curve it lands on.  The page and the route each compute these from  *)
(* readings of their own, and the contract a third time.                   *)
(***************************************************************************)
EXTENDS Publishing

-----------------------------------------------------------------------------
\* From the exposure of this chain: every sibling on the token, whoever's router.
alreadyPromisedOut == Promised(Listed \cap Live)

backingOut == Backing(TokenOut)

combinedOut(r) ==
    [promised |-> r.here.promised + r.there.promised, backing |-> r.here.backing + r.there.backing]

\* Rounds down what the route rounds up (fault).
declaredOut_Floor(r) ==
    LET both == combinedOut(r) IN
    IF both.backing = 0 THEN alreadyPromisedOut
    ELSE Larger((both.promised * backingOut) \div both.backing, alreadyPromisedOut)

declaredOut(r) ==
    LET both == combinedOut(r) IN
    IF both.backing = 0 THEN alreadyPromisedOut
    ELSE Larger((both.promised * backingOut + both.backing - 1) \div both.backing, alreadyPromisedOut)

\* In basis points and not capped: three times promised is 30000.
currentUtil(declared) == IF backingOut > 0 THEN (declared * Bps) \div backingOut ELSE 0

\* The other slider's value is taken for the cliff (fault).
isCliffRefused_Widen(declared, terms) == currentUtil(declared) >= terms.widenBps

isCliffRefused(declared, terms) == currentUtil(declared) >= terms.maxUtilBps

\* Drawn from where the order no longer fits beside what is declared.
isSizeRefused(declared, amountOut) == declared + amountOut >= backingOut

\* A wallet that backs nothing cannot publish.
zeroBacking == backingOut = 0

\* What the form's two sliders reach; the route itself takes any widenBps that
\* fits, and one above 100% can leave nothing of an order to be filled.
Sliders == [maxUtilBps: 3000 .. 9500, widenBps: 0 .. 1500]

-----------------------------------------------------------------------------
(***************************************************************************)
(* The total the curve is drawn at is "the same figure /api/strategy       *)
(* declares" (src/web/app/ui/app/Provide.tsx:384-386), for a publication   *)
(* that nothing overtook, from the same reading of the other chain.        *)
(***************************************************************************)
PreviewIsDeclared ==
    \A p \in Pubs, r \in Readings :
       At(p, "cross") /\ pubs[p].quiet /\ r.here = HereRead(TRUE) /\ ~ zeroBacking
          => declaredOut(r) = Larger(Scaled(r), pubs[p].declared)

(***************************************************************************)
(* Red means refused: a strategy published at a utilisation the chart      *)
(* draws beyond the cliff fills nothing on the token it is sized in, and   *)
(* one that is not, on terms the form offers, fills every order the chart  *)
(* draws as fitting (src/web/app/ui/app/Provide.tsx:558-566,               *)
(* src/contracts/src/vm/Encumbrance.sol:193-221).                          *)
(***************************************************************************)
RedIsRefused ==
    [][\A p \in Pubs :
          At(p, "built") /\ pubs[p].quiet /\ ~ zeroBacking /\ pubs'[p].pc = "signed" =>
             LET total == pubs[p].declared
                 red == isCliffRefused(total, pubs[p].terms) IN
             \A o \in {x \in Order : x.tokenOut = TokenOut} :
                /\ red => ~ Accepts(pubs[p].s, o)'
                /\ pubs[p].terms \in Sliders /\ ~ red /\ ~ isSizeRefused(total, o.amountOut) => Accepts(pubs[p].s, o)']_pvars
=============================================================================
