-------------------------------- MODULE Wire --------------------------------
(***************************************************************************)
(* The bytes between the two halves of a publication: the site writes a    *)
(* strategy's program (salt, fee, curve, opcode 35) once, and from then on *)
(* the router runs it and the maker's book and the route API search it for *)
(* the declaration, each walking the instructions on its own.              *)
(***************************************************************************)
EXTENDS Preview

CONSTANTS
    Base,           \* values of a byte, 256
    WordBytes,      \* bytes of a uint256 and of a hash, 32
    ShortBytes,     \* bytes of a uint16
    ArgsLimit,      \* what the length byte of an instruction can say, 255
    HashNo,         \* strategy hashes as numbers
    Salts,          \* arguments of a salt instruction
    Curves,         \* pricing and fee a maker may ask for
    MaxDeclared     \* bound on the declared totals tried

FixedBytes == WordBytes + 3 * ShortBytes

ASSUME WireAssumption ==
    /\ {Base, WordBytes, ShortBytes, ArgsLimit, MaxDeclared} \subseteq Nat \ {0}
    /\ FixedBytes + MaxInstructionSiblings * WordBytes <= ArgsLimit /\ ArgsLimit < Base
    /\ HashNo \in [Strategies -> 0 .. Base^WordBytes - 1] /\ IsInjective(HashNo)
    /\ \A salt \in Salts : salt \in Seq(0 .. Base - 1) /\ Len(salt) <= ArgsLimit
    /\ Curves \subseteq [pricing: {"xyc", "oracle"}, feeBps: 0 .. Bps]

\* Big-endian.
Bytes(n, w) == [k \in 1 .. w |-> (n \div Base^(w - k)) % Base]
NumberIn(bytes) == FoldLeft(LAMBDA n, b : n * Base + b, 0, bytes)
Cut(bytes, from, to) == SubSeq(bytes, from + 1, to)

-----------------------------------------------------------------------------
(***************************************************************************)
(* Opcode 35's arguments: EncumbranceArgsBuilder and lib/encumbrance.ts.   *)
(***************************************************************************)
ArgsOf(i) == [declared |-> i.declared, siblings |-> [k \in DOMAIN i.siblings |-> HashNo[i.siblings[k]]],
              maxUtilBps |-> i.maxUtilBps, widenBps |-> i.widenBps]

buildEncumbranceArgs(a) ==
    Bytes(a.declared, WordBytes) \o Bytes(Len(a.siblings), ShortBytes)
       \o FlattenSeq([k \in DOMAIN a.siblings |-> Bytes(a.siblings[k], WordBytes)])
       \o Bytes(a.maxUtilBps, ShortBytes) \o Bytes(a.widenBps, ShortBytes)

Unreadable == [declared |-> 0, siblings |-> <<>>, maxUtilBps |-> 0, widenBps |-> Base^ShortBytes]

\* Both parsers: a count above the capacity, or bytes that end early, are refused.
parseEncumbranceArgs(bytes) ==
    LET n == NumberIn(Cut(bytes, WordBytes, WordBytes + ShortBytes))
        hashes == WordBytes + ShortBytes
        end == hashes + WordBytes * n
    IN
    IF Len(bytes) < FixedBytes \/ n > MaxInstructionSiblings \/ Len(bytes) < FixedBytes + WordBytes * n
    THEN Unreadable
    ELSE [declared |-> NumberIn(Cut(bytes, 0, WordBytes)),
          siblings |-> [k \in 1 .. n |->
                          NumberIn(Cut(bytes, hashes + WordBytes * (k - 1), hashes + WordBytes * k))],
          maxUtilBps |-> NumberIn(Cut(bytes, end, end + ShortBytes)),
          widenBps |-> NumberIn(Cut(bytes, end + ShortBytes, end + 2 * ShortBytes))]

-----------------------------------------------------------------------------
(***************************************************************************)
(* The program.                                                            *)
(***************************************************************************)
Code(opcode, args) == <<opcode, Len(args)>> \o args

OpXyc == 17
OpSalt == 20
OpFee == 21
OpExtruction == 32
OpEncumberedCap == 35

\* AquaProgramBuilder: an oracle strategy has no fee of its own.
CurveProgram(c, salt) ==
    (IF salt = <<>> THEN <<>> ELSE Code(OpSalt, salt))
       \o IF c.pricing = "oracle" THEN Code(OpExtruction, <<OpEncumberedCap, 0>>)
          ELSE (IF c.feeBps = 0 THEN <<>> ELSE Code(OpFee, Bytes(c.feeBps, ShortBytes))) \o Code(OpXyc, <<>>)

ProgramOf(c, salt, a) == CurveProgram(c, salt) \o Code(OpEncumberedCap, buildEncumbranceArgs(a))

Intended(c, salt) ==
    (IF salt = <<>> THEN <<>> ELSE <<"salt">>)
       \o (IF c.pricing = "oracle" THEN <<"extruction">>
           ELSE (IF c.feeBps = 0 THEN <<>> ELSE <<"flatFee">>) \o <<"xycSwap">>)
       \o <<"encumberedCap">>

None35 == "none"

\* Forgets the two bytes of the header (fault).
NextInstruction_Args(bytes, o) == o + bytes[o + 2]

NextInstruction(bytes, o) == o + 2 + bytes[o + 2]

\* Where the instructions of a program begin, as far as they are whole.
Offsets(bytes) ==
    LET whole(o) == o + 2 <= Len(bytes) /\ NextInstruction(bytes, o) <= Len(bytes)
        from[k \in 0 .. Len(bytes)] ==
          IF k = 0 THEN (IF whole(0) THEN <<0>> ELSE <<>>)
          ELSE LET before == from[k - 1] IN
               IF Len(before) < k THEN before
               ELSE LET o == NextInstruction(bytes, before[k]) IN
                    IF whole(o) THEN Append(before, o) ELSE before
    IN from[Len(bytes)]

ArgsAt(bytes, o) == Cut(bytes, o + 2, NextInstruction(bytes, o))

findEncumbranceInProgram(bytes) ==
    LET starts == Offsets(bytes)
        caps == {k \in DOMAIN starts : bytes[starts[k] + 1] = OpEncumberedCap}
    IN IF caps = {} THEN <<None35>> ELSE <<parseEncumbranceArgs(ArgsAt(bytes, starts[Min(caps)]))>>

(***************************************************************************)
(* BoneDryRouter's table.  The literal's first slot is overwritten with    *)
(* the array's length, so opcode k runs the entry after the k-th.          *)
(***************************************************************************)
Blank(n) == [k \in 1 .. n |-> "notInstruction"]

Table ==
    <<"notInstruction">> \o Blank(10)
       \o <<"jump", "jumpIfTokenIn", "jumpIfTokenOut", "deadline", "onlyTakerTokenBalanceNonZero",
            "onlyTakerTokenBalanceGte", "onlyTakerTokenSupplyShareGte",
            "xycSwap", "xycConcentrate", "decay", "salt", "flatFee">>
       \o Blank(5)
       \o <<"protocolFee", "aquaProtocolFee", "dynamicProtocolFee", "aquaDynamicProtocolFee",
            "peggedSwap", "extruction", "onlyTxOriginTokenBalanceNonZero">>
       \o Blank(1) \o <<"encumberedCap">>

\* The slots are used as they are written (fault).
Dispatched_First(opcode) == Table[opcode + 1]

Dispatched(opcode) == Table[opcode + 2]

Ran(bytes) == LET starts == Offsets(bytes) IN [k \in DOMAIN starts |-> Dispatched(bytes[starts[k] + 1])]

-----------------------------------------------------------------------------
(***************************************************************************)
(* What a maker signed is what everybody reads, for every curve before it: *)
(* the router dispatches the instructions that were meant, the readers     *)
(* find the declaration and no other, none in a program without it however *)
(* its other arguments look, and none in one that is cut short.            *)
(***************************************************************************)
ReadsBack(i, c, salt) ==
    LET read == ArgsOf(i)
        bytes == ProgramOf(c, salt, read)
    IN
    /\ Ran(bytes) = Intended(c, salt)
    /\ findEncumbranceInProgram(bytes) = <<read>>
    /\ findEncumbranceInProgram(CurveProgram(c, salt)) = <<None35>>
    /\ \A short \in 0 .. Len(bytes) - 1 : findEncumbranceInProgram(Cut(bytes, 0, short)) = <<None35>>

Encodings ==
    LET lists == BoundedSeq(Strategies, MaxListed)
                    \cup {[k \in 1 .. MaxInstructionSiblings |-> s] : s \in Strategies}
    IN {[declared |-> d, siblings |-> l, maxUtilBps |-> x.maxUtilBps, widenBps |-> x.widenBps] :
           d \in 0 .. MaxDeclared, l \in lists, x \in Terms}

Readable == {i \in Encodings : \A c \in Curves, salt \in Salts : ReadsBack(i, c, salt)}

InstructionsAreRead ==
    /\ Readable = Encodings
    /\ \A p \in Pubs : At(p, "built") =>
          \E i \in Readable : ArgsOf(i) = ArgsOf(Instruction(p))
=============================================================================
