------------------------------ MODULE Generator ------------------------------
(***************************************************************************)
(* The program generator: what the strategies emit.  A byte of a program   *)
(* is OP, the opcode n of PUSHn, JUMPDEST, or an operand, which is written *)
(* like OP because nothing but a jump into it could tell them apart.       *)
(* Which strategy runs and what it draws from the filler are              *)
(* nondeterministic: every draw is possible with some input.               *)
(***************************************************************************)
EXTENDS CodeBudget, SequencesExt

CONSTANTS
    Widths,     \* lengths of pushed operands; 1..32
    DataSizes,  \* lengths of data that is drawn as one slice; 0..255
    Pairs,      \* how many pairs of points bn256PairingCaller passes; 1..511
    MSMItems,   \* how many items a BLS multiplication is of; 1..8
    BLSPairs,   \* how many pairs a BLS pairing is of; 2..5
    WordSize,   \* bytes one MSTORE takes; 32
    StackLimit, \* 1024
    RawPushes   \* the PUSHn that the opcode strategies draw; 1..32

ASSUME DrawAssumption ==
    /\ Widths \subseteq 1..32 /\ RawPushes \subseteq 1..32
    /\ DataSizes \cup Pairs \cup MSMItems \cup BLSPairs \cup {StackLimit} \subseteq Nat
    /\ WordSize \in 1..32

OP       == 0
JUMPDEST == 33

VARIABLES progs \* per level: the program, its labels, and what the properties need

vars == <<bvars, progs>>

-----------------------------------------------------------------------------
(* The assembler (go-ethereum's program.Program).  A shape lists           *)
(* instructions: 0 is an opcode without operand, w a PUSH of w bytes.      *)

Assemble(shape) ==
    FlattenSeq([i \in DOMAIN shape |->
        IF shape[i] = 0 THEN <<OP>> ELSE <<shape[i]>> \o [k \in 1..shape[i] |-> OP]])

Times(n, shape) == FlattenSeq([i \in 1..n |-> shape])

\* Push takes the shortest opcode that holds the number.
Width(number) == IF number < 256 THEN 1 ELSE IF number < 65536 THEN 2 ELSE 3

\* Mstore: a PUSH, a PUSH of the address and an MSTORE for every word, an MSTORE8
\* for every byte that is left. A word with leading zeros would take a shorter PUSH.
\* width says how long the address of each byte of the data is.
MstoreFrom(n, width) ==
    LET words == n \div WordSize
        left  == n % WordSize
    IN  FlattenSeq([i \in 1..(words + left) |->
            IF i <= words THEN <<WordSize, width[(i - 1) * WordSize], 0>>
                          ELSE <<1, width[n - left + (i - words - 1)], 0>>])

Mstore(n) == MstoreFrom(n, [address \in Nat |-> Width(address)])

\* The words are read at addresses of v bytes and stored in slots of w bytes.
MemToStorage(n, v, w) == Times((n + WordSize - 1) \div WordSize, <<v, 0, w, 0>>)

\* Operands that are drawn as a uint16, as a uint32 or less, and as an address.
Widths16  == Widths \cap 1..2
Widths32  == Widths \cap 1..4
addresses == Widths \cap 1..20

\* Call, CallCode and StaticCall, which has no value: sizes and offsets, value,
\* address and gas.
callMemory  == [1..4 -> Widths32]
callValues  == {<<>>} \cup {<<w>> : w \in Widths32}
callTargets == {<<address, gas, 0>> : address \in addresses, gas \in Widths}
CallShapes == {memory \o value \o target :
                   memory \in callMemory, value \in callValues, target \in callTargets}

\* ReturnViaCodeCopy pushes the length twice in front of the runtime.
DeployInit(n) == 9 + (2 * (1 + Width(n))) + n

-----------------------------------------------------------------------------
(* Strategies whose code does not depend on the program so far.            *)

\* The inputs of the precompiles. The parts of one that consists of whole words are
\* stored one behind the other, which takes the code of storing all of it at once.
inputWords ==
    {4, 4, 3, 6, 5} \cup        \* ecdsa, bn256 addition and multiplication, kzg, p256
    {6 * n : n \in Pairs} \cup  \* bn256 pairing
    {8, 16, 2, 4} \cup          \* BLS additions and maps
    {5 * n : n \in MSMItems} \cup {9 * n : n \in MSMItems} \cup
    {12 * n : n \in BLSPairs} \cup
    {5, 9, 12}                  \* points that are not in the subgroup
modExpSizes == {(3 * WordSize) + base + exponent + modulus : base, exponent, modulus \in DataSizes}
inputSizes ==
    DataSizes \cup              \* sha256, ripemd, identity
    modExpSizes \cup
    {(6 * WordSize) + 21} \cup  \* blake2f, 213
    {n * WordSize : n \in inputWords}

twoOperands   == {<<v, w, 0>> : v, w \in Widths}
threeOperands == {<<u, v, w, 0>> : u, v, w \in Widths}
storedCalls   == {Mstore(n) \o c : n \in inputSizes, c \in CallShapes}
logOps        == {topics \o <<1, 1, 0>> : topics \in SeqOf(Widths, 4)} \* LOG0 to LOG4
logShapes     == {Mstore(n) \o op : n \in DataSizes, op \in logOps}
valueCalls    == {Times(2, Times(4, <<1>>) \o <<v, w, gas, 0, 0>>) :
                    v \in Widths16, w \in Widths, gas \in 2..3}

memCopies     == {MemToStorage(n, v, w) : n \in DataSizes, v, w \in Widths32}
memStores     == {MstoreFrom(n, [address \in Nat |-> w]) : n \in DataSizes, w \in Widths32}

storeShapes ==
    memCopies \cup memStores \cup                      \* memStorage, mstore
    {Mstore(n) \o <<1, 1, 0>> : n \in DataSizes} \cup  \* returnData
    twoOperands                                        \* sstore, tstore, return

loadShapes ==
    {<<w>> : w \in Widths} \cup                        \* push
    {<<0, 1, 0, 0, 0, 1, 0, 0, 0>>} \cup               \* hashAndStore
    {<<w, 0>> : w \in Widths}                         \* mload, sload, tload, blobhash

stackShapes ==
    {<<w, 0>> : w \in Widths} \cup                     \* stackAware, one operand
    twoOperands \cup threeOperands                     \* two and three; arithEdge

callShapes ==
    CallShapes \cup                                    \* randomCall
    {<<>>} \cup                                        \* callPrecompile with an error
    storedCalls

coverageShapes ==
    {Times(2, <<w, 0, 0>>) : w \in Widths} \cup        \* warmCold
    {Times(5, <<1, w, 0>>) : w \in Widths16} \cup      \* sstoreWalk
    valueCalls \cup                                    \* valueCall
    {Times(5, <<1>>) \o <<0, 0, 0, 0>>} \cup           \* deepCall
    {Mstore(n) \o <<1, 1, 1, 0>> : n \in DataSizes} \cup \* mcopy
    logShapes                                          \* log

shapes == UNION {storeShapes, loadShapes, stackShapes, callShapes, coverageShapes}

shapeCodes == {Assemble(s) : s \in shapes}

\* stackFill pushes 0, duplicates it up to the stack limit and, unless it meant to
\* pass the limit, pops as many. Without room in the budget it does nothing.
StackFill(b) ==
    LET room     == GoDiv(b - 8, 2)
        fit(d)   == IF d > room THEN room ELSE d
        under    == fit(StackLimit - 3)
        over     == fit(StackLimit)
        fill(d, pops) == IF d <= 0 THEN <<>>
                         ELSE [i \in 1..(1 + d + (IF pops THEN d ELSE 0)) |-> 0]
    IN {fill(under, TRUE), fill(over, FALSE)}

-----------------------------------------------------------------------------
(* CreateAndCall.  The opcode of the call is drawn from all bytes now and  *)
(* then; it takes a value when it is CALL or CALLCODE.                     *)

RawOpcodes == {OP, JUMPDEST} \cup RawPushes
CallOps == [byte : RawOpcodes, value : {FALSE}] \cup {[byte |-> OP, value |-> TRUE]}
StaticCall == [byte |-> OP, value |-> FALSE]

\* The bytes in front of the call, for the part of the init code that is kept.
CallCode(size, isCreate2, callOp) ==
    Assemble(Mstore(size)
             \o (IF isCreate2 THEN <<1>> ELSE <<>>)
             \o <<Width(size), 1, 1, 0>>
             \o Times(IF callOp.value THEN 5 ELSE 4, <<1>>)
             \o <<0, 0>>) \o <<callOp.byte>>

CreateAndCall(initCode, isCreate2, callOp) ==
    CallCode(Truncate(initCode, budget), isCreate2, callOp)

\* What createCall makes of a generated program: a deployer, one that is refused
\* for its first byte, or one that reverts (makeDeployInit).
createInits(code) == {DeployInit(code), DeployInit(code + 1), Len(Assemble(<<1, 1, 0>>))}

\* The operations that staticContext puts in front of one (writeOp).
writeOps == twoOperands                                               \* SSTORE, TSTORE
            \cup logOps                                               \* LOGn
            \cup {Times(5, <<1>>) \o <<w, 0, 0>> : w \in Widths}      \* CALL
            \cup {<<1, 1, 1, 0>>} \cup {<<w, 0>> : w \in Widths}     \* CREATE, SELFDESTRUCT

staticInits(code) == {DeployInit(Len(Assemble(op)) + code) : op \in writeOps}

-----------------------------------------------------------------------------
(* Strategies that jump, by the bytes that the PC of the target takes.     *)

conditions == {<<>>} \cup {<<w>> : w \in Widths}

jumpCode(condition, width) == Assemble(condition \o <<width, 0>>)

loopCode(width) ==
    Assemble(<<1>>) \o <<JUMPDEST>> \o Assemble(<<0, 0, 1, 0, 0, 0, width, 0, 0>>)

invalidJumpCode(width) == <<1, JUMPDEST>> \o Assemble(<<0, width, 0>>)

\* returnDataCopy reads what its call returned.
returnDataCode == Assemble(<<1, 1, 1, 0>>)

-----------------------------------------------------------------------------
(* The bounds of CodeBudget are bounds of this code.                       *)

\* How much CreateAndCall can keep of n bytes of init code.
Kept(n) == {size \in 0..(MaxTotalBytes \div 4) : size <= n}

ASSUME EmitAssumption ==
    /\ 2 * StackLimit <= MaxEmit /\ 1 <= MaxEmit
    /\ \A code \in shapeCodes : Len(code) <= MaxEmit
    /\ \A width \in 1..3 :
         /\ \A c \in conditions : Len(jumpCode(c, width)) <= MaxEmit
         /\ Len(loopCode(width)) <= MaxEmit /\ Len(invalidJumpCode(width)) <= MaxEmit
    /\ \A n \in DataSizes \cup {w + 2 : w \in Widths} : \A size \in Kept(n) :
         \A c2 \in BOOLEAN, op \in CallOps : Len(CallCode(size, c2, op)) <= MaxEmit
    /\ \A size \in Kept(DeployInit(5)) :
         Len(CallCode(size, FALSE, StaticCall) \o returnDataCode) <= MaxEmit

ASSUME CallAssumption ==
    \A size \in 0..(MaxTotalBytes \div 4), c2 \in BOOLEAN, op \in CallOps :
        Len(CallCode(size, c2, op)) \in MinCall..(MaxCall + (Spread * size))

-----------------------------------------------------------------------------
NewProgram == [code |-> <<>>, labels |-> {}, decoys |-> {}, raw |-> FALSE]

Prog == IF progs = <<>> THEN NewProgram ELSE progs[Depth]

\* Mutant: a strategy starts a program of its own instead of adding to that of the level.
Emitted_Replaces(d, bytes, labels, decoys, raw) ==
    progs' = Append(SubSeq(progs, 1, d - 1),
                [code |-> bytes, labels |-> labels, decoys |-> decoys, raw |-> raw])

\* The strategy of level d emits bytes; labels and decoys are PCs, raw says that
\* an opcode without its operand may be among the bytes.
Emitted(d, bytes, labels, decoys, raw) ==
    progs' = Append(SubSeq(progs, 1, d - 1),
                [code   |-> progs[d].code \o bytes,
                 labels |-> progs[d].labels \cup labels,
                 decoys |-> progs[d].decoys \cup decoys,
                 raw    |-> progs[d].raw \/ raw])

Emit(bytes, labels, decoys, raw) ==
    Execute(Len(bytes)) /\ Emitted(Depth, bytes, labels, decoys, raw)

Init == BInit /\ progs = <<NewProgram>>

\* opcode and validOpcode: one byte, whatever it is.
EmitOpcode ==
    \E op \in RawOpcodes : Emit(<<op>>, {}, {}, op \in RawPushes)

\* A strategy that emits complete instructions, or nothing.
EmitShape ==
    \E code \in shapeCodes \cup {Assemble(s) : s \in StackFill(budget)} :
        Emit(code, {}, {}, FALSE)

\* createCallRNG, selfdestruct and the first half of returnDataCopy: a program
\* of its own is created and called, but not generated.
EmitCall ==
    \/ \E n \in DataSizes, c2 \in BOOLEAN, op \in CallOps :
          Emit(CreateAndCall(n, c2, op), {}, {}, op.byte \in RawPushes)
    \/ \E w \in Widths :
          Emit(CreateAndCall(w + 2, FALSE, [byte |-> OP, value |-> TRUE]), {}, {}, FALSE)
    \/ Emit(CreateAndCall(DeployInit(5), FALSE, StaticCall) \o returnDataCode,
            {}, {}, FALSE)

\* jumpdest, and jump and labelJump when there is no label yet: addLabel.
EmitLabel ==
    Emit(<<JUMPDEST>>, {Len(Prog.code)}, {}, FALSE)

\* jump and labelJump: a JUMP to a label, or a JUMPI with any condition.
EmitJump ==
    \E dest \in Prog.labels, condition \in conditions :
        Emit(jumpCode(condition, Width(dest)), {}, {}, FALSE)

\* boundedLoop: the label is behind the PUSH of the counter.
EmitLoop ==
    LET head == Len(Prog.code) + 2 IN
    Emit(loopCode(Width(head)), {head}, {}, FALSE)

\* invalidJump: PUSH1 0x5b, POP, and a jump to the 0x5b.
EmitInvalidJump ==
    LET at == Len(Prog.code) IN
    Emit(invalidJumpCode(Width(at + 1)), {}, {at + 1}, FALSE)

\* createCall and staticContext at the deepest level return at once.
SkipNested ==
    Looping /\ ~MayNest /\ Emit(<<>>, {}, {}, FALSE)

\* Mutant: the nested program starts with the labels of its caller.
StartNested_SharesLabels ==
    \E c \in Counters :
        Nest(c) /\ progs' = Append(progs, [NewProgram EXCEPT !.labels = Prog.labels])

\* createCall or staticContext starts a nested program.
StartNested ==
    \E c \in Counters : Nest(c) /\ progs' = Append(progs, NewProgram)

\* The nested program is there; its caller deploys it and calls it.
FinishCreateCall ==
    /\ Depth > 1 /\ Ended
    /\ \E n \in createInits(Len(Prog.code)), c2 \in BOOLEAN, op \in CallOps :
         LET bytes == CreateAndCall(n, c2, op) IN
         Return(Len(bytes)) /\ Emitted(Depth - 1, bytes, {}, {}, op.byte \in RawPushes)

FinishStaticContext ==
    /\ Depth > 1 /\ Ended
    /\ \E n \in staticInits(Len(Prog.code)) :
         LET bytes == CreateAndCall(n, FALSE, StaticCall) IN
         Return(Len(bytes)) /\ Emitted(Depth - 1, bytes, {}, {}, FALSE)

FinishProgram == Finish /\ progs' = <<>>

\* GenerateProgram has returned.
Returned == levels = <<>> /\ UNCHANGED vars

Next ==
    \/ EmitOpcode \/ EmitShape \/ EmitCall \/ EmitLabel \/ EmitJump \/ EmitLoop
    \/ EmitInvalidJump \/ SkipNested \/ StartNested
    \/ FinishCreateCall \/ FinishStaticContext \/ FinishProgram \/ Returned

\* The loop is sequential code: it goes on.
FairSpec == Init /\ [][Next]_vars /\ WF_bvars(BNext)

-----------------------------------------------------------------------------
(* Correctness.                                                            *)

\* The lengths counted by CodeBudget are those of the programs.
TypeOK ==
    /\ BTypeOK
    /\ Len(progs) = Depth
    /\ \A d \in 1..Depth :
         /\ progs[d].code \in Seq(0..JUMPDEST) /\ Len(progs[d].code) = levels[d].len
         /\ progs[d].raw \in BOOLEAN

\* Jump-destination analysis of the EVM: a PUSHn hides the n bytes behind it.
Operand(byte) == IF byte \in 1..32 THEN byte ELSE 0

\* How many bytes the last PUSH still hides after each of the bytes of code.
Hidden(code) ==
    LET hidden[i \in 0..Len(code)] ==
            IF i = 0 THEN 0
            ELSE LET before == hidden[i - 1]
                 IN  IF before > 0 THEN before - 1 ELSE Operand(code[i])
    IN  hidden

ValidDest(code, pc) == code[pc + 1] = JUMPDEST /\ Hidden(code)[pc] = 0

\* Every label is the PC of a JUMPDEST of its own program, and while no opcode was
\* drawn without its operand the jumps to labels land and those of invalidJump do
\* not (strategy.go, Environment.labels; coverage_strategies.go, invalidJump).
JumpsLandAsIntended ==
    \A d \in 1..Depth :
        LET p == progs[d] IN
        /\ \A pc \in p.labels : pc < Len(p.code) /\ p.code[pc + 1] = JUMPDEST
        /\ ~p.raw => /\ \A pc \in p.labels : ValidDest(p.code, pc)
                     /\ \A pc \in p.decoys : ~ValidDest(p.code, pc)

\* The bytes that the strategies really emit stay in the bounds of CodeBudget.
ImplementsCodeBudget == BSpec

\* Every generation ends: the strategies that emit nothing still use up rounds.
GenerationEnds == <>(levels = <<>>)
=============================================================================
