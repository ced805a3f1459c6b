---------------------------- MODULE Expressions ----------------------------
(***************************************************************************)
(* Expressions over the built-in functions: an engine loads the library,   *)
(* then the validator gives every node of an expression a type and the     *)
(* code generator gives it an LLVM value.                                  *)
(*                                                                         *)
(* An expression grows from the leaves: args holds the arguments of the    *)
(* next node, the first of them any expression, the others leaves (a node  *)
(* sees of an argument only its type and its value).  A node carries       *)
(*   ty     the value type the validator gives it,                         *)
(*   ir     the LLVM type of the value generated for it,                   *)
(*   means  the number it denotes, Unknown where the model does not follow it, *)
(*   holds  the number the generated code computes.                        *)
(* Integers of 8, 16, 32 and 64 bits are scaled to 2, 3, 4 and 5 bits: a   *)
(* conversion depends on which width is larger and on the sign bit only.   *)
(***************************************************************************)
EXTENDS FunctionLibrary

CONSTANTS Values,                     \* the numbers constants are made of
          Payloads,                   \* the F32 lists constants are made of
          PlusZero, MinusZero, NaN,   \* the payloads that compare as no other does
          Unknown                     \* a value the model does not follow

ASSUME ValuesAssumption == Values \subseteq Int

VARIABLES loaded,    \* how many of InitSteps have run
          refused,   \* a registration was refused: there is no engine
          args,
          emitted,   \* the calls of C functions generated for the last node
          cache      \* const_list_cache: the F32 lists that have a global

vars == <<loaded, refused, args, emitted, cache>>

MaxArgs == 3            \* of If, Switch and the calls modelled
None == "none"          \* the type of a node the validator refuses
IllTyped == "ill_typed" \* LLVM asserts, or the verifier refuses the function

----------------------------------------------------------------------------
(* The registry the library fills.                                         *)

WithCtx(params) == Append(params, "Ptr")

(* What a registration enters: a C function with a context is found under  *)
(* the signature without it and published under the one with it.           *)
Entries(reg) ==
  LET entry(params, needs_ctx) == [name |-> reg.name, params |-> params, ret |-> reg.ret,
                                   kind |-> reg.kind, needs_ctx |-> needs_ctx, fn |-> reg.fn]
  IN  IF reg.kind = "c_ctx" THEN {entry(reg.params, TRUE), entry(WithCtx(reg.params), FALSE)}
      ELSE {entry(reg.params, FALSE)}

Registrations(steps) == UNION {Range(InitSteps[s]) : s \in steps}
Signatures(reg) == {<<e.name, e.params>> : e \in Entries(reg)}

(* RegisterFunc refuses a signature that is taken, by a step before step n *)
(* or by a line of the step before.                                        *)
Taken(n) ==
  LET step == InitSteps[n]
      before == UNION {Signatures(reg) : reg \in Registrations(1..(n - 1))}
  IN  \E i \in DOMAIN step :
        \/ Signatures(step[i]) \cap before # {}
        \/ \E j \in 1..(i - 1) : Signatures(step[i]) \cap Signatures(step[j]) # {}

Library == UNION {Entries(reg) : reg \in Registrations(DOMAIN InitSteps)}

(* GetFuncBySign, for every list of argument types at once. *)
Overloads == [params \in {e.params : e \in Library} |-> {e \in Library : e.params = params}]

(* MappingToJIT: the symbols the linker finds, with the prototypes behind. *)
PublishedEntries == {e \in Library : e.kind # "intrinsic" /\ ~e.needs_ctx}
Published == [s \in {<<e.name, e.params>> : e \in PublishedEntries} |->
                (CHOOSE e \in PublishedEntries : <<e.name, e.params>> = s).fn]

----------------------------------------------------------------------------
(* LLVM types and numbers.                                                 *)

(* ValueTypeToLLVMType: signs are forgotten, every complex type is a       *)
(* structure of its own.                                                   *)
IRType == [t \in ValueTypes |->
  CASE t \in {"U8", "I8"} -> "i8"
    [] t \in {"U16", "I16"} -> "i16"
    [] t \in {"U32", "I32"} -> "i32"
    [] t \in {"U64", "I64"} -> "i64"
    [] t = "F32" -> "float"
    [] t = "F64" -> "double"
    [] t = "Ptr" -> "ptr"
    [] OTHER -> t]

Bits == [t \in IntegerTypes |-> CASE BitWidth[t] = 8 -> 2 [] BitWidth[t] = 16 -> 3
                                  [] BitWidth[t] = 32 -> 4 [] OTHER -> 5]

(* The number that the low bits of v stand for. *)
Read(v, bits, signed) ==
  LET low == v % 2^bits IN IF signed /\ low >= 2^(bits - 1) THEN low - 2^bits ELSE low

Fits(v, t) == t \in FloatTypes \/ v = Read(v, Bits[t], t \in SignedInts)
Wrap(v, t) == IF t \in FloatTypes THEN v ELSE Read(v, Bits[t], t \in SignedInts)

Lift(Op(_), v) == IF v = Unknown THEN Unknown ELSE Op(v)
Lift2(Op(_, _), v, w) == IF Unknown \in {v, w} THEN Unknown ELSE Op(v, w)
Denoted(v, t) == IF v # Unknown /\ Fits(v, t) THEN v ELSE Unknown

ConvertNumberUnsigned(v, from, to) ==
  CASE v = Unknown \/ from = to -> v
    [] {from, to} \subseteq IntegerTypes ->
         Read(Read(v, Bits[from], to \in SignedInts), Bits[to], to \in SignedInts)
    [] from \in FloatTypes /\ to \in IntegerTypes -> Denoted(v, to)
    [] from \in IntegerTypes /\ to \in FloatTypes -> Read(v, Bits[from], FALSE)
    [] OTHER -> v

(* An integer is extended by the sign of the type it is cast to; a float    *)
(* out of range is cast to any integer.                                     *)
ConvertNumber(v, from, to) ==
  CASE v = Unknown \/ from = to -> v
    [] {from, to} \subseteq IntegerTypes ->
         Read(Read(v, Bits[from], to \in SignedInts), Bits[to], to \in SignedInts)
    [] from \in FloatTypes /\ to \in IntegerTypes -> Denoted(v, to)
    [] OTHER -> v

Node(ty, ir, means, holds) == [ty |-> ty, ir |-> ir, means |-> means, holds |-> holds]
Unfollowed(ty, ir) == Node(ty, ir, Unknown, Unknown)

NumericTypeConvert(a, to) ==
  IF a.ty = to THEN a
  ELSE Node(to, IF a.ir = IRType[a.ty] THEN IRType[to] ELSE IllTyped,
            Denoted(a.means, to), ConvertNumber(a.holds, a.ty, to))

(* An instruction over two values, both of type ir. *)
Agreeing(a, b) == IF a.ir = b.ir THEN a.ir ELSE IllTyped
Tested(ir) == IF ir = IllTyped THEN IllTyped ELSE "i8"

Truth(b) == IF b THEN 1 ELSE 0

----------------------------------------------------------------------------
(* The leaves.                                                             *)

Push(node) == /\ Len(args) < MaxArgs
              /\ args' = Append(args, node)
              /\ emitted' = {}
              /\ UNCHANGED <<loaded, refused>>

Constants(t) == IF t \in NumericTypes THEN {Node(t, IRType[t], v, v) : v \in {w \in Values : Fits(w, t)}}
                ELSE {Unfollowed(t, IRType[t])}

ConstantValueNode == /\ \E t \in NumericTypes \cup {"String"} : \E c \in Constants(t) : Push(c)
                     /\ UNCHANGED cache

(* The map's order compares elements with <: a key that is neither less nor *)
(* greater than another is taken for it.                                    *)
Equivalent(p, q) == p = q \/ NaN \in {p, q} \/ {p, q} = {PlusZero, MinusZero}

ConstantListValueNode ==
  \/ /\ \E t \in ListTypes \ {"F32List"} : Push(Unfollowed(t, IRType[t]))
     /\ UNCHANGED cache
  \/ \E p \in Payloads :
       LET found == {q \in cache : Equivalent(p, q)}
           list(q) == Node("F32List", IRType["F32List"], p, q)
       IN  \/ \E q \in found : Push(list(q)) /\ UNCHANGED cache
           \/ found = {} /\ Push(list(p)) /\ cache' = cache \cup {p}

(* EntryArgumentNode, ExecContextNode and OutputNode: the parameters of the *)
(* entry function, all three pointers.                                      *)
EntryPointers == Push(Unfollowed("Ptr", IRType["Ptr"])) /\ UNCHANGED cache

----------------------------------------------------------------------------
(* Operators: the type the validator gives, then the value generated.      *)

ValidateUnary(op, t) ==
  CASE t \notin NumericTypes -> None
    [] op = "!" -> "U8"
    [] op = "-" /\ t \in {"I8", "U8", "I16", "U16"} -> "I32"
    [] op = "~" /\ t \notin IntegerTypes -> None
    [] OTHER -> t

GenUnary(op, a, ret) ==
  CASE op = "+" -> [a EXCEPT !.ty = ret]
    [] op = "-" -> LET c == NumericTypeConvert(a, ret)
                   IN  Node(ret, c.ir, Denoted(Lift(LAMBDA v : -v, a.means), ret),
                            Lift(LAMBDA v : Wrap(-v, ret), c.holds))
    [] op = "!" -> Node(ret, Tested(a.ir), Lift(LAMBDA v : Truth(v = 0), a.means),
                        Lift(LAMBDA v : Truth(v = 0), a.holds))
    [] op = "~" -> Unfollowed(ret, a.ir)

ValidateBinary(op, l, r) ==
  LET numeric == {l, r} \subseteq NumericTypes
      integer == {l, r} \subseteq IntegerTypes
      joined == op = "+" /\ l = r /\ l \in ComplexTypes
      strings == op \in RelationalOps /\ {l, r} = {"String"}
  IN  CASE joined -> l
        [] strings -> "U8"
        [] ~numeric \/ (op \in BitwiseOps /\ ~integer) -> None
        [] op \in LogicalOps \cup RelationalOps -> "U8"
        [] op \in ShiftOps -> l
        [] OTHER -> GetPromotedType(l, r)

(* "division or modulo by constant zero" *)
ZeroDivisor(op, b) == op \in {"/", "%"} /\ b.ty \in IntegerTypes /\ b.means = 0

Related(op, v, w) ==
  CASE op = ">" -> v > w [] op = ">=" -> v >= w [] op = "==" -> v = w
    [] op = "<" -> v < w [] op = "<=" -> v <= w [] op = "!=" -> v # w

SolveBinaryOpNumericType(op, a, b, ret) ==
  LET to == IF op \in RelationalOps THEN GetPromotedType(a.ty, b.ty) ELSE ret
      l == NumericTypeConvert(a, to)
      r == NumericTypeConvert(b, to)
      related(v, w) == Truth(Related(op, v, w))
  IN  IF op \in RelationalOps
      THEN Node(ret, Tested(Agreeing(l, r)), Lift2(related, l.means, r.means),
                Lift2(related, l.holds, r.holds))
      ELSE Unfollowed(ret, Agreeing(l, r))

(* The right side is evaluated when the left one does not decide. *)
SolveShortCircuitLogicalOp(op, a, b, ret) ==
  LET decided(v) == v # Unknown /\ (v = 0) = (op = "&&")
      value(v, w) == IF decided(v) THEN Truth(op = "||")
                     ELSE Lift2(LAMBDA x, y : Truth(y # 0), v, w)
  IN  Node(ret, IF IllTyped \in {a.ir, b.ir} THEN IllTyped ELSE "i8",
           value(a.means, b.means), value(a.holds, b.holds))

(* A call of a C function, as it is emitted: the symbol, the types of the  *)
(* values passed, the type of the value returned.                          *)
Emit(name, params, passed, ret) == [symbol |-> <<name, params>>, args |-> passed, ret |-> ret]

(* Concatenation, or StringCmp and a test of its sign. *)
SolveBinaryOpComplexType(op, a, b, ret) ==
  IF op = "+"
  THEN LET name == IF ret = "String" THEN "StringConcat" ELSE "ListConcat"
       IN  [node |-> Unfollowed(ret, IRType[ret]),
            calls |-> {Emit(name, WithCtx(<<a.ty, b.ty>>), <<a.ir, b.ir, "ptr">>, IRType[ret])}]
  ELSE [node |-> Unfollowed(ret, "i8"),
        calls |-> {Emit("StringCmp", <<"String", "String">>, <<a.ir, b.ir>>, "i32")}]

GenBinary(op, a, b, ret) ==
  CASE op \in LogicalOps -> [node |-> SolveShortCircuitLogicalOp(op, a, b, ret), calls |-> {}]
    [] op \notin LogicalOps /\ {a.ty, b.ty} \subseteq NumericTypes ->
         [node |-> SolveBinaryOpNumericType(op, a, b, ret), calls |-> {}]
    [] OTHER -> SolveBinaryOpComplexType(op, a, b, ret)

(* The node replaces the arguments it is made of. *)
Build(node, calls) == /\ args' = <<node>>
                      /\ emitted' = calls
                      /\ UNCHANGED <<loaded, refused, cache>>

UnaryOPNode == /\ Len(args) = 1
               /\ \E op \in UnaryOps :
                    LET ret == ValidateUnary(op, args[1].ty)
                    IN  ret # None /\ Build(GenUnary(op, args[1], ret), {})

BinaryOPNode == /\ Len(args) = 2
                /\ \E op \in BinaryOps :
                     LET ret == ValidateBinary(op, args[1].ty, args[2].ty)
                         gen == GenBinary(op, args[1], args[2], ret)
                     IN  /\ ret # None
                         /\ ~ZeroDivisor(op, args[2])
                         /\ Build(gen.node, gen.calls)

----------------------------------------------------------------------------
(* if and switch as expressions.                                           *)

ValidateBranches(types) ==
  CASE types \subseteq NumericTypes -> CHOOSE t \in types : \A u \in types : Weight(u) <= Weight(t)
    [] Cardinality(types) = 1 -> CHOOSE t \in types : TRUE
    [] OTHER -> None

GenBranchesAsTheyAre(cond, yes, no) ==
  LET ret == ValidateBranches({yes.ty, no.ty})
      selected == IF cond.holds = 0 THEN {no} ELSE {yes}
  IN  {[b EXCEPT !.ty = ret] : b \in selected}

(* Every branch is converted to the type of the node, where the values meet *)
(* in a phi; the one the condition selects is its value.                    *)
GenBranches(cond, yes, no) ==
  LET ret == ValidateBranches({yes.ty, no.ty})
      branches == {NumericTypeConvert(yes, ret), NumericTypeConvert(no, ret)}
      selected == CASE cond.holds = Unknown -> branches
                    [] cond.holds = 0 -> {NumericTypeConvert(no, ret)}
                    [] OTHER -> {NumericTypeConvert(yes, ret)}
      meet == \A b \in branches : b.ir = IRType[ret]
  IN  {[b EXCEPT !.ir = IF meet THEN @ ELSE IllTyped] : b \in selected}

Conditional(cond, yes, no) == /\ cond.ty \in NumericTypes
                              /\ ValidateBranches({yes.ty, no.ty}) # None
                              /\ \E b \in GenBranches(cond, yes, no) : Build(b, {})

IfNode == Len(args) = 3 /\ Conditional(args[1], args[2], args[3])

(* switch(default) or switch(cond, value, default). *)
SwitchNode == \/ Len(args) = 1 /\ Build(args[1], {})
              \/ Len(args) = 3 /\ Conditional(args[1], args[2], args[3])

----------------------------------------------------------------------------
(* Calls.  The lowerings of the LLVM functions give a node and the calls   *)
(* they emit.                                                              *)

Lowered(node) == [node |-> node, calls |-> {}]

(* CallBuiltinExpFunction and the logarithms: computed in the type returned. *)
CallBuiltinExpFunction(e) ==
  Lowered(Unfollowed(e.ret, NumericTypeConvert(args[1], e.ret).ir))

(* CallBuiltinSinFunction and its kin: computed in the type of the argument. *)
CallBuiltinSinFunction(e) == Lowered(Unfollowed(e.ret, args[1].ir))

(* An integer base becomes F64; for a double base the exponent becomes I16. *)
CallBuiltinPowIFunction(e) ==
  LET base == IF e.params[1] \in IntegerTypes THEN NumericTypeConvert(args[1], "F64") ELSE args[1]
      power == IF base.ir = "double" THEN NumericTypeConvert(args[2], "I16") ELSE args[2]
  IN  Lowered(Unfollowed(e.ret, IF power.ir = IllTyped THEN IllTyped ELSE base.ir))

CallBuiltinPowFunction(e) == Lowered(Unfollowed(e.ret, Agreeing(args[1], args[2])))

CallBuiltinAbsFunction(e) ==
  LET a == IF e.ret \in IntegerTypes THEN NumericTypeConvert(args[1], e.ret) ELSE args[1]
      abs(v) == IF v < 0 THEN -v ELSE v
  IN  Lowered(Node(e.ret, a.ir, Denoted(Lift(abs, args[1].means), e.ret),
                   Lift(LAMBDA v : Wrap(abs(v), e.ret), a.holds)))

(* A comparison in the type returned selects an operand. *)
CallBuiltinMinFunction(e) ==
  LET least(v, w) == IF v > w THEN w ELSE v
  IN  Lowered(Node(e.ret, Agreeing(args[1], args[2]), Lift2(least, args[1].means, args[2].means),
                   Lift2(least, args[1].holds, args[2].holds)))
CallBuiltinMaxFunction(e) ==
  LET greatest(v, w) == IF v > w THEN v ELSE w
  IN  Lowered(Node(e.ret, Agreeing(args[1], args[2]),
                   Lift2(greatest, args[1].means, args[2].means),
                   Lift2(greatest, args[1].holds, args[2].holds)))

CallBuiltinCastFunction(e) == Lowered(NumericTypeConvert(args[Len(args)], e.ret))

(* CallBuiltinLenFunction and StringLen's: the second field of the structure. *)
CallBuiltinLenFunction(e) == Lowered(Unfollowed(e.ret, "i32"))
CallBuiltinTruncateFunction(e) == Lowered(Unfollowed(e.ret, args[1].ir))
CodegenFindMiss(e) == Lowered(Unfollowed(e.ret, "i32"))

(* The sugars: the number the kernel needs is computed by a call, and the  *)
(* kernel is called by the symbol that shows its context.                  *)
EmitFilterByBitmapSugar(e) ==
  [node |-> Unfollowed(e.ret, args[1].ir),
   calls |-> {Emit("CountBits", <<"U8List">>, <<args[2].ir>>, "i32"),
              Emit("FilterByBitmap", <<e.params[1], "U8List", "U32", "Ptr">>,
                   <<args[1].ir, args[2].ir, "i32", "ptr">>, args[1].ir)}]

EmitGroupSugarWithoutContext(e, ret) ==
  [node |-> Unfollowed(e.ret, ret),
   calls |-> {Emit("GroupCount", <<"U32List">>, <<args[2].ir>>, "i32"),
              Emit(e.name, <<e.params[1], "U32List", "U32">>,
                   <<args[1].ir, args[2].ir, "i32">>, ret)}]
EmitGroupSugar(e, ret) ==
  [node |-> Unfollowed(e.ret, ret),
   calls |-> {Emit("GroupCount", <<"U32List">>, <<args[2].ir>>, "i32"),
              Emit(e.name, <<e.params[1], "U32List", "U32", "Ptr">>,
                   <<args[1].ir, args[2].ir, "i32", "ptr">>, ret)}]
EmitGroupKeysSugar(e) == EmitGroupSugar(e, args[1].ir)
EmitGroupExtremaSugar(e) == EmitGroupSugar(e, args[1].ir)
EmitGroupSumSugar(e) == EmitGroupSugar(e, IRType[e.ret])
EmitGroupAvgSugar(e) == EmitGroupSugar(e, IRType[e.ret])

CodegenListLookupIndex(e) ==
  LET suffix == IF e.params[1] = "StringList" THEN "String" ELSE "Int"
  IN  [node |-> Unfollowed(e.ret, IRType["U32List"]),
       calls |-> {Emit("__BuildLookupTable" \o suffix, WithCtx(<<e.params[1]>>),
                       <<args[2].ir, "ptr">>, "ptr"),
                  Emit("__LookupTable" \o suffix, WithCtx(<<e.params[1], "Ptr">>),
                       <<args[1].ir, "ptr", "ptr">>, IRType["U32List"])}]

(* codegen_func of the entry: what InitXxxFunc paired with its signature. *)
CodegenFunc(e) ==
  LET lowering == e.fn.lowering
  IN  CASE lowering = "at_return_type" -> CallBuiltinExpFunction(e)
        [] lowering = "at_argument_type" -> CallBuiltinSinFunction(e)
        [] lowering = "powi" -> CallBuiltinPowIFunction(e)
        [] lowering = "pow" -> CallBuiltinPowFunction(e)
        [] lowering = "abs" -> CallBuiltinAbsFunction(e)
        [] lowering = "min" -> CallBuiltinMinFunction(e)
        [] lowering = "max" -> CallBuiltinMaxFunction(e)
        [] lowering = "cast" -> CallBuiltinCastFunction(e)
        [] lowering = "length" -> CallBuiltinLenFunction(e)
        [] lowering = "truncate" -> CallBuiltinTruncateFunction(e)
        [] lowering = "miss" -> CodegenFindMiss(e)
        [] lowering = "filter" -> EmitFilterByBitmapSugar(e)
        [] lowering = "lookup" -> CodegenListLookupIndex(e)
        [] e.name = "GroupKeys" -> EmitGroupKeysSugar(e)
        [] e.name \in {"GroupMax", "GroupMin"} -> EmitGroupExtremaSugar(e)
        [] e.name = "GroupSum" -> EmitGroupSumSugar(e)
        [] e.name = "GroupAvg" -> EmitGroupAvgSugar(e)

CallCFunc(e) ==
  LET passed == [i \in DOMAIN args |-> args[i].ir]
      call == IF e.needs_ctx
              THEN Emit(e.name, WithCtx(e.params), Append(passed, "ptr"), IRType[e.ret])
              ELSE Emit(e.name, e.params, passed, IRType[e.ret])
  IN  [node |-> Unfollowed(e.ret, IRType[e.ret]), calls |-> {call}]

FunctionNode ==
  LET types == [i \in DOMAIN args |-> args[i].ty]
  IN  /\ types \in DOMAIN Overloads
      /\ \E e \in Overloads[types] :
           LET gen == IF e.kind = "intrinsic" THEN CodegenFunc(e) ELSE CallCFunc(e)
           IN  Build(gen.node, gen.calls)

----------------------------------------------------------------------------
Init == /\ loaded = 0
        /\ refused = FALSE
        /\ args = << >>
        /\ emitted = {}
        /\ cache = {}

(* One InitXxxFunc; the first one refused ends FunctionRegistry::Init. *)
Load == /\ loaded < Len(InitSteps) /\ ~refused
        /\ loaded' = loaded + 1
        /\ refused' = Taken(loaded + 1)
        /\ UNCHANGED <<args, emitted, cache>>

(* A compilation is over, accepted or refused; the next has its own context. *)
Restart == /\ args # << >>
           /\ args' = << >> /\ emitted' = {} /\ cache' = {}
           /\ UNCHANGED <<loaded, refused>>

Compile == /\ loaded = Len(InitSteps) /\ ~refused
           /\ \/ Restart \/ ConstantValueNode \/ ConstantListValueNode \/ EntryPointers
              \/ UnaryOPNode \/ BinaryOPNode \/ IfNode \/ SwitchNode \/ FunctionNode

Next == Load \/ Compile

Spec == Init /\ [][Next]_vars

----------------------------------------------------------------------------
(* Properties.                                                             *)

(* No two built-ins claim the same signature, neither the one a program     *)
(* sees nor the one the linker sees: one clash, and RegisterFunc's refusal  *)
(* leaves the engine without any function.  And a C function is what its    *)
(* registration says it is.  The code passes it as a void*: a copied line   *)
(* with the kernel of another type compiles, and the generated code calls   *)
(* it with arguments it does not have.  The two arguments that              *)
(* CommutativeCallCanonicalizerPass may exchange have one type.             *)
LibraryIsConsistent ==
  /\ ~refused
  /\ loaded > 0 => \A reg \in Range(InitSteps[loaded]) :
       reg.kind # "intrinsic" =>
         /\ reg.fn = Fn(IF reg.kind = "c_ctx" THEN WithCtx(reg.params) ELSE reg.params, reg.ret)
         /\ reg.attr = "commutative" => reg.params[1] = reg.params[2]

(* Every call the generated code makes names a symbol the engine publishes, *)
(* and passes and expects the types that its prototype has: the direct      *)
(* calls of FunctionNode, the calls + and the comparisons of strings stand  *)
(* for, and the ones the sugars write out by hand.                          *)
CallsMatch ==
  \A c \in emitted :
    /\ c.symbol \in DOMAIN Published
    /\ LET fn == Published[c.symbol]
       IN  /\ c.args = [i \in DOMAIN fn.params |-> IRType[fn.params[i]]]
           /\ c.ret = IRType[fn.ret]

(* The value generated for a node has the LLVM type of the type that the    *)
(* validator gave the node: the two visitors decide on their own, and a     *)
(* parent converts by the one a value of the other.                         *)
NodesAgree == \A i \in DOMAIN args : args[i].ir = IRType[args[i].ty]

(* A number that the type of a node can hold survives the conversions on    *)
(* the way to it: of operands to the promoted type, of the branches of if   *)
(* and switch to the type they meet in, by a cast, abs, min, max or minus.  *)
(* A constant list is the list the program wrote, although lists share      *)
(* globals through const_list_cache.                                        *)
ValueKept ==
  \A i \in DOMAIN args :
    /\ args[i].ty \in NumericTypes => args[i].means \in {Unknown, args[i].holds}
    /\ args[i].ty = "F32List" => args[i].means = args[i].holds

(* A cast of a number to a type that can hold it is that number. *)
CastKeepsValue ==
  \A i \in DOMAIN args : \A t \in NumericTypes :
    args[i].ty \in NumericTypes /\ args[i].means # Unknown /\ Fits(args[i].means, t) =>
      NumericTypeConvert(args[i], t).holds = args[i].means
=============================================================================
