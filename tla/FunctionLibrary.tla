-------------------------- MODULE FunctionLibrary --------------------------
(***************************************************************************)
(* The built-in functions: what the InitXxxFunc functions of src/function/ *)
(* enter in the registry when an engine is made, in the order they do.     *)
(*                                                                         *)
(* One definition per function of the code that registers, with the types  *)
(* it registers for.  A registration pairs the signature a program sees    *)
(* with what stands behind it: for a C function its prototype, which the   *)
(* code passes as a void* and no compiler compares with the signature, for *)
(* an LLVM function the name of its lowering.                              *)
(***************************************************************************)
EXTENDS TypeSystem

(* The two orders in which the code lists the numeric types. *)
ByWidth == <<"U8", "I8", "U16", "I16", "U32", "I32", "U64", "I64", "F32", "F64">>
BySign == <<"U8", "U16", "U32", "U64", "I8", "I16", "I32", "I64", "F32", "F64">>
IntsBySign == SubSeq(BySign, 1, 8)
Floats == <<"F32", "F64">>

Over(types, Register(_)) == [i \in DOMAIN types |-> Register(types[i])]
Each(types, Register(_)) == FlattenSeq(Over(types, Register))

(* A C prototype. *)
Fn(params, ret) == [params |-> params, ret |-> ret]

Registration(name, params, ret, kind, attr, fn) ==
  [name |-> name, params |-> params, ret |-> ret, kind |-> kind, attr |-> attr, fn |-> fn]

(* The ways to register.  "c_ctx" is a C function with a trailing pointer to *)
(* the execution context that the signature does not show.                   *)
ReadOnly(name, params, ret, fn) == Registration(name, params, ret, "c", "read_only", fn)
ReadOnlyCtx(name, params, ret, fn) == Registration(name, params, ret, "c_ctx", "read_only", fn)
CommutativeCtx(name, params, ret, fn) ==
  Registration(name, params, ret, "c_ctx", "commutative", fn)
Intrinsic(name, params, ret, lowering) ==
  Registration(name, params, ret, "intrinsic", "none", [lowering |-> lowering])

----------------------------------------------------------------------------
(* src/function/math_function_init.cc                                      *)

(* exp and the logarithms: integers are computed as F64. *)
Transcendental(name, lowering) ==
  Over(<<"I32", "I64", "U32", "U64">>, LAMBDA t : Intrinsic(name, <<t>>, "F64", lowering))
    \o Over(Floats, LAMBDA t : Intrinsic(name, <<t>>, t, lowering))

OnFloats(name) == Over(Floats, LAMBDA t : Intrinsic(name, <<t>>, t, "at_argument_type"))

InitExpFunc == Transcendental("exp", "at_return_type")
InitLogFunc == Transcendental("log", "at_return_type")
                 \o Transcendental("log2", "at_return_type")
                 \o Transcendental("log10", "at_return_type")
InitFracFunc == OnFloats("frac")
InitTruncFunc == OnFloats("trunc")
InitPowFunc ==
  Over(Floats, LAMBDA t : Intrinsic("pow", <<t, "I32">>, t, "powi"))
    \o Over(<<"I32", "I64">>, LAMBDA t : Intrinsic("pow", <<t, "I32">>, "F64", "powi"))
    \o Over(Floats, LAMBDA t : Intrinsic("pow", <<t, t>>, t, "pow"))
InitTrigonometricFunc == OnFloats("sin") \o OnFloats("cos") \o OnFloats("tan")
InitSqrtFunc == OnFloats("sqrt")
InitAbsFunc ==
  Over(<<"I8", "I16">>, LAMBDA t : Intrinsic("abs", <<t>>, "I32", "abs"))
    \o Over(<<"I32", "I64", "F32", "F64">>, LAMBDA t : Intrinsic("abs", <<t>>, t, "abs"))
InitCeilFunc == OnFloats("ceil")
InitFloorFunc == OnFloats("floor")
InitRoundFunc == OnFloats("round")
InitMinFunc == Over(BySign, LAMBDA t : Intrinsic("min", <<t, t>>, t, "min"))
InitMaxFunc == Over(BySign, LAMBDA t : Intrinsic("max", <<t, t>>, t, "max"))
InitCastFunc ==
  Each(ByWidth, LAMBDA r : Over(ByWidth, LAMBDA t :
    Intrinsic("Cast" \o r, <<t>>, r, "cast")))

MathInit == <<InitExpFunc, InitLogFunc, InitFracFunc, InitTruncFunc, InitPowFunc,
              InitTrigonometricFunc, InitSqrtFunc, InitAbsFunc, InitCeilFunc, InitFloorFunc,
              InitRoundFunc, InitMinFunc, InitMaxFunc, InitCastFunc>>

----------------------------------------------------------------------------
(* src/function/string_function_init.cc                                    *)

InitStringInternalFunc ==
  <<ReadOnlyCtx("StringConcat", <<"String", "String">>, "String",
                Fn(<<"String", "String", "Ptr">>, "String")),
    ReadOnly("StringCmp", <<"String", "String">>, "I32", Fn(<<"String", "String">>, "I32")),
    Intrinsic("StringLen", <<"String">>, "U32", "length"),
    ReadOnly("StringContains", <<"String", "String">>, "U8", Fn(<<"String", "String">>, "U8"))>>
  \o Over(ByWidth, LAMBDA t :
            ReadOnlyCtx("CastString", <<t>>, "String", Fn(<<t, "Ptr">>, "String")))
  \o Over(SubSeq(ByWidth, 1, 8), LAMBDA t :
            ReadOnly("Cast" \o t, <<"String">>, t, Fn(<<"String">>, t)))

----------------------------------------------------------------------------
(* src/function/list_arithmetic.cc                                         *)

(* The prototypes of ListAdd and ListAddList, and of their kin. *)
WithScalar(t) == Fn(<<List(t), t, "Ptr">>, List(t))
WithList(t) == Fn(<<List(t), List(t), "Ptr">>, List(t))

(* A list with a scalar for every type, then with a list, registered by Pair. *)
ScalarThenList(name, types, Pair(_, _, _, _)) ==
  Over(types, LAMBDA t : ReadOnlyCtx(name, <<List(t), t>>, List(t), WithScalar(t)))
    \o Over(types, LAMBDA t : Pair(name, <<List(t), List(t)>>, List(t), WithList(t)))

(* One list, mapped to a list of Ret(t). *)
MapList(name, types, Ret(_)) ==
  Over(types, LAMBDA t :
    ReadOnlyCtx(name, <<List(t)>>, List(Ret(t)), Fn(<<List(t), "Ptr">>, List(Ret(t)))))
Same(t) == t
FloatOf(t) == IF t \in FloatTypes THEN t ELSE "F64"

InitListAddFunc == ScalarThenList("ListAdd", BySign, CommutativeCtx)
(* Mutant of InitListSubFunc: registered the way its neighbours are. *)
InitListSubFuncCommutative == ScalarThenList("ListSub", BySign, CommutativeCtx)
InitListSubFunc == ScalarThenList("ListSub", BySign, ReadOnlyCtx)
InitListMulFunc == ScalarThenList("ListMul", BySign, CommutativeCtx)
InitListDivFunc == ScalarThenList("ListDiv", BySign, ReadOnlyCtx)
InitListModFunc == ScalarThenList("ListMod", IntsBySign, ReadOnlyCtx)
InitListBitwiseAndFunc == ScalarThenList("ListBitwiseAnd", IntsBySign, CommutativeCtx)
InitListBitwiseOrFunc == ScalarThenList("ListBitwiseOr", IntsBySign, CommutativeCtx)
InitListBitwiseXorFunc == ScalarThenList("ListBitwiseXor", IntsBySign, CommutativeCtx)
InitListExpFunc == MapList("ListExp", BySign, FloatOf)
InitListLogFunc == MapList("ListLog", BySign, FloatOf)
InitListLog2Func == MapList("ListLog2", BySign, FloatOf)
InitListLog10Func == MapList("ListLog10", BySign, FloatOf)
InitListCeilFunc == MapList("ListCeil", Floats, Same)
InitListFloorFunc == MapList("ListFloor", Floats, Same)
InitListRoundFunc == MapList("ListRound", Floats, Same)
InitListMinFunc ==
  Over(BySign, LAMBDA t : ReadOnlyCtx("ListMin", <<List(t), t>>, List(t), WithScalar(t)))
InitListMaxFunc ==
  Over(BySign, LAMBDA t : ReadOnlyCtx("ListMax", <<List(t), t>>, List(t), WithScalar(t)))

ArithmeticInit ==
  <<InitListAddFunc, InitListSubFunc, InitListMulFunc, InitListDivFunc, InitListModFunc,
    InitListBitwiseAndFunc, InitListBitwiseOrFunc, InitListBitwiseXorFunc, InitListExpFunc,
    InitListLogFunc, InitListLog2Func, InitListLog10Func, InitListCeilFunc, InitListFloorFunc,
    InitListRoundFunc, InitListMinFunc, InitListMaxFunc>>

----------------------------------------------------------------------------
(* src/function/list_comparison.cc                                         *)

(* IfLarge and its kin: elements that compare with the first scalar are *)
(* replaced by the second.                                              *)
Replacing(name) ==
  Over(BySign, LAMBDA t : ReadOnlyCtx(name, <<List(t), t, t>>, List(t),
                                      Fn(<<List(t), t, t, "Ptr">>, List(t))))

InitIfLargeFunc == Replacing("IfLarge")
InitIfLargeEqualFunc == Replacing("IfLargeEqual")
InitIfEqualFunc == Replacing("IfEqual")
InitIfLessFunc == Replacing("IfLess")
InitIfLessEqualFunc == Replacing("IfLessEqual")
InitIfNotEqualFunc == Replacing("IfNotEqual")

(* IfByBitmap: either side may be a list or a scalar, not both scalars. *)
InitIfByBitmapLLRB ==
  Over(BySign, LAMBDA t : ReadOnlyCtx("IfByBitmap", <<"U8List", List(t), t>>, List(t),
                                      Fn(<<"U8List", List(t), t, "Ptr">>, List(t))))
InitIfByBitmapLBRL ==
  Over(BySign, LAMBDA t : ReadOnlyCtx("IfByBitmap", <<"U8List", t, List(t)>>, List(t),
                                      Fn(<<"U8List", t, List(t), "Ptr">>, List(t))))
InitIfByBitmapLLRL ==
  Over(BySign, LAMBDA t : ReadOnlyCtx("IfByBitmap", <<"U8List", List(t), List(t)>>, List(t),
                                      Fn(<<"U8List", List(t), List(t), "Ptr">>, List(t))))

(* GenXxxBitmap of a list with a scalar, and of two lists. *)
BitmapOfScalar(name) ==
  Over(BySign, LAMBDA t : ReadOnlyCtx(name, <<List(t), t>>, "U8List",
                                      Fn(<<List(t), t, "Ptr">>, "U8List")))
BitmapOfLists(name, Pair(_, _, _, _)) ==
  Over(BySign, LAMBDA t : Pair(name, <<List(t), List(t)>>, "U8List",
                               Fn(<<List(t), List(t), "Ptr">>, "U8List")))

InitGenLargeBitmapFunc == BitmapOfScalar("GenLargeBitmap")
InitGenLargeBitmapListFunc == BitmapOfLists("GenLargeBitmap", ReadOnlyCtx)
InitGenLargeEqualBitmapFunc == BitmapOfScalar("GenLargeEqualBitmap")
InitGenLargeEqualBitmapListFunc == BitmapOfLists("GenLargeEqualBitmap", ReadOnlyCtx)
InitGenEqualBitmapFunc == BitmapOfScalar("GenEqualBitmap")
InitGenEqualBitmapListFunc == BitmapOfLists("GenEqualBitmap", CommutativeCtx)
InitGenLessBitmapFunc == BitmapOfScalar("GenLessBitmap")
InitGenLessBitmapListFunc == BitmapOfLists("GenLessBitmap", ReadOnlyCtx)
InitGenLessEqualBitmapFunc == BitmapOfScalar("GenLessEqualBitmap")
InitGenLessEqualBitmapListFunc == BitmapOfLists("GenLessEqualBitmap", ReadOnlyCtx)
InitGenNotEqualBitmapFunc == BitmapOfScalar("GenNotEqualBitmap")
InitGenNotEqualBitmapListFunc == BitmapOfLists("GenNotEqualBitmap", CommutativeCtx)
InitFilterByBitmapFunc ==
  Over(BySign, LAMBDA t : ReadOnlyCtx("FilterByBitmap", <<List(t), "U8List", "U32">>, List(t),
                                      Fn(<<List(t), "U8List", "U32", "Ptr">>, List(t))))
InitFilterByBitmapSugarFunc ==
  Over(BySign, LAMBDA t : Intrinsic("FilterByBitmap", <<List(t), "U8List">>, List(t), "filter"))

ComparisonInit ==
  <<InitIfLargeFunc, InitIfLargeEqualFunc, InitIfEqualFunc, InitIfLessFunc, InitIfLessEqualFunc,
    InitIfNotEqualFunc, InitIfByBitmapLLRB, InitIfByBitmapLBRL, InitIfByBitmapLLRL,
    InitGenLargeBitmapFunc, InitGenLargeBitmapListFunc, InitGenLargeEqualBitmapFunc,
    InitGenLargeEqualBitmapListFunc, InitGenEqualBitmapFunc, InitGenEqualBitmapListFunc,
    InitGenLessBitmapFunc, InitGenLessBitmapListFunc, InitGenLessEqualBitmapFunc,
    InitGenLessEqualBitmapListFunc, InitGenNotEqualBitmapFunc, InitGenNotEqualBitmapListFunc,
    InitFilterByBitmapFunc, InitFilterByBitmapSugarFunc>>

----------------------------------------------------------------------------
(* src/function/list_aggregation.cc                                        *)

(* A list reduced to a scalar of type Ret(t). *)
Reduce(name, Ret(_)) ==
  Over(ByWidth, LAMBDA t : ReadOnly(name, <<List(t)>>, Ret(t), Fn(<<List(t)>>, Ret(t))))

(* The type a sum is kept in. *)
Widest(t) == CASE t \in UnsignedInts -> "U64" [] t \in SignedInts -> "I64" [] OTHER -> "F64"

InitSumFunc == Reduce("Sum", Widest)
InitMaxOfListFunc == Reduce("Max", Same)    \* InitMaxFunc of this file
InitMinOfListFunc == Reduce("Min", Same)    \* InitMinFunc of this file
InitCountDistinctFunc == Reduce("CountDistinct", LAMBDA t : "U32")
InitCountBitsFunc == <<ReadOnly("CountBits", <<"U8List">>, "U32", Fn(<<"U8List">>, "U32"))>>
(* Mutant of InitGetAtFunc: every overload registers the first kernel. *)
InitGetAtFuncOfU8 ==
  Over(ByWidth, LAMBDA t : ReadOnly("GetAt", <<List(t), "U32">>, t, Fn(<<"U8List", "U32">>, "U8")))
InitGetAtFunc ==
  Over(ByWidth, LAMBDA t : ReadOnly("GetAt", <<List(t), "U32">>, t, Fn(<<List(t), "U32">>, t)))
InitAvgFunc == Reduce("Avg", LAMBDA t : "F64")
InitMedianFunc == Reduce("Median", LAMBDA t : "F64")
InitSortedMedianFunc == Reduce("SortedMedian", LAMBDA t : "F64")

AggregationInit ==
  <<InitSumFunc, InitMaxOfListFunc, InitMinOfListFunc, InitCountDistinctFunc,
    InitCountBitsFunc, InitGetAtFunc, InitAvgFunc, InitMedianFunc, InitSortedMedianFunc>>

----------------------------------------------------------------------------
(* src/function/list_basic.cc                                              *)

WithString(types) == types \o <<"String">>
Joining(name) ==
  <<ReadOnlyCtx(name, <<"StringList", "StringList", "String">>, "StringList",
                Fn(<<"StringList", "StringList", "String", "Ptr">>, "StringList"))>>

InitListConcatFunc ==
  Over(WithString(BySign), LAMBDA t :
    ReadOnlyCtx("ListConcat", <<List(t), List(t)>>, List(t), WithList(t)))
InitInFunc ==
  Over(WithString(BySign), LAMBDA t : ReadOnly("in", <<t, List(t)>>, "U8", Fn(<<t, List(t)>>, "U8")))
InitLenFunc ==
  Over(WithString(BySign), LAMBDA t : Intrinsic("Len", <<List(t)>>, "U32", "length"))
InitSortFunc == MapList("SortAsc", BySign, Same) \o MapList("SortDesc", BySign, Same)
InitTruncateFunc ==
  Over(WithString(BySign), LAMBDA t :
    Intrinsic("Truncate", <<List(t), "U32">>, List(t), "truncate"))
InitHashFunc ==
  Over(BySign, LAMBDA t :
    ReadOnly("MurmurHash3X8632", <<List(t)>>, "U32", Fn(<<List(t)>>, "U32")))
(* A list is not cast to its own type, a string list not to a float list. *)
RegisterAllInputsForNumericListCast(r) ==
  Over(SelectSeq(ByWidth, LAMBDA t : t # r) \o IF r \in FloatTypes THEN << >> ELSE <<"String">>,
       LAMBDA t : ReadOnlyCtx("Cast" \o List(r), <<List(t)>>, List(r),
                              Fn(<<List(t), "Ptr">>, List(r))))
InitListCastFunc ==
  Each(ByWidth, RegisterAllInputsForNumericListCast)
    \o MapList("CastStringList", ByWidth, LAMBDA t : "String")
InitUniqueFunc == MapList("Unique", WithString(BySign), Same)
InitCrossJoinFunc == Joining("CrossJoin")
InitZipConcatFunc == Joining("ZipConcat")

BasicInit ==
  <<InitListConcatFunc, InitInFunc, InitLenFunc, InitSortFunc, InitTruncateFunc, InitHashFunc,
    InitListCastFunc, InitUniqueFunc, InitCrossJoinFunc, InitZipConcatFunc>>

----------------------------------------------------------------------------
(* src/function/list_group.cc                                              *)

(* A kernel over values, group ids and the number of groups, and the form *)
(* without the number, which is lowered to GroupCount and the kernel.     *)
ByGroup(name, types, Ret(_)) ==
  Over(types, LAMBDA t : ReadOnlyCtx(name, <<List(t), "U32List", "U32">>, List(Ret(t)),
                                     Fn(<<List(t), "U32List", "U32", "Ptr">>, List(Ret(t)))))
ByGroupSugar(name, types, Ret(_)) ==
  Over(types, LAMBDA t : Intrinsic(name, <<List(t), "U32List">>, List(Ret(t)), "group"))

InitGroupIndexFunc ==
  Over(WithString(ByWidth), LAMBDA t :
    ReadOnlyCtx("GroupIndex", <<List(t)>>, "U32List", Fn(<<List(t), "Ptr">>, "U32List")))
InitGroupCountFunc == <<ReadOnly("GroupCount", <<"U32List">>, "U32", Fn(<<"U32List">>, "U32"))>>
InitGroupKeysFunc == ByGroup("GroupKeys", WithString(ByWidth), Same)
InitGroupKeysSugarFunc == ByGroupSugar("GroupKeys", WithString(ByWidth), Same)
InitGroupSumFunc == ByGroup("GroupSum", ByWidth, Widest)
InitGroupSumSugarFunc == ByGroupSugar("GroupSum", ByWidth, Widest)
InitGroupMaxFunc == ByGroup("GroupMax", ByWidth, Same)
InitGroupMaxSugarFunc == ByGroupSugar("GroupMax", ByWidth, Same)
InitGroupMinFunc == ByGroup("GroupMin", ByWidth, Same)
InitGroupMinSugarFunc == ByGroupSugar("GroupMin", ByWidth, Same)
InitGroupAvgFunc == ByGroup("GroupAvg", ByWidth, LAMBDA t : "F64")
InitGroupAvgSugarFunc == ByGroupSugar("GroupAvg", ByWidth, LAMBDA t : "F64")

GroupInit ==
  <<InitGroupIndexFunc, InitGroupCountFunc, InitGroupKeysFunc, InitGroupKeysSugarFunc,
    InitGroupSumFunc, InitGroupSumSugarFunc, InitGroupMaxFunc, InitGroupMaxSugarFunc,
    InitGroupMinFunc, InitGroupMinSugarFunc, InitGroupAvgFunc, InitGroupAvgSugarFunc>>

----------------------------------------------------------------------------
(* src/function/list_indexing.cc                                           *)

(* Building and probing the table of ListLookupIndex. *)
LookupHelpers(suffix, t) ==
  <<ReadOnlyCtx("__BuildLookupTable" \o suffix, <<List(t)>>, "Ptr",
                Fn(<<List(t), "Ptr">>, "Ptr")),
    ReadOnlyCtx("__LookupTable" \o suffix, <<List(t), "Ptr">>, "U32List",
                Fn(<<List(t), "Ptr", "Ptr">>, "U32List"))>>
Searching(name) ==
  Over(WithString(ByWidth), LAMBDA t :
    ReadOnly(name, <<List(t), t>>, "U32", Fn(<<List(t), t>>, "U32")))
Compacting(name) == <<ReadOnlyCtx(name, <<"U32List">>, "U32List", Fn(<<"U32List", "Ptr">>, "U32List"))>>

InitListLookupIndexFunc ==
  Each(ByWidth, LAMBDA t : LookupHelpers("Int", t)) \o LookupHelpers("String", "String")
    \o Over(WithString(ByWidth), LAMBDA t :
              Intrinsic("ListLookupIndex", <<List(t), List(t)>>, "U32List", "lookup"))
InitFindFunc == Searching("Find")
InitFindSortedFunc == Searching("FindSorted")
InitFindMissFunc == <<Intrinsic("FindMiss", << >>, "U32", "miss")>>
InitListCompactFuncs == Compacting("ListCompactPositions") \o Compacting("ListCompactIndex")
InitListGatherFunc ==
  Over(WithString(ByWidth), LAMBDA t :
    ReadOnlyCtx("ListGather", <<List(t), "U32List", t>>, List(t),
                Fn(<<List(t), "U32List", t, "Ptr">>, List(t))))
InitBucketizeFunc ==
  Over(ByWidth, LAMBDA t :
    ReadOnlyCtx("Bucketize", <<List(t), List(t)>>, "U32List",
                Fn(<<List(t), List(t), "Ptr">>, "U32List")))

IndexingInit == <<InitListLookupIndexFunc, InitFindFunc, InitFindSortedFunc, InitFindMissFunc,
                  InitListCompactFuncs, InitListGatherFunc, InitBucketizeFunc>>

----------------------------------------------------------------------------
(* FunctionRegistry::Init: every InitXxxFunc, in order. *)
InitSteps == MathInit \o <<InitStringInternalFunc>> \o ArithmeticInit \o ComparisonInit
               \o AggregationInit \o BasicInit \o GroupInit \o IndexingInit
=============================================================================
