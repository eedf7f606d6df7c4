---------------------------- MODULE MCExprSerde ----------------------------
(***************************************************************************)
(* TLC instance of ExprSerde: the trees the proptest strategies draw       *)
(* (every BinOp over two leaves, Ifs with equal branches), and Ifs and     *)
(* BinOps nested two deep with distinct branches, well-typed or not (the   *)
(* wire form does not depend on types).                                    *)
(***************************************************************************)
EXTENDS ExprSerde

MCWidth == [SByte |-> 8]

B0 == Const(IntVal("SByte", 0))
B1 == Const(IntVal("SByte", 1))
T  == Const(Bool(TRUE))
Leaves == {B0, B1, T}

Flat == ArbBinOp("SAny", Leaves, {B0, B1})
Mid  == Leaves \cup {BinOp("GT", B0, B1), BinOp("Plus", B1, B0), If(T, B0, B1)}
Nested == {If(c, t, f) : c \in {T, BinOp("GT", B0, B1)}, t \in Mid, f \in {B0, If(T, B1, B0)}}
          \cup {BinOp(op, l, r) : op \in {"GE", "Divide"}, l \in Mid, r \in {B1, BinOp("LT", B1, B0)}}

(* What the round-trip proptests alone would draw at this size.           *)
ArbTrees == Leaves \cup Flat \cup ArbBinOp("SBoolean", Leaves, {B0, B1})
              \cup ArbIf({T, BinOp("GT", B0, B1)}, Leaves \cup Flat)

MCExprs == ArbTrees \cup Nested
=============================================================================
