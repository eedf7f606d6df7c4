---------------------------- MODULE MCEvaluator ----------------------------
(***************************************************************************)
(* Instantiates Evaluator for TLC.  Value::Byte keeps its 8 bits and       *)
(* Value::Short its 16; Int and Long run the same generic eval_* code and  *)
(* are left out because their ranges exceed TLC's integers.               *)
(***************************************************************************)
EXTENDS Evaluator

MCWidth == [SByte |-> 8, SShort |-> 16]

B(n) == Const(IntVal("SByte", n))
S(n) == Const(IntVal("SShort", n))
T == Const(Bool(TRUE))
F == Const(Bool(FALSE))

(* Leaves at the edges of each width.                                      *)
Leaves == {B(n) : n \in {-128, -1, 0, 1, 127}} \cup {S(n) : n \in {-32768, -1, 2}} \cup {T, F}

(* Subtrees that fail, overflow or decide, used as operands of a second    *)
(* level so that errors and short circuits meet laziness and ordering.     *)
Probes == { BinOp("Divide", B(1), B(0)),          \* ArithmeticException
            BinOp("Plus", B(127), B(1)),          \* overflow
            BinOp("LT", B(-1), B(0)),             \* TRUE
            BinOp("And", F, BinOp("Divide", B(1), B(0))),  \* FALSE, lazily
            If(T, B(1), B(0)) }
Small == {B(0), B(-1), T, F}

Compose(C) == {BinOp(op, l, r) : op \in ArithOps \cup RelationOps, l \in C, r \in C}
              \cup {If(c, t, f) : c \in C, t \in C, f \in C}

(* A failing left operand beside a right operand of two BinOps: were the  *)
(* right evaluated first, it would cost 3 before the left fails (the       *)
(* outcome's cost changes), and under limit 2 it would cross the ceiling   *)
(* (the error changes), so the order of strict operands is observable.     *)
(* A succeeding left operand makes four BinOps visited in one evaluation;  *)
(* Deep as a left operand makes limit 2 bite inside the left operand.      *)
Deep == BinOp("Plus", BinOp("Minus", B(1), B(1)), B(0))
OrderTrees == {BinOp(op, l, Deep) : op \in {"Plus", "Multiply", "GT"},
                                    l \in {BinOp("Divide", B(1), B(0)), BinOp("Plus", B(127), B(1)),
                                           BinOp("Minus", B(1), B(1))}}
              \cup {BinOp("Plus", Deep, B(1))}

MCTrees == Leaves \cup Compose(Leaves) \cup Compose(Small \cup Probes) \cup OrderTrees

MCExprs == {e \in MCTrees : WellTyped(e)}
MCParsedExprs == {e \in MCTrees : Parsed(e)}
MCCostLimits == {2, 10}

(* The abstract evaluation: the outcome is pending until the root call    *)
(* has returned, then it is the returned Result and the accumulated cost.  *)
Abs == INSTANCE EvalSpec WITH expr <- root, ceiling <- limit,
         outcome <- IF stack = <<>> THEN [res |-> ret, cost |-> cost] ELSE [res |-> [tag |-> "pending"], cost |-> 0]

(* The evaluator implements the spec's big-step semantics: laziness of If, *)
(* And and Or, left-to-right strict operands, checked arithmetic, the cost *)
(* charged by each visited BinOp, and that every evaluation terminates.    *)
ImplementsEvalSpec == Abs!Spec
=============================================================================
