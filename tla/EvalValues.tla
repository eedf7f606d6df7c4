---------------------------- MODULE EvalValues ----------------------------
(***************************************************************************)
(* The value domain, the expression trees and the evaluation results       *)
(* shared by the evaluator (Evaluator) and its abstract specification      *)
(* (EvalSpec).                                                             *)
(*                                                                         *)
(* A Value (ergotree-ir mir/value.rs) is a record [t |-> tag, v |->        *)
(* payload].  The integer variants carry a two's-complement payload whose *)
(* width in bits is given by the constant Width; Value::BigInt is a unit   *)
(* variant in this version of the code, so its payload is a dummy 0.       *)
(*                                                                         *)
(* An Expr is one of                                                       *)
(*   [k |-> "Const", val |-> Value]                                        *)
(*   [k |-> "BinOp", op |-> Op, left |-> Expr, right |-> Expr]             *)
(*   [k |-> "If", cond |-> Expr, tb |-> Expr, fb |-> Expr]                 *)
(***************************************************************************)
EXTENDS Integers

CONSTANT Width   \* [IntTypes -> bit width] of Value::Byte, Short, Int, Long

IntTypes  == DOMAIN Width
ArithOps  == {"Plus", "Minus", "Multiply", "Divide", "Max", "Min"}
OrderOps  == {"GT", "GE", "LT", "LE"}
EqOps     == {"Eq", "NEq"}
LogicOps  == {"And", "Or"}
RelationOps == OrderOps \cup EqOps \cup LogicOps

Bool(b)      == [t |-> "SBoolean", v |-> b]
IntVal(t, n) == [t |-> t, v |-> n]
BigIntVal    == [t |-> "SBigInt", v |-> 0]

MinOf(t) == -(2^(Width[t] - 1))
MaxOf(t) == 2^(Width[t] - 1) - 1
InRange(t, n) == MinOf(t) <= n /\ n <= MaxOf(t)

Const(val)        == [k |-> "Const", val |-> val]
BinOp(op, l, r)   == [k |-> "BinOp", op |-> op, left |-> l, right |-> r]
If(c, t, f)       == [k |-> "If", cond |-> c, tb |-> t, fb |-> f]

(* Outcomes of Evaluable::eval: Ok(value), Err(EvalError kind), or a Rust   *)
(* panic (todo!()), which unwinds the whole evaluation.                    *)
Ok(val)  == [tag |-> "ok", val |-> val]
Err(kind) == [tag |-> "err", kind |-> kind]
Panic    == [tag |-> "panic"]
IsOk(r)  == r.tag = "ok"

AbsVal(n) == IF n < 0 THEN -n ELSE n
=============================================================================
