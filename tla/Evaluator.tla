----------------------------- MODULE Evaluator -----------------------------
(***************************************************************************)
(* The evaluator of BinOp (ergotree-ir/src/mir/bin_op.rs) and If          *)
(* (ergo-lib/src/ast/if_op.rs) as an explicit-stack machine.  Evaluable::  *)
(* eval is a recursive Rust function; each frame of the Rust call stack is *)
(* a record of `stack`, and each action is the code of one eval between   *)
(* two recursive calls: a call pushes the child's frame, a return pops the *)
(* frame and leaves the returned Result in `ret`.  The `?` operator is the *)
(* action Propagate.  A todo!() panics and unwinds every frame.            *)
(***************************************************************************)
EXTENDS EvalValues, Sequences

CONSTANTS
  Exprs,        \* the expression trees an evaluation may start from
  CostLimits,   \* the cost ceilings an EvalContext may be created with
  EqConstSize   \* Costs::DEFAULT.eq_const_size, charged by BinOp::eval

VARIABLES
  root,    \* the expression being evaluated
  stack,   \* the Rust call stack of Evaluable::eval, innermost frame last
  ret,     \* the Result returned by the last completed call, or NoRet
  cost,    \* ctx.cost_accum's accumulated cost
  limit    \* ctx.cost_accum's limit

vars == <<root, stack, ret, cost, limit>>

NoRet == [tag |-> "none"]
NoVal == [t |-> "none", v |-> 0]

Frame(e) == [e |-> e, pc |-> "start", lv |-> NoVal]
Top == stack[Len(stack)]
SetTop(f) == [stack EXCEPT ![Len(stack)] = f]
Pop == SubSeq(stack, 1, Len(stack) - 1)

(***************************************************************************)
(* Static types: BinOp::tpe and If::tpe.                                   *)
(***************************************************************************)
RECURSIVE Tpe(_), BinOpTpe(_), IfTpe(_)
(* Mutant: a relation typed like an arithmetic operator.                  *)
BinOpTpeLeft(e) == Tpe(e.left)
BinOpTpe(e) == IF e.op \in RelationOps THEN "SBoolean" ELSE Tpe(e.left)
IfTpe(e) == Tpe(e.tb)
Tpe(e) == CASE e.k = "Const" -> e.val.t
            [] e.k = "BinOp" -> BinOpTpe(e)
            [] e.k = "If"    -> IfTpe(e)

(***************************************************************************)
(* The trees the evaluator may be given.  Deserialisation is the only     *)
(* producer of trees at run time.  WellTyped is the typing the spec        *)
(* (section 4.2) requires of every node; Parsed is what the parsers admit: *)
(* If::sigma_parse reads three expressions and checks none of their       *)
(* types, the BinOp parser is assumed to type-check as the spec says.     *)
(***************************************************************************)
OperandsTyped(e) ==
  LET lt == Tpe(e.left)
      rt == Tpe(e.right)
  IN CASE e.op \in ArithOps \cup OrderOps -> lt = rt /\ lt \in IntTypes \cup {"SBigInt"}
       [] e.op \in LogicOps -> lt = "SBoolean" /\ rt = "SBoolean"
       [] e.op \in EqOps -> lt = rt

RECURSIVE WellTyped(_), Parsed(_)
WellTyped(e) ==
  CASE e.k = "Const" -> TRUE
    [] e.k = "BinOp" -> WellTyped(e.left) /\ WellTyped(e.right) /\ OperandsTyped(e)
    [] e.k = "If"    -> /\ WellTyped(e.cond) /\ WellTyped(e.tb) /\ WellTyped(e.fb)
                        /\ Tpe(e.cond) = "SBoolean" /\ Tpe(e.tb) = Tpe(e.fb)

Parsed(e) ==
  CASE e.k = "Const" -> TRUE
    [] e.k = "BinOp" -> Parsed(e.left) /\ Parsed(e.right) /\ OperandsTyped(e)
    [] e.k = "If"    -> Parsed(e.cond) /\ Parsed(e.tb) /\ Parsed(e.fb)

(***************************************************************************)
(* The checked arithmetic of eval_plus, eval_minus, eval_mul, eval_div,    *)
(* eval_max and eval_min on two payloads of the same integer type t.       *)
(* Rust's `/` truncates toward zero; checked_div fails on a zero divisor   *)
(* and on MIN / -1.                                                        *)
(***************************************************************************)
TruncQuot(a, b) == IF (a < 0) = (b < 0) THEN AbsVal(a) \div AbsVal(b)
                                        ELSE -(AbsVal(a) \div AbsVal(b))

Checked(t, n) == IF InRange(t, n) THEN Ok(IntVal(t, n)) ELSE Err("ArithmeticException")

EvalArith(op, t, a, b) ==
  CASE op = "Plus"     -> Checked(t, a + b)
    [] op = "Minus"    -> Checked(t, a - b)
    [] op = "Multiply" -> Checked(t, a * b)
    [] op = "Divide"   -> IF b = 0 THEN Err("ArithmeticException")
                                   ELSE Checked(t, TruncQuot(a, b))
    [] op = "Max"      -> Ok(IntVal(t, IF a >= b THEN a ELSE b))
    [] op = "Min"      -> Ok(IntVal(t, IF a <= b THEN a ELSE b))

(* rv.try_extract_into::<T>(): the right operand must have lv's variant.   *)
TryExtract(t, rv) == rv.t = t

(* eval_ge, eval_gt, eval_lt, eval_le: match on lv, then extract rv.       *)
Compare(op, a, b) ==
  CASE op = "GE" -> a >= b [] op = "GT" -> a > b
    [] op = "LE" -> a <= b [] op = "LT" -> a < b

EvalOrder(op, lv, rv) ==
  CASE lv.t \in IntTypes -> IF TryExtract(lv.t, rv) THEN Ok(Bool(Compare(op, lv.v, rv.v)))
                                                    ELSE Err("UnexpectedValue")
    [] lv.t = "SBigInt"  -> Panic
    [] OTHER             -> Err("UnexpectedValue")

(***************************************************************************)
(* BinOp::eval after the left operand returned lv: whether the closure rv  *)
(* is called, and the result when it is not.  Eq, NEq and the orderings    *)
(* call rv() before looking at lv; And and Or extract a bool from lv and   *)
(* call rv() only when it does not decide; the arithmetic operators match  *)
(* lv first and call rv() only in an integer arm.                          *)
(***************************************************************************)
(* Mutant: And/Or call rv() whatever lv is (laziness lost).               *)
NeedsRightEager(op, lv) ==
  CASE op \in EqOps \cup OrderOps \cup LogicOps -> TRUE
    [] OTHER -> lv.t \in IntTypes

NeedsRight(op, lv) ==
  CASE op \in EqOps \cup OrderOps -> TRUE
    [] op = "And" -> lv.t = "SBoolean" /\ lv.v
    [] op = "Or"  -> lv.t = "SBoolean" /\ ~lv.v
    [] OTHER      -> lv.t \in IntTypes

ShortCircuit(op, lv) ==
  CASE op = "And" /\ lv.t = "SBoolean" -> Ok(Bool(FALSE))
    [] op = "Or"  /\ lv.t = "SBoolean" -> Ok(Bool(TRUE))
    [] op \in ArithOps /\ lv.t = "SBigInt" -> Panic
    [] OTHER -> Err("UnexpectedValue")

(* BinOp::eval once both operands are values.                              *)
EvalBinOp(op, lv, rv) ==
  CASE op = "Eq"  -> Ok(Bool(lv = rv))
    [] op = "NEq" -> Ok(Bool(lv /= rv))
    [] op \in OrderOps -> EvalOrder(op, lv, rv)
    [] op \in LogicOps -> IF rv.t = "SBoolean" THEN Ok(rv) ELSE Err("UnexpectedValue")
    [] op \in ArithOps -> IF TryExtract(lv.t, rv) THEN EvalArith(op, lv.t, lv.v, rv.v)
                                                ELSE Err("UnexpectedValue")

(* CostAccumulator::add: the cost is added, then compared to the limit.    *)
AddCost(c) == cost + c

-----------------------------------------------------------------------------
(***************************************************************************)
(* Actions.                                                                *)
(***************************************************************************)

(* Return from a callee with `ret` to the frame in state `pc` of kind k.   *)
Returned(k, pc) ==
  /\ stack /= <<>>
  /\ Top.e.k = k
  /\ Top.pc = pc
  /\ ret.tag = "ok"

(* Expr::eval of a constant returns its value.                             *)
EvalConst ==
  /\ stack /= <<>>
  /\ Top.e.k = "Const"
  /\ stack' = Pop
  /\ ret' = Ok(Top.e.val)
  /\ UNCHANGED <<root, cost, limit>>

(* `?` after a recursive call that returned Err: the caller returns it.    *)
Propagate ==
  /\ stack /= <<>>
  /\ Top.pc /= "start"
  /\ ret.tag = "err"
  /\ stack' = Pop
  /\ UNCHANGED <<root, ret, cost, limit>>

(* Mutant: the `?` after cost_accum.add is dropped; the evaluation goes   *)
(* on past the limit.                                                      *)
BinOpEnterUnchecked ==
  /\ stack /= <<>>
  /\ Top.e.k = "BinOp"
  /\ Top.pc = "start"
  /\ cost' = AddCost(EqConstSize)
  /\ stack' = Append(SetTop([Top EXCEPT !.pc = "left"]), Frame(Top.e.left))
  /\ ret' = NoRet
  /\ UNCHANGED <<root, limit>>

(* ctx.cost_accum.add(eq_const_size)?; then self.left.eval(env, ctx).      *)
BinOpEnter ==
  /\ stack /= <<>>
  /\ Top.e.k = "BinOp"
  /\ Top.pc = "start"
  /\ cost' = AddCost(EqConstSize)
  /\ IF cost' > limit
       THEN /\ stack' = Pop
            /\ ret' = Err("CostExceeded")
       ELSE /\ stack' = Append(SetTop([Top EXCEPT !.pc = "left"]), Frame(Top.e.left))
            /\ ret' = NoRet
  /\ UNCHANGED <<root, limit>>

(* The left operand returned lv: call rv() or produce the result.         *)
BinOpLeftDone ==
  /\ Returned("BinOp", "left")
  /\ LET op == Top.e.op
         lv == ret.val
     IN IF NeedsRight(op, lv)
          THEN /\ stack' = Append(SetTop([Top EXCEPT !.pc = "right", !.lv = lv]),
                                  Frame(Top.e.right))
               /\ ret' = NoRet
          ELSE /\ stack' = IF ShortCircuit(op, lv) = Panic THEN <<>> ELSE Pop
               /\ ret' = ShortCircuit(op, lv)
  /\ UNCHANGED <<root, cost, limit>>

(* The right operand returned rv: apply the operator.                     *)
BinOpRightDone ==
  /\ Returned("BinOp", "right")
  /\ LET r == EvalBinOp(Top.e.op, Top.lv, ret.val)
     IN /\ stack' = IF r = Panic THEN <<>> ELSE Pop
        /\ ret' = r
  /\ UNCHANGED <<root, cost, limit>>

(* If::eval: self.condition.eval(env, ctx)?.                              *)
IfEnter ==
  /\ stack /= <<>>
  /\ Top.e.k = "If"
  /\ Top.pc = "start"
  /\ stack' = Append(SetTop([Top EXCEPT !.pc = "cond"]), Frame(Top.e.cond))
  /\ ret' = NoRet
  /\ UNCHANGED <<root, cost, limit>>

(* condition_v.try_extract_into::<bool>()?, then evaluate one branch.      *)
IfCondDone ==
  /\ Returned("If", "cond")
  /\ IF ret.val.t = "SBoolean"
       THEN /\ stack' = Append(SetTop([Top EXCEPT !.pc = "branch"]),
                               Frame(IF ret.val.v THEN Top.e.tb ELSE Top.e.fb))
            /\ ret' = NoRet
       ELSE /\ stack' = Pop
            /\ ret' = Err("UnexpectedValue")
  /\ UNCHANGED <<root, cost, limit>>

(* The branch's Result is If::eval's Result.                              *)
IfBranchDone ==
  /\ Returned("If", "branch")
  /\ stack' = Pop
  /\ UNCHANGED <<root, ret, cost, limit>>

(* The evaluation has returned to its caller.                              *)
Finished ==
  /\ stack = <<>>
  /\ UNCHANGED vars

Init ==
  /\ root \in Exprs
  /\ limit \in CostLimits
  /\ stack = <<Frame(root)>>
  /\ ret = NoRet
  /\ cost = 0

Step ==
  \/ EvalConst
  \/ Propagate
  \/ BinOpEnter
  \/ BinOpLeftDone
  \/ BinOpRightDone
  \/ IfEnter
  \/ IfCondDone
  \/ IfBranchDone

Next == Step \/ Finished

(* The evaluation runs on one thread to completion: no step is ever       *)
(* postponed forever once it is enabled.                                   *)
Spec == Init /\ [][Next]_vars /\ WF_vars(Step)

-----------------------------------------------------------------------------
(***************************************************************************)
(* Properties.                                                             *)
(***************************************************************************)
Pcs == {"start", "left", "right", "cond", "branch"}
ErrKinds == {"ArithmeticException", "UnexpectedValue", "CostExceeded"}

(* Every frame holds an expression node; a returned Result is Ok of a     *)
(* Value whose integer payload fits its width, or one of the EvalError     *)
(* kinds; and the accumulated cost never passes the limit by more than one *)
(* charge, because CostAccumulator::add fails as soon as the limit is      *)
(* passed and BinOp::eval returns that error with `?`.                     *)
TypeOK ==
  /\ \A i \in DOMAIN stack : stack[i].pc \in Pcs /\ stack[i].e.k \in {"Const", "BinOp", "If"}
  /\ ret.tag \in {"none", "ok", "err", "panic"}
  /\ IsOk(ret) /\ ret.val.t \in IntTypes => InRange(ret.val.t, ret.val.v)
  /\ ret.tag = "err" => ret.kind \in ErrKinds
  /\ cost \in 0..(limit + EqConstSize)
  /\ limit \in CostLimits

(* A successful evaluation returns a value of the type that tpe() gives   *)
(* the root: BinOp::tpe says SBoolean for relations and the left operand's *)
(* type otherwise, If::tpe says the true branch's type, whichever branch   *)
(* and whichever short-circuit the evaluation took.                        *)
ResultHasStaticType ==
  (stack = <<>> /\ IsOk(ret)) => ret.val.t = Tpe(root)

=============================================================================
