------------------------------ MODULE EvalSpec ------------------------------
(***************************************************************************)
(* What an evaluation promises (spec.md section 4.4), as one atomic step   *)
(* from a pending evaluation to its outcome: the Result and the final      *)
(* cost_accum.  Den is a big-step semantics written from the spec's words: *)
(*   - If evaluates the condition, then exactly one branch;                *)
(*   - And/Or evaluate the left operand and the right one only when the    *)
(*     left one does not decide;                                           *)
(*   - every other operator evaluates both operands left to right, then    *)
(*     applies checked arithmetic (overflow and division by zero are       *)
(*     ArithmeticException; mixed widths are UnexpectedValue) or           *)
(*     structural equality;                                                *)
(*   - a BinOp adds its cost before its operands; an accumulated cost      *)
(*     above the ceiling is CostExceeded.                                  *)
(***************************************************************************)
EXTENDS EvalValues

CONSTANTS Exprs, CostLimits, EqConstSize

VARIABLES expr, ceiling, outcome

Pending == [res |-> [tag |-> "pending"], cost |-> 0]
Res(r, c) == [res |-> r, cost |-> c]

(* The quotient of the host's checked_div: the q with a = q*b + r,        *)
(* |r| < |b| and r of the sign of a (or zero).                             *)
HostQuot(a, b) ==
  LET fl == a \div AbsVal(b)
  IN CHOOSE q \in {fl, fl + 1, -fl, -(fl + 1)} :
        /\ AbsVal(a - q * b) < AbsVal(b)
        /\ (a - q * b) * a >= 0

SameWidth(lv, rv) == lv.t \in IntTypes /\ rv.t = lv.t

HostChecked(op, t, a, b) ==
  LET exact == CASE op = "Plus" -> a + b [] op = "Minus" -> a - b
                 [] op = "Multiply" -> a * b
                 [] op = "Divide" -> IF b = 0 THEN MaxOf(t) + 1 ELSE HostQuot(a, b)
                 [] op = "Max" -> IF a < b THEN b ELSE a
                 [] op = "Min" -> IF a < b THEN a ELSE b
  IN IF InRange(t, exact) THEN Ok(IntVal(t, exact)) ELSE Err("ArithmeticException")

Strict(op, lv, rv) ==
  CASE op = "Eq"  -> Ok(Bool(lv = rv))
    [] op = "NEq" -> Ok(Bool(~(lv = rv)))
    [] ~SameWidth(lv, rv) -> Err("UnexpectedValue")
    [] op = "GT" -> Ok(Bool(lv.v > rv.v))  [] op = "GE" -> Ok(Bool(lv.v >= rv.v))
    [] op = "LT" -> Ok(Bool(lv.v < rv.v))  [] op = "LE" -> Ok(Bool(lv.v <= rv.v))
    [] OTHER     -> HostChecked(op, lv.t, lv.v, rv.v)

IsBool(r) == IsOk(r) /\ r.val.t = "SBoolean"

RECURSIVE Den(_, _, _)
Den(e, c, lim) ==
  CASE e.k = "Const" -> Res(Ok(e.val), c)
    [] e.k = "If" ->
         LET cd == Den(e.cond, c, lim)
         IN IF ~IsOk(cd.res) THEN cd
            ELSE IF ~IsBool(cd.res) THEN Res(Err("UnexpectedValue"), cd.cost)
            ELSE Den(IF cd.res.val.v THEN e.tb ELSE e.fb, cd.cost, lim)
    [] e.k = "BinOp" ->
         LET c1 == c + EqConstSize
             l  == Den(e.left, c1, lim)
             decided == (e.op = "And" /\ IsBool(l.res) /\ ~l.res.val.v)
                     \/ (e.op = "Or" /\ IsBool(l.res) /\ l.res.val.v)
             r  == Den(e.right, l.cost, lim)
         IN IF c1 > lim THEN Res(Err("CostExceeded"), c1)
            ELSE IF ~IsOk(l.res) THEN l
            ELSE IF e.op \in LogicOps /\ ~IsBool(l.res) THEN Res(Err("UnexpectedValue"), l.cost)
            ELSE IF decided THEN l
            ELSE IF ~IsOk(r.res) THEN r
            ELSE IF e.op \in LogicOps
                   THEN IF IsBool(r.res) THEN r ELSE Res(Err("UnexpectedValue"), r.cost)
            ELSE Res(Strict(e.op, l.res.val, r.res.val), r.cost)

Init ==
  /\ expr \in Exprs
  /\ ceiling \in CostLimits
  /\ outcome = Pending

Evaluate ==
  /\ outcome = Pending
  /\ outcome' = Den(expr, 0, ceiling)
  /\ UNCHANGED <<expr, ceiling>>

Spec == Init /\ [][Evaluate]_<<expr, ceiling, outcome>>
             /\ WF_<<expr, ceiling, outcome>>(Evaluate)
=============================================================================
