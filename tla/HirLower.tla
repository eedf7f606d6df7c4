------------------------------ MODULE HirLower ------------------------------
(***************************************************************************)
(* HIR lowering of the ErgoScript compiler (ergoscript-compiler/src/       *)
(* hir.rs): lower, Expr::lower and Binary::lower as recursive operators    *)
(* over the parser's AST, with the three outcomes the code can have: Ok,   *)
(* Err(HirLoweringError) and a panic (unwrap on None, unreachable!(),      *)
(* todo!()).                                                               *)
(*                                                                         *)
(* The AST (ast.rs, outside src/) is modelled by the values its accessors  *)
(* can return: a Root's expression children; a BinaryExpr's op() token,   *)
(* lhs() and rhs(), each an Option; an Ident's name(), an Option; and any *)
(* other expression kind (a literal, a parenthesised expression ...).      *)
(*   [k |-> "Binary", op |-> Token or "none", lhs |-> Opt, rhs |-> Opt]   *)
(*   [k |-> "Ident", name |-> <<>> or <<n>>]                               *)
(*   [k |-> "Literal"]                                                     *)
(* where an Opt is <<>> or <<expr>>.  Spans and the always-None tpe of the *)
(* HIR are left out: no property reads them.                               *)
(***************************************************************************)
EXTENDS Integers, Sequences

CONSTANTS Roots   \* the ast::Root values lowering may be given

VARIABLES ast, out

vars == <<ast, out>>

Pending == [tag |-> "pending"]
Ok(v)   == [tag |-> "ok", val |-> v]
Err     == [tag |-> "err"]        \* HirLoweringError(""): no detail
Panic   == [tag |-> "panic"]

HirOps == {"Plus", "Minus", "Multiply", "Divide"}   \* enum BinaryOp

(* The match of Binary::lower from SyntaxKind to BinaryOp.                 *)
OpOf == [Plus |-> "Plus", Minus |-> "Minus", Star |-> "Multiply", Slash |-> "Divide"]

HIdent(n)        == [kind |-> "Ident", name |-> n]
HBinary(o, l, r) == [kind |-> "Binary", op |-> o, lhs |-> l, rhs |-> r]

RECURSIVE ExprLower(_), BinaryLowerSwapped(_), BinaryLower(_), ExprLowerDefault(_)

(* Mutant: the lowered rhs is boxed into the lhs field and vice versa.    *)
BinaryLowerSwapped(e) ==
  LET l == ExprLower(e.lhs[1])
      r == ExprLower(e.rhs[1])
  IN IF e.op \notin DOMAIN OpOf \/ e.lhs = <<>> THEN Panic
     ELSE IF l = Panic \/ e.rhs = <<>> \/ r = Panic THEN Panic
     ELSE IF l = Err THEN l
     ELSE IF r = Err THEN r
     ELSE Ok(HBinary(OpOf[e.op], r.val, l.val))


(* Binary::lower: the op token is unwrapped and matched (unreachable!()    *)
(* on other kinds), the lhs is unwrapped and lowered, then the rhs; only   *)
(* then are the two Results checked with `?`, lhs first.                   *)
BinaryLower(e) ==
  LET l == ExprLower(e.lhs[1])
      r == ExprLower(e.rhs[1])
  IN IF e.op \notin DOMAIN OpOf \/ e.lhs = <<>> THEN Panic
     ELSE IF l = Panic \/ e.rhs = <<>> \/ r = Panic THEN Panic
     ELSE IF l = Err THEN l
     ELSE IF r = Err THEN r
     ELSE Ok(HBinary(OpOf[e.op], l.val, r.val))

(* Mutant: an Ident without a name token lowers to an empty name, as     *)
(* with name().map(..).unwrap_or_default().                                *)
ExprLowerDefault(e) ==
  CASE e.k = "Binary" -> BinaryLower(e)
    [] e.k = "Ident"  -> Ok(HIdent(IF e.name = <<>> THEN "" ELSE e.name[1]))
    [] OTHER          -> Panic

(* Expr::lower: BinaryExpr and Ident are lowered, every other kind hits   *)
(* todo!().  An Ident without a name token is HirLoweringError("").        *)
ExprLower(e) ==
  CASE e.k = "Binary" -> BinaryLower(e)
    [] e.k = "Ident"  -> IF e.name = <<>> THEN Err ELSE Ok(HIdent(e.name[1]))
    [] OTHER          -> Panic

(* lower: the first expression child of the root, unwrapped; the others    *)
(* are ignored.                                                            *)
Lower(root) == IF root = <<>> THEN Panic ELSE ExprLower(root[1])

-----------------------------------------------------------------------------
Init == ast \in Roots /\ out = Pending

LowerStep == out = Pending /\ out' = Lower(ast) /\ UNCHANGED ast

Done == out /= Pending /\ UNCHANGED vars

Next == LowerStep \/ Done

Spec == Init /\ [][Next]_vars /\ WF_vars(LowerStep)

-----------------------------------------------------------------------------
(***************************************************************************)
(* Properties.  The meaning of each operator token, written from the       *)
(* ErgoScript grammar rather than from Binary::lower's match.              *)
(***************************************************************************)
TokenMeaning(tok, hop) ==
  \/ tok = "Plus"  /\ hop = "Plus"
  \/ tok = "Minus" /\ hop = "Minus"
  \/ tok = "Star"  /\ hop = "Multiply"
  \/ tok = "Slash" /\ hop = "Divide"

RECURSIVE IsHir(_), Mirrors(_, _)
IsHir(h) == CASE h.kind = "Ident"  -> h.name /= ""
              [] h.kind = "Binary" -> h.op \in HirOps /\ IsHir(h.lhs) /\ IsHir(h.rhs)

(* HIR tree h is the AST expression a, node for node: the same identifier  *)
(* names, each operator the one its token means, operands in place.        *)
Mirrors(a, h) ==
  CASE a.k = "Ident"  -> h.kind = "Ident" /\ a.name = <<h.name>>
    [] a.k = "Binary" -> /\ h.kind = "Binary" /\ TokenMeaning(a.op, h.op)
                         /\ a.lhs /= <<>> /\ a.rhs /= <<>>
                         /\ Mirrors(a.lhs[1], h.lhs) /\ Mirrors(a.rhs[1], h.rhs)
    [] OTHER          -> FALSE

(* The outcome is pending, an error, a panic, or an HIR tree whose binary *)
(* nodes carry a BinaryOp and whose identifiers have the non-empty name of *)
(* their token.                                                            *)
TypeOK ==
  /\ out.tag \in {"pending", "ok", "err", "panic"}
  /\ out.tag = "ok" => IsHir(out.val)

(* Whatever the nesting, a successful lowering of a root is its first      *)
(* expression node for node: no operand of a Binary is lost, swapped or    *)
(* taken from a sibling, and no operator token is misread.                 *)
LowerMirrorsAst ==
  out.tag = "ok" => ast /= <<>> /\ Mirrors(ast[1], out.val)
====
