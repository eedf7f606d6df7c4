----------------------------- MODULE ExprSerde -----------------------------
(***************************************************************************)
(* The wire form of BinOp and If trees: the opcode maps of                 *)
(* ergotree-ir/src/mir/bin_op.rs (From<ArithOp>, From<RelationOp>,         *)
(* From<BinOpKind> for OpCode, BinOp::op_code) and If::op_code,            *)
(* If::sigma_serialize and If::sigma_parse (ergo-lib/src/ast/if_op.rs).    *)
(*                                                                         *)
(* A wire is a sequence of tokens [op |-> OpCode]; a constant is a single  *)
(* token that also carries its value (its type tag and payload are the     *)
(* constant serializer's, outside src/).  Expr::sigma_serialize writes a   *)
(* node's opcode, then the node's own fields; Expr::sigma_parse reads an   *)
(* opcode and dispatches on it (both outside src/, spec.md section 3).     *)
(* The type check of the BinOp reader is not part of this module.          *)
(*                                                                         *)
(* A sender serialises a tree; the receiver parses the first `cut` tokens  *)
(* of the wire, any prefix of it, since input may end prematurely.         *)
(***************************************************************************)
EXTENDS EvalValues, Sequences

CONSTANT Exprs   \* the trees that may be serialised

VARIABLES tree, wire, cut, got

vars == <<tree, wire, cut, got>>

(* OpCode of each ArithOp and RelationOp.                                  *)
ArithOpCode == [Plus |-> "PLUS", Minus |-> "MINUS", Multiply |-> "MULTIPLY",
                Divide |-> "DIVISION", Max |-> "MAX", Min |-> "MIN"]

(* Mutant: GT is given the opcode of GE (a copy-paste slip in the match). *)
RelationOpCodeGE == [Eq |-> "EQ", NEq |-> "NEQ", GE |-> "GE", GT |-> "GE",
                     LE |-> "LE", LT |-> "LT", And |-> "BIN_AND", Or |-> "BIN_OR"]

RelationOpCode == [Eq |-> "EQ", NEq |-> "NEQ", GE |-> "GE", GT |-> "GT",
                   LE |-> "LE", LT |-> "LT", And |-> "BIN_AND", Or |-> "BIN_OR"]

(* From<BinOpKind> for OpCode, used by BinOp::op_code.                     *)
BinOpKindCode(op) == IF op \in ArithOps THEN ArithOpCode[op] ELSE RelationOpCode[op]

IfOpCode == "IF"
ConstOpCode == "CONST"

OpCode(e) == CASE e.k = "BinOp" -> BinOpKindCode(e.op)
               [] e.k = "If"    -> IfOpCode
               [] e.k = "Const" -> ConstOpCode

RECURSIVE Serialize(_), IfSerializeTbTwice(_), IfSerialize(_)

(* Mutant: the true branch is written where the false branch belongs.     *)
IfSerializeTbTwice(e) == Serialize(e.cond) \o Serialize(e.tb) \o Serialize(e.tb)


(* If::sigma_serialize: condition, true branch, false branch.              *)
IfSerialize(e) == Serialize(e.cond) \o Serialize(e.tb) \o Serialize(e.fb)

(* Expr::sigma_serialize: the opcode, then the node's fields.              *)
Serialize(e) ==
  CASE e.k = "Const" -> <<[op |-> ConstOpCode, val |-> e.val]>>
    [] e.k = "BinOp" -> <<[op |-> OpCode(e)]>> \o Serialize(e.left) \o Serialize(e.right)
    [] e.k = "If"    -> <<[op |-> IfOpCode]>> \o IfSerialize(e)

(* The BinOp reader's dispatch from an opcode back to its operator.       *)
BinOpCodes == {BinOpKindCode(op) : op \in ArithOps \cup RelationOps}
KindOfCode(c) == CHOOSE op \in ArithOps \cup RelationOps : BinOpKindCode(op) = c

Parsed(e, next) == [ok |-> TRUE, e |-> e, next |-> next]
Fail(kind) == [ok |-> FALSE, err |-> kind]

(* Expr::sigma_parse from token i, with If::sigma_parse for the IF        *)
(* opcode: each `?` returns the first error.                               *)
RECURSIVE ParseAt(_, _), IfParseSkip(_, _), IfParse(_, _)

(* Mutant: the offset after the false branch is advanced once more.       *)
IfParseSkip(s, i) ==
  LET c == ParseAt(s, i)
      t == ParseAt(s, c.next)
      f == ParseAt(s, t.next)
  IN IF ~c.ok THEN c ELSE IF ~t.ok THEN t ELSE IF ~f.ok THEN f
     ELSE Parsed(If(c.e, t.e, f.e), f.next + 1)

IfParse(s, i) ==
  LET c == ParseAt(s, i)
      t == ParseAt(s, c.next)
      f == ParseAt(s, t.next)
  IN IF ~c.ok THEN c ELSE IF ~t.ok THEN t ELSE IF ~f.ok THEN f
     ELSE Parsed(If(c.e, t.e, f.e), f.next)

ParseAt(s, i) ==
  IF i > Len(s) THEN Fail("UnexpectedEof")
  ELSE CASE s[i].op = ConstOpCode -> Parsed(Const(s[i].val), i + 1)
         [] s[i].op = IfOpCode    -> IfParse(s, i + 1)
         [] s[i].op \in BinOpCodes ->
              LET l == ParseAt(s, i + 1)
                  r == ParseAt(s, l.next)
              IN IF ~l.ok THEN l ELSE IF ~r.ok THEN r
                 ELSE Parsed(BinOp(KindOfCode(s[i].op), l.e, r.e), r.next)
         [] OTHER -> Fail("InvalidOpCode")

(***************************************************************************)
(* The proptest strategies the round-trip tests draw from, given the sets *)
(* any_with::<Expr> yields for SAny and for SInt (outside src/).          *)
(***************************************************************************)
(* Arbitrary for BinOp: relations over SAny operands for SBoolean,         *)
(* arithmetic over SInt operands for SInt, any kind over SAny otherwise.   *)
ArbBinOp(tpe, anyExprs, intExprs) ==
  CASE tpe = "SBoolean" -> {BinOp(op, l, r) : op \in RelationOps, l, r \in anyExprs}
    [] tpe = "SInt"     -> {BinOp(op, l, r) : op \in ArithOps, l, r \in intExprs}
    [] OTHER            -> {BinOp(op, l, r) : op \in ArithOps \cup RelationOps, l, r \in anyExprs}

(* Arbitrary for If: the false branch is a clone of the true branch.      *)
ArbIf(conds, exprs) == {If(c, t, t) : c \in conds, t \in exprs}

-----------------------------------------------------------------------------
Init ==
  /\ tree \in Exprs
  /\ wire = <<>>
  /\ cut = 0
  /\ got = [ok |-> FALSE, err |-> "none"]

Done == got /= [ok |-> FALSE, err |-> "none"]

(* The sender serialises the tree.                                         *)
Write ==
  /\ wire = <<>>
  /\ wire' = Serialize(tree)
  /\ UNCHANGED <<tree, cut, got>>

(* The receiver parses the first n tokens that arrived.                    *)
Read(n) ==
  /\ wire /= <<>>
  /\ ~Done
  /\ cut' = n
  /\ got' = ParseAt(SubSeq(wire, 1, n), 1)
  /\ UNCHANGED <<tree, wire>>

Finished == Done /\ UNCHANGED vars

Next == Write \/ (\E n \in 0..Len(wire) : Read(n)) \/ Finished

Spec == Init /\ [][Next]_vars

-----------------------------------------------------------------------------
TypeOK ==
  /\ cut \in 0..Len(wire)
  /\ \A i \in 1..Len(wire) : wire[i].op \in BinOpCodes \cup {IfOpCode, ConstOpCode}
  /\ got.ok \/ got.err \in {"none", "UnexpectedEof", "InvalidOpCode"}
  /\ got.ok => got.next \in 1..cut + 1

(* Round trip (spec.md section 3): the whole wire parses back to the tree  *)
(* that was written and uses every token; a wire cut short anywhere is     *)
(* UnexpectedEof, never a smaller tree.                                    *)
RoundTrip ==
  Done /\ wire /= <<>> =>
    IF cut = Len(wire) THEN got = Parsed(tree, cut + 1)
                       ELSE got = Fail("UnexpectedEof")
=============================================================================
