# TLA+ models of sigma-rust (ErgoTree evaluator, unsigned transaction)

This directory holds TLA+ models of parts of the sigma-rust sources under
`src/`, the TLC configurations that check them, and `PROJECT.json`. That file
lists the components, the runs, the mutants, the mapping from each definition
to source lines, the findings and the hazards.

## 1. Inventory

| Component | Source | State | Operations | Interacts with |
|---|---|---|---|---|
| BinOp evaluator | `ergotree-ir/src/mir/bin_op.rs` | `ctx.cost_accum` (mutable); the recursion's call stack | `BinOp::eval` (cost charge, left operand, lazy right operand, checked arithmetic, orderings, equality, And/Or), `BinOp::tpe` | calls `Expr::eval` on its children (these may be `If` or `BinOp` again); reads `Value`s |
| If evaluator / parser | `ergo-lib/src/ast/if_op.rs` | none of its own; shares `ctx` | `If::eval` (condition, then one branch), `If::tpe`, `If::sigma_parse`, `If::sigma_serialize` | recursive calls into `Expr::eval` / `Expr::sigma_parse` |
| Unsigned transaction | `ergo-lib/src/chain/transaction/unsigned.rs` | immutable record `(tx_id, inputs, data_inputs, output_candidates)` | `new_from_vec` (bound checks), `new` (id of a zero-id copy), `calc_tx_id`, `bytes_to_sign`, `id`, JSON `From`/`TryFrom`, `distinct_token_ids` | the C binding; the serializer and hash (outside `src/`) |
| C binding | `bindings/ergo-lib-c-core/src/transaction.rs` | heap boxes owned by C through raw pointers | `unsigned_tx_from_json`, `unsigned_tx_to_json`, `unsigned_tx_id` (and a destructor outside `src/`) | wraps the unsigned transaction; folds errors into `Error::Misc` |
| HIR lowering | `ergoscript-compiler/src/hir.rs` | none (pure) | `lower`, `Expr::lower`, `Binary::lower`, `GlobalVars::tpe` | takes the parser's AST |
| Peer address | `ergo-chain-types/src/peer_addr.rs` | none (pure) | `ip_size`, `as_http_url`, `scorex_serialize`, `scorex_parse` | used by peer discovery |
| Peer discovery | `ergo-rest/src/api/peer_discovery_internals.rs` | settings only | `get_peers_all` (one HTTP GET) | network |

Behaviour that is hard to get right here:

* The evaluator is single-threaded and synchronous. It has no interleaving
  between threads, but the order of its steps matters. The cost is charged
  before any operand is evaluated, and operands run left before right. The
  `rv` closure makes And/Or lazy. If evaluates exactly one branch. Errors
  propagate through `?`, and a `todo!()` panics. Arithmetic is checked at each
  integer width; division truncates toward zero, and `MIN / -1` is an edge case.
* Static types (`tpe()`) are computed locally and trusted afterwards.
  `If::tpe` looks only at the true branch, and `If::sigma_parse` checks nothing.
* The transaction id is computed once, at construction, on a copy with a zero
  id. An empty data-input vector becomes `None`, and JSON writes it as `[]`.
* The C binding hands out raw pointers. Only null pointers are rejected.

What makes each component correct:

* Evaluator: the result and the final cost are those of the spec's big-step
  semantics (spec section 4.4). Evaluation terminates. A result has the static
  type of its tree. The cost never passes the ceiling by more than one charge.
* Transaction: the bound checks hold (1..N inputs and outputs, 0..N data
  inputs). The cached id equals a recomputation. A JSON round trip is the
  identity. A serialisation error is returned, never a panic (spec
  section 7); the source panics today (`unsigned_tx_panic`).
* Peer address: parse(serialize(a)) = a for IPv4 addresses. Serializing IPv6
  and parsing a port above 65535 are errors.
* HIR lowering: a successful lowering is the AST node for node, with each
  operator token translated to its `BinaryOp`. (Lowering still panics on
  malformed input; hir.rs:74 and spec section 9 record that as a TODO.)

Hazards are listed in `PROJECT.json`, each at its source line.

## 2. Modules

| Module | Models | Notes |
|---|---|---|
| `EvalValues` | the `Value` variants, `Expr` trees (`Const`, `BinOp`, `If`), `Result`s | Integer payloads carry the bit width given by `Width`. `Value::BigInt` has no payload in this version of the code. |
| `Evaluator` | `BinOp::eval`, `If::eval`, `BinOp::tpe`, `If::tpe`, `If::sigma_parse` | Explicit-stack machine, described below. |
| `EvalSpec` | the spec's big-step semantics (section 4.4) | Abstract specification; one step from `Pending` to `Den(expr)`. |
| `MCEvaluator` | TLC instance of `Evaluator`; the refinement `Abs == INSTANCE EvalSpec WITH ...` | |
| `UnsignedTx` | `UnsignedTransaction::new_from_vec/new/calc_tx_id/to_tx_wo_proofs/bytes_to_sign/id`, JSON, and the three C functions over a heap of handles | `Unserializable` names the output candidates the box serialiser (outside `src/`) rejects; `Transaction::new` serialises to compute its own id, so the `unwrap` in `to_tx_wo_proofs` panics on them. A panic ends the run: nothing follows it. |
| `MCUnsignedTx` | TLC instance of `UnsignedTx` | |
| `PeerAddr` | `PeerAddr::ip_size/as_http_url/scorex_serialize/scorex_parse`, and `get_peers_all` up to its request URL | A writer and a reader share one byte stream. The VLQ `put_u32`/`get_u32` come from `sigma_ser`, outside `src/`, and are modelled from the spec. |
| `MCPeerAddr` | TLC instance of `PeerAddr` | |
| `HirLower` | `lower`, `Expr::lower`, `Binary::lower` | Recursive operators with the outcomes Ok, Err and Panic, over the values the `ast` accessors can return. |
| `MCHirLower` | TLC instance of `HirLower` | |
| `ExprSerde` | the OpCode maps of `bin_op.rs` (`From<ArithOp/RelationOp/BinOpKind> for OpCode`, `BinOp::op_code`), `If::op_code`, `If::sigma_serialize`, `If::sigma_parse` | A wire is a sequence of opcode tokens. The `Expr` dispatch (`Expr::sigma_serialize/sigma_parse`) is outside `src/` and is modelled from the spec. |
| `MCExprSerde` | TLC instance of `ExprSerde` | |

### Evaluator: from recursion to a state machine

`Evaluable::eval` is a recursive Rust function. The variable `stack` is its
call stack: each frame holds the node, a program counter (`start`, `left`,
`right`, `cond`, `branch`) and the saved left value. A recursive call pushes a
frame for the child. A return pops the frame and leaves the `Result` in `ret`.
Between two calls, each action is one stretch of code:

* `BinOpEnter`: `ctx.cost_accum.add(eq_const_size)?` and the call to the left operand (bin_op.rs:270-273).
* `BinOpLeftDone`: the `match` on the kind and on `lv`. It either calls `rv()` or returns: And/Or short-circuit, an `UnexpectedValue` error, or a BigInt panic.
* `BinOpRightDone`: `eval_plus` … `eval_le`, equality and the And/Or extraction.
* `IfEnter`, `IfCondDone`, `IfBranchDone`: `If::eval`.
* `Propagate`: the `?` operator, for an `Err` returned to any frame.
* `EvalConst`: a constant leaf. It is modelled from the spec because `Expr::eval` is not under `src/`.
* `Finished`: the root call has returned. This is the only state without a successor, so TLC's deadlock check still catches an evaluation that gets stuck.

The variable `cost` is `cost_accum`, and `limit` is its ceiling. `CostAccumulator::add`
is outside `src/`. It is modelled from the spec: the cost is added first, then
compared with the ceiling.

### PeerAddr: a stream with a writer and a reader

`buf` starts with bytes a peer may have sent (`received`, one of a fixed set),
and the writer appends whole records to it:

* `Serialize(a)`: `scorex_serialize`, which writes 4 octets and `put_u32(port)`. IPv6 stops the writer with `NotSupported` before anything is written.
* `Parse`: `scorex_parse` at offset `pos`. It calls `read_exact` on 4 octets, then `get_u32`, then `try_into::<u16>`. The first error stops the reader, as `?` does in a caller that reads a list.
* `GetPeersAll(a)`: `as_http_url(a).join("peers/all")`.

VLQ values are held saturated at 2^16, since TLC integers are 32 bits. Every
comparison the parser makes is still exact, and the 32-bit check of `get_u32`
works on the 7-bit groups directly.

### HirLower

`Lower(root)` is `lower`. `ExprLower` and `BinaryLower` follow the code line by
line: the op token is unwrapped and matched, both operands are lowered, and
only then is `?` applied to each. `LowerMirrorsAst` relates a successful
result to its input through `Mirrors`, which walks the AST and the HIR
together. It reads operators through `TokenMeaning`, the grammar's meaning of
each token, rather than through the code's `OpOf` table.

### ExprSerde: a writer and a reader of opcode streams

`Write` serialises the chosen tree: the node's opcode, then its fields (for
If, `If::sigma_serialize` writes condition, true branch and false branch).
`Read(n)` parses the first `n` tokens with `Expr::sigma_parse`, which
dispatches on the opcode; for `IF` it runs `If::sigma_parse`, three reads in a
row, each under `?`. Any `n` up to the wire's length may be chosen, so every
premature end of input is tried. Constants are one token carrying their
value; their byte encoding is outside `src/`.

### Refinement

`MCEvaluator` maps the machine onto `EvalSpec`. `outcome` is `Pending` while
the stack is non-empty. Once the stack is empty, `outcome` is the returned
`Result` together with the final cost. `EvalSpec!Spec`, including its weak
fairness, is checked as the property `ImplementsEvalSpec`. This one property
checks all of the following:

* the value and the error kind of every evaluation;
* left-to-right evaluation of strict operands, seen through the cost and the error (see the bounds below);
* the laziness of If, And and Or;
* checked arithmetic at both edges of each width, including truncating division;
* the cost charged by exactly the BinOps visited, and where the ceiling bites;
* termination.

`EvalSpec` is written from the spec's words. For example, its quotient is
defined by `a = q*b + r` with `|r| < |b|`, not by the code's formula, so it
stays independent of `Evaluator`.

## 3. Runs

| Run | Checks | Result |
|---|---|---|
| `evaluator` (`MCEvaluator.cfg`) | `TypeOK`, `ResultHasStaticType`, `ImplementsEvalSpec` | passes; 13,184 distinct states |
| `evaluator_parsed_if` (`MCEvaluatorParsed.cfg`) | `ResultHasStaticType` on trees `If::sigma_parse` accepts | violated: `If(false, Byte, Short)` yields a Short while `tpe()` is SByte |
| `unsigned_tx` (`MCUnsignedTx.cfg`) | `TypeOK`, `IdMatchesBytesToSign`, `JsonRoundTrip` | passes; 10,731 distinct states; every box serialises (`Unserializable = {}`) |
| `unsigned_tx_panic` (`MCUnsignedTxPanic.cfg`) | `FromJsonNeverPanics` | violated: with one candidate the serialiser rejects, `unsigned_tx_from_json` panics in `to_tx_wo_proofs` (unsigned.rs:110) during `new`, whose `?` and `SigmaSerializationError` are never reached |
| `peer_addr` (`MCPeerAddr.cfg`) | `TypeOK`, `RoundTrip` | passes; 6,755 distinct states |
| `peer_addr_url` (`MCPeerAddrUrl.cfg`) | `NoPanic` of `get_peers_all` | violated: an IPv6 node address makes `as_http_url` unwrap a failed URL parse |
| `hir_lower` (`MCHirLower.cfg`) | `TypeOK`, `LowerMirrorsAst` | passes; 288 distinct states |
| `expr_serde` (`MCExprSerde.cfg`) | `TypeOK`, `RoundTrip` | passes; 4,240 distinct states: every tree parses back to itself from its whole wire, and every cut wire is `UnexpectedEof` |

Each property of a passing run has a mutant in `PROJECT.json`: a plausible
bug in a mapped definition that TLC must catch.

* `NeedsRightEager` drops laziness.
* `BinOpTpeLeft` types relations like arithmetic.
* `BinOpEnterUnchecked` drops the `?` after `cost_accum.add`, so evaluation goes on past the ceiling (`TypeOK`).
* `BytesToSignWithId` serializes the cached id.
* `ToJsonNoData` drops the data inputs.
* `NewFromVecNoInputCheck` drops the input bound check.
* `ScorexSerializeLE` writes the octets in reverse order.
* `GetU32Skip` resumes one byte after the VLQ.
* `ExprLowerDefault` lowers an `Ident` without a name to an empty name instead of an error (`TypeOK`).
* `BinaryLowerSwapped` boxes the lowered rhs into the lhs field (`LowerMirrorsAst`).
* `RelationOpCodeGE` gives GT the opcode of GE.
* `IfParseSkip` advances the offset once more after the false branch.
* `IfSerializeTbTwice` writes the true branch where the false one belongs.
  Over `ArbTrees` alone, the trees the proptest strategies `ArbBinOp` and
  `ArbIf` draw, this mutant survives, because the `If` strategy clones the
  true branch into the false one (if_op.rs:95). The Ifs with distinct
  branches in `Nested` catch it.

### Bounds and why they suffice

* Widths: `Byte` keeps 8 bits and `Short` 16. `Int` and `Long` run the same
  generic `eval_*` functions, but their ranges exceed TLC's integers.
* Leaves include MIN, -1, 0, 1 and MAX of Byte, and MIN, -1 and 2 of Short, so
  every overflow, zero divisor and `MIN / -1` occurs.
* Trees are every well-typed one-level tree over those leaves, plus every
  well-typed one-level tree over small leaves and *probes*. Probes are subtrees
  that fail, overflow, decide lazily, or are an If. With probes, errors, short
  circuits and untaken branches appear at depth 2 and 3, under And/Or, If,
  and strict operators. Probes are at most one level below the root, and
  they cannot show evaluation order: a failing operand is an
  `ArithmeticException` at the same cost whichever side runs first.
* Order: `OrderTrees` put a failing left operand beside `Deep`, a right
  operand of two BinOps. Evaluating the right operand first would cost 3
  before the left operand fails, and under ceiling 2 it would give
  `CostExceeded` instead of `ArithmeticException`. An evaluator that swaps the
  operands of the commutative operators is caught by `ImplementsEvalSpec`
  with these trees and passes without them.
* Cost: `eq_const_size = 1`, with ceilings 2 and 10. The cost is charged when a
  BinOp is entered, so a ceiling of 2 is crossed on entering the third BinOp.
  That BinOp is the right operand of the root in the depth-2 trees and in
  `OrderTrees`, and the inner operand of a left operand in
  `BinOp("Plus", Deep, B(1))`. A left operand that succeeds beside `Deep`
  visits four BinOps, which `TypeOK`'s bound on the cost needs.
* Transaction: one input id, one data-input id, two output ids, `MaxIo = 2`,
  and vectors up to length 3. Every bound violation and every order of
  `None`/`Some` therefore occurs. Two handles allow create, delete and reuse
  sequences.
* Peer address: the octets `10.0.0.1`, which are not a palindrome, so byte
  order shows. Ports 0, 80, 127, 128 and 65535 cover each VLQ length change
  and the default port. There is one IPv6 address, and two writes.
* Received bytes: a canonical record, a non-canonical zero, a port of 65536,
  a value of 2^32, eleven continuation bytes, a truncated VLQ, truncated octets,
  and nothing. This covers every error of `scorex_parse` and a record that
  spans the peer's bytes and the writer's.
* HIR: every depth-1 tree over the three leaf kinds, with each operand present
  or missing, and an operator token among the four plus one other. Also
  depth-2 trees over six mid-level trees, and roots with zero, one or two
  expressions.
* Expression wires: the trees of the proptest strategies (`ArbTrees`). These
  are every BinOp of the fourteen kinds over the Boolean and Byte leaves, and
  Ifs with equal branches over leaves and flat BinOps. `Nested` adds Ifs with
  distinct, compound branches and BinOps over those. So every opcode is
  written and read, every If position holds a compound subtree, and a cut can
  fall inside each of the three branches.

### Fairness

Evaluation runs on one thread to completion. No scheduler can postpone a
step, so `WF_vars(Step)` is justified. The same holds for lowering, a
single function call (`WF_vars(LowerStep)`). The C caller is not fair: `UnsignedTx`
has no fairness and no liveness property.

## 4. Not modelled, and why

* Byte-level serialisation of constants and of boxes, registers, tokens, and
  `distinct_token_ids`. These are outside `src/` or pure encodings. The id is
  a collision-free tag on an abstract byte sequence.
* `Value` variants other than Boolean, Byte, Short and BigInt: collections,
  tuples and options. Equality on them is structural, the same as on the
  modelled variants.
* Peer discovery beyond the URL of `get_peers_all`. The HTTP client, the
  response decoding, and the unused `PeerDiscoverySettings` are I/O or
  configuration only.
* `GlobalVars::tpe` and `Expr::debug_tree` in `hir.rs`. Lowering never
  produces `GlobalVars`, and `debug_tree` is formatting.
* Whether the parser can produce a `BinaryExpr` whose `op()` is not one of the
  four tokens; `ast.rs` is not under `src/`. The model admits one, so the
  `unreachable!()` is covered either way.
* Use after free of C handles. This is a caller contract that Rust cannot
  check; the model passes only live handles or null.
* Panics that the source and spec already record as TODOs: the `todo!()` on
  `Value::BigInt` arithmetic (bin_op.rs:301, spec section 9), and the unwraps
  and `todo!()` of HIR lowering (hir.rs:17-18, hir.rs:74, spec section 9).
  The model keeps these paths, but no run restates them.
* Which box candidates the serialiser rejects, and why: that serialiser is
  outside `src/`. `Unserializable` is a parameter, empty in the passing run.

## 5. Plan

Done: `EvalValues`, `Evaluator`, `EvalSpec`, `MCEvaluator`, `UnsignedTx` and
`MCUnsignedTx` in the first sitting. `PeerAddr`, `MCPeerAddr`, `HirLower` and
`MCHirLower` in the second, with `ExprSerde` and `MCExprSerde`
(expression serialisation). In the third, the serialisation failure of
`UnsignedTransaction::new` (`unsigned_tx_panic`). In
the fourth, the proptest strategies for BinOp and If (`ArbBinOp`, `ArbIf`) and
the hazard that the If strategy never draws distinct branches. In the fifth,
trees that make operand order observable (`OrderTrees`), a cost bound in the
evaluator's `TypeOK`, and `LowerMirrorsAst` for HIR lowering; properties that
only restated a guard or a recorded TODO were dropped.

What is left, and what it would add:

1. Composing `ExprSerde` with `Evaluator`. `Read` returns exactly the tree
   that was written, so evaluating it repeats `evaluator` run for run. The
   parser admitting ill-typed Ifs is already shown by `evaluator_parsed_if`.
2. Evaluator growth. `Int` and `Long` run the same generic `eval_*` code as
   `Byte` and `Short`, but their ranges exceed TLC's integers. Collections,
   tuples and options compare by the derived structural equality of `Value`,
   which is outside `src/`.
3. The rest of `get_peers_all` (`build_client`, `send().await`,
   `response.json()`). Each step is a `?` on a collaborator outside `src/`,
   whose timeouts the code does not set, so no fault model or liveness
   property of it would be grounded in this source.
4. `distinct_token_ids`, which delegates to a function outside `src/`.
