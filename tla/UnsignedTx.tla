----------------------------- MODULE UnsignedTx -----------------------------
(***************************************************************************)
(* UnsignedTransaction (ergo-lib/src/chain/transaction/unsigned.rs) and    *)
(* the C binding that hands it out as opaque handles                       *)
(* (bindings/ergo-lib-c-core/src/transaction.rs).                          *)
(*                                                                         *)
(* Box ids, data-input ids and output candidates are model values; the    *)
(* serialisation of a transaction for signing is the sequence of its       *)
(* length-prefixed parts (spec.md section 6) and blake2b256 is a           *)
(* collision-free tag on that sequence.                                    *)
(***************************************************************************)
EXTENDS Integers, Sequences

CONSTANTS
  InputIds,     \* UnsignedInput values (box id with its extension)
  DataIds,      \* DataInput values
  OutputIds,    \* ErgoBoxCandidate values
  MaxIo,        \* the upper bound of TxIoVec (BoundedVec<_, 1, MAX>)
  Unserializable, \* output candidates the box serialiser rejects
  Handles,      \* heap addresses Box::into_raw may return
  Null          \* the null pointer

ASSUME Unserializable \subseteq OutputIds

VARIABLES
  heap,     \* [Handles -> UnsignedTransaction or Null]: live boxes
  result    \* the Result the last FFI call returned to the C caller

vars == <<heap, result>>

None == [some |-> FALSE, val |-> <<>>]   \* Option<TxIoVec<DataInput>>
Some(s) == [some |-> TRUE, val |-> s]

(***************************************************************************)
(* Serialisation and id.                                                   *)
(***************************************************************************)
Panic == [ok |-> FALSE, err |-> "panic"]   \* an unwrap on Err: the call unwinds

(* Transaction::bytes_to_sign of the proof-erased transaction: inputs with *)
(* empty proofs, data inputs (none when absent), output candidates.        *)
TxBytes(inputs, dataInputs, outputs) ==
  LET di == dataInputs.val
  IN <<Len(inputs)>> \o inputs \o <<Len(di)>> \o di \o <<Len(outputs)>> \o outputs

(* Transaction::new computes its own id, so it serialises the transaction; *)
(* the serialiser of an ErgoBoxCandidate (outside src/) fails on the       *)
(* candidates of Unserializable.                                           *)
TxSerializes(tx) == \A i \in 1..Len(tx.outputs) : tx.outputs[i] \notin Unserializable

(* to_tx_wo_proofs: the inputs with empty proofs, then                     *)
(* Transaction::new(..).unwrap(): a serialisation error panics.            *)
ToTxWoProofs(tx) ==
  IF TxSerializes(tx)
    THEN [ok |-> TRUE, val |-> [inputs |-> tx.inputs, data_inputs |-> tx.data_inputs,
                                outputs |-> tx.outputs]]
    ELSE Panic

(* Mutant: the cached id is serialised along with the transaction.         *)
BytesToSignWithId(tx) ==
  LET t == ToTxWoProofs(tx)
  IN IF ~t.ok THEN t
     ELSE [ok |-> TRUE, val |-> <<tx.tx_id>> \o TxBytes(t.val.inputs, t.val.data_inputs, t.val.outputs)]

(* UnsignedTransaction::bytes_to_sign: to_tx_wo_proofs, then the bytes of  *)
(* that Transaction (which serialised once already, so succeeds).          *)
BytesToSign(tx) ==
  LET t == ToTxWoProofs(tx)
  IN IF ~t.ok THEN t
     ELSE [ok |-> TRUE, val |-> TxBytes(t.val.inputs, t.val.data_inputs, t.val.outputs)]

Blake2b256(bytes) == <<"blake2b256", bytes>>
ZeroId == <<"blake2b256", <<>>>>

(* calc_tx_id: bytes_to_sign()?, then the hash.                            *)
CalcTxId(tx) ==
  LET b == BytesToSign(tx)
  IN IF ~b.ok THEN b ELSE [ok |-> TRUE, val |-> Blake2b256(b.val)]

(* UnsignedTransaction::new: build with TxId::zero(), compute the id of    *)
(* that value with `?`, and store it.                                      *)
NewTx(inputs, dataInputs, outputs) ==
  LET txToSign == [tx_id |-> ZeroId, inputs |-> inputs,
                   data_inputs |-> dataInputs, outputs |-> outputs]
      id == CalcTxId(txToSign)
  IN IF ~id.ok THEN id ELSE [ok |-> TRUE, val |-> [txToSign EXCEPT !.tx_id = id.val]]

(* UnsignedTransaction::id: the id cached at construction.                 *)
Id(tx) == tx.tx_id

(***************************************************************************)
(* Construction from vectors: the bounds are checked inputs first, then    *)
(* data inputs, then outputs.  BoundedVec::opt_empty_vec maps an empty     *)
(* data-input vector to None.                                              *)
(***************************************************************************)
InBounds(s) == 1 <= Len(s) /\ Len(s) <= MaxIo

OptEmptyVec(s) ==
  CASE s = <<>>     -> [ok |-> TRUE, val |-> None]
    [] InBounds(s)  -> [ok |-> TRUE, val |-> Some(s)]
    [] OTHER        -> [ok |-> FALSE, err |-> "InvalidDataInputsCount"]

(* Mutant: the inputs vector is converted without its bound check.        *)
NewFromVecNoInputCheck(inputs, dataInputs, outputs) ==
  LET di == OptEmptyVec(dataInputs)
  IN CASE ~di.ok            -> di
       [] ~InBounds(outputs) -> [ok |-> FALSE, err |-> "InvalidOutputCandidatesCount"]
       [] OTHER -> NewTx(inputs, di.val, outputs)

NewFromVec(inputs, dataInputs, outputs) ==
  LET di == OptEmptyVec(dataInputs)
  IN CASE ~InBounds(inputs) -> [ok |-> FALSE, err |-> "InvalidInputsCount"]
       [] ~di.ok            -> di
       [] ~InBounds(outputs) -> [ok |-> FALSE, err |-> "InvalidOutputCandidatesCount"]
       [] OTHER -> NewTx(inputs, di.val, outputs)

(***************************************************************************)
(* The JSON surface.  A JSON document is either Malformed or a record of   *)
(* the three arrays of UnsignedTransactionJson.                            *)
(***************************************************************************)
Malformed == [valid |-> FALSE]

(* Mutant: the data inputs are not copied into the JSON document.          *)
ToJsonNoData(tx) == [valid |-> TRUE, inputs |-> tx.inputs, data_inputs |-> <<>>, outputs |-> tx.outputs]

ToJson(tx) == [valid |-> TRUE, inputs |-> tx.inputs,
               data_inputs |-> tx.data_inputs.val,
               outputs |-> tx.outputs]

(* serde_json::from_str through TryFrom<UnsignedTransactionJson>.          *)
FromJson(json) ==
  IF ~json.valid THEN [ok |-> FALSE, err |-> "Syntax"]
  ELSE NewFromVec(json.inputs, json.data_inputs, json.outputs)

SeqsUpTo(S, n) == UNION {[1..k -> S] : k \in 0..n}

JsonDocs == {Malformed} \cup [valid : {TRUE}, inputs : SeqsUpTo(InputIds, MaxIo + 1),
                              data_inputs : SeqsUpTo(DataIds, MaxIo + 1),
                              outputs : SeqsUpTo(OutputIds, MaxIo + 1)]

-----------------------------------------------------------------------------
(***************************************************************************)
(* FFI calls of the C binding.  `out` is the caller's out-pointer; `ptr`   *)
(* is the handle the caller passes.  const_ptr_as_ref and mut_ptr_as_mut   *)
(* reject only the null pointer.                                           *)
(***************************************************************************)
Misc(msg) == [ok |-> FALSE, err |-> msg]

(* unsigned_tx_from_json: on success a fresh box is leaked to the caller; *)
(* a panic inside serde_json::from_str unwinds out of the call.           *)
UnsignedTxFromJson(json, out) ==
  /\ IF out = Null
       THEN /\ result' = Misc("NullPointer")
            /\ UNCHANGED heap
       ELSE LET tx == FromJson(json) IN
            CASE tx = Panic -> result' = Panic /\ UNCHANGED heap
              [] ~tx.ok -> /\ result' = Misc("UnsignedTransaction: can't deserialize from JSON")
                          /\ UNCHANGED heap
              [] OTHER -> \E h \in {a \in Handles : heap[a] = Null} :
                            /\ heap' = [heap EXCEPT ![h] = tx.val]
                            /\ result' = [ok |-> TRUE, val |-> h]

(* unsigned_tx_to_json.                                                    *)
UnsignedTxToJson(ptr) ==
  /\ result' = IF ptr = Null THEN Misc("NullPointer")
               ELSE [ok |-> TRUE, val |-> ToJson(heap[ptr])]
  /\ UNCHANGED heap

(* unsigned_tx_id: the cached id, base16 encoded.                          *)
UnsignedTxId(ptr) ==
  /\ result' = IF ptr = Null THEN Misc("NullPointer")
               ELSE [ok |-> TRUE, val |-> <<"base16", Id(heap[ptr])>>]
  /\ UNCHANGED heap

(* The matching destructor (Box::from_raw and drop).                       *)
UnsignedTxDelete(ptr) ==
  /\ heap' = [heap EXCEPT ![ptr] = Null]
  /\ result' = [ok |-> TRUE, val |-> Null]

Live == {h \in Handles : heap[h] /= Null}

Init ==
  /\ heap = [h \in Handles |-> Null]
  /\ result = [ok |-> TRUE, val |-> Null]

(* A C caller passes live handles (or null); it may also pass its out-   *)
(* pointer as null.  Nothing runs after a panic has unwound out of a call. *)
Next ==
  /\ result /= Panic
  /\ \/ \E json \in JsonDocs, out \in {Null, "out"} : UnsignedTxFromJson(json, out)
     \/ \E p \in Live \cup {Null} : UnsignedTxToJson(p)
     \/ \E p \in Live \cup {Null} : UnsignedTxId(p)
     \/ \E p \in Live : UnsignedTxDelete(p)

Spec == Init /\ [][Next]_vars

-----------------------------------------------------------------------------
(* Every live transaction has 1..MaxIo inputs and outputs and either no  *)
(* data inputs or 1..MaxIo of them.                                        *)
TypeOK ==
  /\ \A h \in Live :
       /\ Len(heap[h].inputs) \in 1..MaxIo
       /\ Len(heap[h].outputs) \in 1..MaxIo
       /\ heap[h].data_inputs.some => Len(heap[h].data_inputs.val) \in 1..MaxIo
       /\ ~heap[h].data_inputs.some => heap[h].data_inputs.val = <<>>
  /\ result.ok \in BOOLEAN

(* The id a handle reports is the hash of the bytes its transaction would *)
(* be signed with now: new() computed it on a copy whose tx_id was zero,   *)
(* and bytes_to_sign must not depend on that field.                        *)
IdMatchesBytesToSign ==
  \A h \in Live : CalcTxId(heap[h]) = [ok |-> TRUE, val |-> heap[h].tx_id]

(* Exporting a live transaction to JSON and importing it again yields the *)
(* same transaction (same vectors, absent data inputs stay absent, same    *)
(* id).                                                                    *)
JsonRoundTrip ==
  \A h \in Live : FromJson(ToJson(heap[h])) = [ok |-> TRUE, val |-> heap[h]]

(* UnsignedTransaction::new returns the serialisation error its signature  *)
(* declares (spec.md section 7: serialisation errors propagate), so        *)
(* unsigned_tx_from_json reports it as an Error and never panics.          *)
FromJsonNeverPanics == result /= Panic
=============================================================================
