------------------------------ MODULE PeerAddr ------------------------------
(***************************************************************************)
(* PeerAddr (ergo-chain-types/src/peer_addr.rs): a socket address written  *)
(* to and read from a byte stream by scorex_serialize / scorex_parse, and  *)
(* turned into the URL peer discovery sends its GET to (as_http_url, used  *)
(* by get_peers_all in ergo-rest/src/api/peer_discovery_internals.rs).     *)
(*                                                                         *)
(* A writer appends addresses to `buf`; a reader parses records from `buf` *)
(* starting at `pos` until the first error, as a caller reading a vector   *)
(* of addresses with `?` does.  The stream may start with bytes received   *)
(* from a peer (`received`), which need not be a valid encoding.           *)
(*                                                                         *)
(* An address is [v |-> 4 or 6, ip |-> octets, port |-> u16]; a byte is an *)
(* integer in 0..255.                                                      *)
(***************************************************************************)
EXTENDS Integers, SequencesExt

CONSTANTS
  Addrs,      \* the addresses the writer and peer discovery may be given
  Received,   \* byte strings a peer may have sent before the writer's bytes
  MaxWrites   \* bound on the number of scorex_serialize calls

ASSUME MaxWrites \in Nat

VARIABLES
  received,   \* the bytes the stream started with (fixed per behaviour)
  buf,        \* the stream's bytes
  written,    \* the addresses scorex_serialize wrote, in order
  pos,        \* the reader's offset in buf
  read,       \* the records parsed: [addr, from, to] with the bytes they used
  wstatus,    \* "ok" or the error that stopped the writer
  status,     \* "ok" or the error that stopped the reader
  request     \* the URL of the last get_peers_all, or the panic of unwrap

vars == <<received, buf, written, pos, read, wstatus, status, request>>

U16Limit == 2^16            \* 65536: the first value try_into::<u16> rejects
Panic == [panic |-> TRUE]

(***************************************************************************)
(* VLQ of sigma_ser (outside src/, from spec.md sections 3 and 6): seven   *)
(* bits per byte, least significant group first, the high bit set on every *)
(* byte but the last.  get_u64 reads at most ten bytes; get_u32 then       *)
(* rejects values of 32 bits or more.  Values are kept saturated at        *)
(* U16Limit, which preserves every comparison the parser makes.            *)
(***************************************************************************)
RECURSIVE PutU32(_)
PutU32(n) == IF n < 128 THEN <<n>> ELSE <<(n % 128) + 128>> \o PutU32(n \div 128)

(* The 7-bit groups of the VLQ starting at byte i, or the read error.     *)
RECURSIVE Groups(_, _, _)
Groups(bytes, i, k) ==
  CASE k = 10            -> [ok |-> FALSE, err |-> "VlqDecodingFailed"]
    [] i > Len(bytes)    -> [ok |-> FALSE, err |-> "Io"]
    [] bytes[i] < 128    -> [ok |-> TRUE, gs |-> <<bytes[i]>>, next |-> i + 1]
    [] OTHER -> LET rest == Groups(bytes, i + 1, k + 1)
                IN IF rest.ok THEN [rest EXCEPT !.gs = <<bytes[i] - 128>> \o @]
                              ELSE rest

(* Groups at bit 32 and above must be zero: group k holds bits 7(k-1)..   *)
FitsU32(gs) == \A k \in 1..Len(gs) :
                 CASE 7 * (k - 1) >= 35 -> gs[k] = 0
                   [] 7 * (k - 1) = 28  -> gs[k] < 16
                   [] OTHER             -> TRUE

VlqValue(gs) == FoldRight(LAMBDA g, acc : Min({U16Limit, g + 128 * acc}), gs, 0)

(* Mutant: the offset after the VLQ skips one byte too many.              *)
GetU32Skip(bytes, i) ==
  LET r == Groups(bytes, i, 0)
  IN CASE ~r.ok           -> r
       [] ~FitsU32(r.gs)  -> [ok |-> FALSE, err |-> "VlqTryFrom"]
       [] OTHER           -> [ok |-> TRUE, val |-> VlqValue(r.gs), next |-> r.next + 1]

GetU32(bytes, i) ==
  LET r == Groups(bytes, i, 0)
  IN CASE ~r.ok           -> r
       [] ~FitsU32(r.gs)  -> [ok |-> FALSE, err |-> "VlqTryFrom"]
       [] OTHER           -> [ok |-> TRUE, val |-> VlqValue(r.gs), next |-> r.next]

(***************************************************************************)
(* PeerAddr.                                                               *)
(***************************************************************************)
IpSize(a) == IF a.v = 4 THEN 4 ELSE 16

Octets(a) == [i \in 1..IpSize(a) |-> a.ip[i]]

(* Mutant: the octets are written least significant first.                *)
ScorexSerializeLE(a) ==
  IF a.v /= 4 THEN [ok |-> FALSE, err |-> "NotSupported"]
  ELSE [ok |-> TRUE, bytes |-> Reverse(Octets(a)) \o PutU32(a.port)]

(* scorex_serialize: IPv6 is refused before anything is written.          *)
ScorexSerialize(a) ==
  IF a.v /= 4 THEN [ok |-> FALSE, err |-> "NotSupported"]
  ELSE [ok |-> TRUE, bytes |-> Octets(a) \o PutU32(a.port)]

V4(octets, port) == [v |-> 4, ip |-> octets, port |-> port]

(* scorex_parse from offset i: read_exact of four octets, get_u32, then   *)
(* the narrowing to u16.                                                   *)
ScorexParse(bytes, i) ==
  IF Len(bytes) - i + 1 < 4 THEN [ok |-> FALSE, err |-> "Io"]
  ELSE LET p == GetU32(bytes, i + 4)
       IN CASE ~p.ok                -> p
            [] p.val >= U16Limit    -> [ok |-> FALSE, err |-> "TryFromInt"]
            [] OTHER -> [ok |-> TRUE, next |-> p.next,
                         addr |-> V4(SubSeq(bytes, i, i + 3), p.val)]

(* as_http_url: "http://" ++ ip ++ ":" ++ port, then Url::from_str(..)     *)
(* .unwrap().  An IPv6 address is printed without brackets, which is not  *)
(* a valid authority, so the unwrap panics.  The url crate drops the      *)
(* scheme's default port (Url::port() is None, here <<>>).               *)
AsHttpUrl(a) ==
  IF a.v /= 4 THEN Panic
  ELSE [host |-> a.ip, port |-> IF a.port = 80 THEN <<>> ELSE <<a.port>>, path |-> <<>>]

(* get_peers_all: as_http_url(...).join("peers/all").unwrap().            *)
PeersAllUrl(a) ==
  LET u == AsHttpUrl(a)
  IN IF u = Panic THEN Panic ELSE [u EXCEPT !.path = <<"peers", "all">>]

-----------------------------------------------------------------------------
(***************************************************************************)
(* Actions.                                                                *)
(***************************************************************************)
Init ==
  /\ received \in Received
  /\ buf = received
  /\ written = <<>>
  /\ pos = 1
  /\ read = <<>>
  /\ wstatus = "ok"
  /\ status = "ok"
  /\ request = <<>>

(* w.scorex_serialize(a)?: on success the bytes are appended.             *)
Serialize(a) ==
  LET s == ScorexSerialize(a)
  IN /\ wstatus = "ok"
     /\ Len(written) < MaxWrites
     /\ IF s.ok THEN /\ buf' = buf \o s.bytes
                     /\ written' = Append(written, a)
                     /\ UNCHANGED wstatus
                ELSE /\ wstatus' = s.err
                     /\ UNCHANGED <<buf, written>>
     /\ UNCHANGED <<received, pos, read, status, request>>

(* PeerAddr::scorex_parse(r)? at the reader's offset.                     *)
Parse ==
  LET p == ScorexParse(buf, pos)
  IN /\ status = "ok"
     /\ pos <= Len(buf)
     /\ IF p.ok THEN /\ read' = Append(read, [addr |-> p.addr, from |-> pos, to |-> p.next - 1])
                     /\ pos' = p.next
                     /\ UNCHANGED status
                ELSE /\ status' = p.err
                     /\ UNCHANGED <<read, pos>>
     /\ UNCHANGED <<received, buf, written, wstatus, request>>

(* get_peers_all(node) for a node at address a, up to the request.        *)
GetPeersAll(a) ==
  /\ request = <<>>
  /\ request' = PeersAllUrl(a)
  /\ UNCHANGED <<received, buf, written, pos, read, wstatus, status>>

(* Nothing is left to do: the writer and reader have stopped and the      *)
(* request has been built.                                                 *)
Done ==
  /\ wstatus /= "ok" \/ Len(written) = MaxWrites
  /\ status /= "ok" \/ pos > Len(buf)
  /\ request /= <<>>
  /\ UNCHANGED vars

Next ==
  \/ \E a \in Addrs : Serialize(a)
  \/ Parse
  \/ \E a \in Addrs : GetPeersAll(a)
  \/ Done

Spec == Init /\ [][Next]_vars

-----------------------------------------------------------------------------
TypeOK ==
  /\ \A i \in 1..Len(buf) : buf[i] \in 0..255
  /\ pos \in 1..Len(buf) + 1
  /\ \A i \in 1..Len(read) : read[i].addr.v = 4 /\ read[i].addr.port \in 0..U16Limit - 1
  /\ wstatus \in {"ok", "NotSupported"}
  /\ status \in {"ok", "Io", "VlqDecodingFailed", "VlqTryFrom", "TryFromInt"}

(* Round trip of scorex_serialize and scorex_parse: on a stream that       *)
(* holds only what the writer wrote, the reader never fails and returns    *)
(* the written addresses in order, each from the bytes written for it.     *)
RoundTrip ==
  received = <<>> =>
    /\ status = "ok"
    /\ IsPrefix([i \in 1..Len(read) |-> read[i].addr], written)

(* get_peers_all never panics: every node address gives a request URL     *)
(* (spec.md section 7: errors are returned, never panics).                 *)
NoPanic == request /= Panic
=============================================================================
