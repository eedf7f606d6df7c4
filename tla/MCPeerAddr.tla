----------------------------- MODULE MCPeerAddr -----------------------------
(***************************************************************************)
(* TLC instance of PeerAddr.                                               *)
(***************************************************************************)
EXTENDS PeerAddr

IP == <<10, 0, 0, 1>>                    \* not a palindrome: byte order shows
V6Addr == [v |-> 6, ip |-> [i \in 1..16 |-> IF i = 16 THEN 1 ELSE 0], port |-> 9030]

(* Ports on both sides of every VLQ length change and the default port.   *)
MCAddrs == {V4(IP, p) : p \in {0, 80, 127, 128, 65535}} \cup {V6Addr}

(* Bytes a peer may send: a canonical record (port 9053), a non-canonical *)
(* zero, a port of 65536, a value of 2^32, eleven continuation bytes, a   *)
(* truncated VLQ, truncated octets, and nothing.                           *)
Octs == <<1, 2, 3, 4>>
MCReceived == {<<>>, <<1, 2>>,
               Octs \o <<221, 70>>, Octs \o <<128, 0>>, Octs \o <<128>>,
               Octs \o <<128, 128, 4>>, Octs \o <<128, 128, 128, 128, 16>>,
               Octs \o [i \in 1..11 |-> 128]}
=============================================================================
