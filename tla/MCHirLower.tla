----------------------------- MODULE MCHirLower -----------------------------
(***************************************************************************)
(* TLC instance of HirLower: every tree of depth one over the leaves, and *)
(* depth two over a few of them, as a root's only child or as the first of *)
(* two children.                                                           *)
(***************************************************************************)
EXTENDS HirLower

Named   == [k |-> "Ident", name |-> <<"x">>]
Nameless == [k |-> "Ident", name |-> <<>>]
Literal == [k |-> "Literal"]
Leaves  == {Named, Nameless, Literal}

Bin(op, l, r) == [k |-> "Binary", op |-> op, lhs |-> l, rhs |-> r]
Opt(S) == {<<>>} \cup {<<x>> : x \in S}

Tokens == {"Plus", "Star", "Slash", "Minus", "EqEq"}
Depth1 == {Bin(op, l, r) : op \in Tokens, l \in Opt(Leaves), r \in Opt(Leaves)}
Mid    == {Named, Nameless, Literal, Bin("Plus", <<Named>>, <<Named>>),
           Bin("Minus", <<Nameless>>, <<Named>>), Bin("Star", <<Named>>, <<>>)}
Depth2 == {Bin(op, <<l>>, <<r>>) : op \in {"Plus", "Slash"}, l \in Mid, r \in Mid}
Trees  == Leaves \cup Depth1 \cup Depth2

MCRoots == {<<>>} \cup {<<t>> : t \in Trees} \cup {<<t, Named>> : t \in Mid}
=============================================================================
