------------------------------ MODULE MCBlockOps ------------------------------
(* Small instances of BlockOps: blocks bad from the factory behind the     *)
(* metadata only, on both chips, or in the metadata area with two of its   *)
(* blocks marked in use.                                                   *)
EXTENDS BlockOps

SomeConfigs == {<<>>, <<4>>, <<2, 4>>}
Table(factory, used) == [factory |-> factory, used |-> used]
SomeTables == {Table({<<0, 7>>, <<0, 10>>, <<1, 14>>}, {}),
               Table({<<0, 5>>, <<0, 7>>}, {<<0, 4>>, <<0, 6>>})}
MarkedTables == {Table({}, {<<0, 4>>, <<0, 6>>})}

Params(r, b, m) == [readonly |-> r, allow_markbad |-> b, allow_meta |-> m]
OpenGuards == {Params(FALSE, TRUE, TRUE), Params(TRUE, TRUE, TRUE),
               Params(FALSE, TRUE, FALSE)}
DefaultGuards == {Params(FALSE, FALSE, FALSE)}
=============================================================================
