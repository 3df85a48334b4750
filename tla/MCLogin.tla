------------------------------ MODULE MCLogin ------------------------------
(* Login on a small instance: the account's data at two times. *)
EXTENDS Login

Item(name, group_id, item_id, type, payload) ==
  [name |-> name, group_id |-> group_id, item_id |-> item_id, type |-> type, payload |-> payload]

Nick(n) == TLV(305, <<n>>)

MasterGroup == Item(<<>>, 0, 0, 1, <<>>)
Friends     == Item(<<70>>, 1, 0, 1, <<TLV(200, Word(5))>>)
Ann         == Item(<<49>>, 1, 5, 0, <<Nick(65)>>)
Bob         == Item(<<50>>, 1, 6, 0, <<TLV(102, <<>>), Nick(66)>>)
Ann_renamed == Item(<<49>>, 1, 5, 0, <<Nick(67)>>)

SomeServers ==
  {[families |-> (1 :> 3) @@ (2 :> 1) @@ (4 :> 1) @@ (19 :> 6), classes |-> 1, rates |-> <<2, 1>>,
    parts |-> <<<<MasterGroup, Friends, Ann>>,
                <<Bob, Item(<<>>, 0, 7, 4, <<TLV(202, <<3>>)>>), Item(<<50>>, 0, 8, 2, <<>>)>>>>,
    trash |-> FALSE],
   [families |-> (1 :> 4) @@ (19 :> 4) @@ (16 :> 1) @@ (33 :> 1), classes |-> 0, rates |-> <<1>>,
    parts |-> <<<<MasterGroup, Friends, Ann_renamed, Item(<<51>>, 0, 9, 14, <<Nick(68)>>),
                  Item(<<73>>, 0, 4, 20, <<>>), Item(<<80>>, 0, 11, 25, <<>>)>>>>,
    trash |-> TRUE]}
=============================================================================
