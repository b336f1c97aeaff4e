-------------------------------- MODULE MCFs ---------------------------------
(***************************************************************************)
(* Small shared folders for FsNodes.                                       *)
(***************************************************************************)
EXTENDS FsNodes

Tree(dirs, others) ==
    [p \in dirs \cup others |->
        <<IF p \in dirs THEN "dir" ELSE "file",
          CHOOSE i \in 1..Cardinality(dirs \cup others) : SetToSeq(dirs \cup others)[i] = p>>]

OneDir == Tree({<<"a">>}, {<<"a", "a">>})
TwoFiles == Tree({}, {<<"a">>, <<"b">>})
Empty == Tree({}, {})
Three == Tree({<<"a">>}, {<<"a", "a">>, <<"a", "b">>, <<"a", "c">>})

Request(tree, names, asks, refs, ids, made, opens) ==
    [tree |-> tree, read_only |-> FALSE, names |-> names, asks |-> asks,
     lookups |-> refs, nodes |-> ids, files |-> made, handles |-> opens]

AB == {"a", "b"}
ABC == {"a", "b", "c"}

MCLoads == {
    \* one directory with a file, moved about and removed, opened and forgotten
    Request(OneDir, ABC, {"lookup", "forget", "move", "remove", "open"}, 2, 3, 2, 1),
    Request(TwoFiles, ABC, {"lookup", "forget", "move", "mkdir"}, 2, 3, 4, 0),
    \* files made, replaced and removed while they are open
    Request(Empty, AB, {"lookup", "forget", "create", "remove", "remove open", "replace", "destroy"}, 2, 3, 3, 2),
    \* trees moved
    Request(OneDir, AB, {"lookup", "forget", "move", "move tree", "mkdir", "destroy"}, 2, 3, 3, 0),
    \* a directory emptied while it is read
    Request(Three, ABC, {"lookup", "remove", "readdir", "open", "host"}, 1, 10, 4, 1),
    [Request(OneDir, ABC, {"lookup", "forget", "open", "mkdir", "create", "remove", "move", "host"}, 2, 2, 3, 1)
        EXCEPT !.read_only = TRUE]
}

MCMoves == {Request(OneDir, AB, {"lookup", "move tree"}, 2, 3, 2, 0)}
=============================================================================
