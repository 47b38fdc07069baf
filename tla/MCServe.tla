------------------------------ MODULE MCServe -------------------------------
(* A torrent with a directory, an empty file and pieces that straddle files, *)
(* one of a single file whose name needs SanitizeName, and one with a path   *)
(* that leads somewhere else.                                                *)
EXTENDS Serve

MCTree ==
    [name |-> <<"a">>, length |-> 0, pieceLen |-> 2,
     files |-> <<[path |-> <<"e">>, length |-> 0],
                 [path |-> <<"d", "f">>, length |-> 3],
                 [path |-> <<"d", "g">>, length |-> 2]>>]

MCSingle ==
    [name |-> <<"", "..", "">>, length |-> 2, pieceLen |-> 1, files |-> <<>>]

MCOdd ==
    [name |-> <<"c">>, length |-> 0, pieceLen |-> 1,
     files |-> <<[path |-> <<"..", "a">>, length |-> 1]>>]

MCParts == {"", ".", "..", "torrent", "a", "c", "d", "e", "f", "g"}

MCInfos == {MCTree, MCSingle, MCOdd}
=============================================================================
