---------------------------- MODULE MCFatWrite ----------------------------
(* Files a, b, d/a and d/b; a directory sector holds the dots and one      *)
(* entry, so that the second one stretches the directory.                  *)
EXTENDS FatWrite

MCPaths == {<<"a">>, <<"b">>, <<"d">>, <<"d", "a">>, <<"d", "b">>}
MCRenames == {<<<<"a">>, <<"b">>>>, <<<<"a">>, <<"d", "b">>>>, <<<<"d", "a">>, <<"b">>>>}
Made1(p, n) == [path |-> p, n |-> n]
MCSetups == {<<>>, <<Made1(<<"a">>, 3)>>, <<Made1(<<"d">>, 0), Made1(<<"d", "a">>, 1)>>,
             <<Made1(<<"d">>, 0), Made1(<<"a">>, 3), Made1(<<"d", "a">>, 1)>>}
=============================================================================
