-------------------------- MODULE MCHeaderPipeline --------------------------
(***************************************************************************)
(* Model-checking instances of HeaderPipeline: an ordinary name, the       *)
(* content type and the cookie header, and three parts for their values.   *)
(***************************************************************************)
EXTENDS HeaderPipeline, TLC

CONSTANTS accept, ctype, cookie, a, b, c, m1, m2

MCNames == {accept, ctype, cookie}
MCParts == {a, b, c}

BrowserOrder == {<<>>, <<<<accept, <<a>>>>>>}
NoDefaults == {<<>>}

\* Every name at most once.
SingleValued == {<<<<accept, <<b>>>>>>, <<<<ctype, <<a>>>>, <<cookie, <<a>>>>>>}

Overrides == {<<>>, <<<<accept, <<a>>>>, <<cookie, <<b>>>>, <<ctype, <<a>>>>, <<accept, <<b>>>>>>}
MCBodyTypes == {NoValue, <<b>>}
MCUserCookies == {<<>>, <<c>>}

AcceptOrCookie == {<<accept, <<a>>>>, <<cookie, <<b>>>>}

Symmetry == Permutations(Mutators)
=============================================================================
