------------------------------ MODULE MCRouting ------------------------------
(* Configurations of up to three location statements, and every target of  *)
(* up to three segments.                                                   *)
EXTENDS Routing

CONSTANTS a, b, d1, d2

Location(handler, url, block) ==
  [handler |-> handler, url |-> url, block |-> block, lacks |-> "nothing"]
Lacking(what, s) == [s EXCEPT !.lacks = what]
Set(key, value) == [key |-> key, value |-> value]

(* Locations that lie below each other, are written with a trailing slash, *)
(* or are the root; blocks that lack the root, repeat it, or are empty;    *)
(* statements without a block, a handler's name or the value of the root.  *)
Statements ==
  {Location("static", <<a>>, <<Set("root", d1)>>),
   Location("static", <<a, b>>, <<Set("root", d1), Set("root", d2)>>),
   Location("static", <<b>>, <<>>),
   Location("static", <<NoName>>, <<Set("root", d2)>>),
   Location("api", <<a, NoName>>, <<Set("data_path", d1), Set("root", d2)>>),
   Location("api", <<b>>, <<Set("data_path", d1)>>),
   Location("echo", <<a, b, NoName>>, <<>>),
   Location("health", <<b>>, <<>>),
   Location("sleep", <<b, a>>, <<>>),
   Location("auth", <<a>>, <<Set("root", d1), Set("data_path", d2)>>),
   Location("auth", <<b>>, <<Set("root", d2)>>),
   Location("auth", <<b>>, <<>>),
   Location("console", <<b, NoName>>, <<Set("root", d1), Set("data_path", d2)>>),
   Location("console", <<a>>, <<Set("data_path", d1)>>),
   Location("other", <<a>>, <<>>),
   Lacking("block", Location("static", <<a, b>>, <<>>)),
   Lacking("block", Location("console", <<b>>, <<>>)),
   Lacking("token", Location("other", <<b>>, <<>>)),
   Lacking("token", Location("api", <<a>>, <<Set("root", d1)>>))}

UpToThree == BoundedSeq(Statements, 3)
ShortTargets == BoundedSeq({a, b, NoName}, 3) \ {<<>>}
=============================================================================
