---------------------------- MODULE MCModuleLoad ----------------------------
(***************************************************************************)
(* Calls of Load with module 1 as the main module, 2 and 3 as what it and  *)
(* they require.  Version 1 is the blank one; 4 is a commit that compares  *)
(* equal to the tag 3.                                                     *)
(***************************************************************************)
EXTENDS ModuleLoad

Lists ==
  [main : {<<<<2, 2>>, <<3, 2>>>>},
   b2 : {<<>>, <<<<3, 3>>>>, <<<<1, 3>>>>},
   b3 : {<<>>, <<<<3, 2>>, <<1, 2>>>>},
   c2 : {<<>>, <<<<2, 3>>>>},
   c3 : {<<<<2, 4>>>>}]

TableOf(l) ==
  [m \in Mod |-> CASE m = <<1, 2>> -> l.main
                   [] m = <<2, 2>> -> l.b2
                   [] m = <<2, 3>> -> l.b3
                   [] m = <<3, 2>> -> l.c2
                   [] m = <<3, 3>> -> l.c3
                   [] OTHER -> <<>>]

\* What formula 2 of module 2 asks for in its onRequire.
Asks(list) == [p \in Path |-> [f \in {2, 3} |-> IF <<p, f>> = <<2, 2>> THEN list ELSE <<>>]]

Repository(asked, l, asks, broken, filtered) ==
  [asked |-> asked, table |-> TableOf(l), asks |-> Asks(asks),
   broken |-> broken, filtered |-> filtered,
   rank |-> [p \in Path |-> [v \in Version |-> IF v = 4 THEN 3 ELSE v]],
   from |-> [p \in Path |-> {2, 3}],
   tags |-> [p \in Path |-> {2}], head |-> [p \in Path |-> 4]]

\* Version 4 of module 2 cannot be built for the matrix, and is required at
\* the end of a short and of a long chain.
Refused ==
  [main |-> <<<<3, 2>>, <<2, 2>>>>, b2 |-> <<<<3, 3>>>>, b3 |-> <<>>,
   c2 |-> <<<<2, 4>>>>, c3 |-> <<<<2, 4>>>>]

\* Module 2 requires less of module 3 than the main module does.
Outbid ==
  [main |-> <<<<2, 2>>, <<3, 3>>>>, b2 |-> <<<<3, 2>>>>, b3 |-> <<>>,
   c2 |-> <<>>, c3 |-> <<>>]

MCWorld ==
  {Repository(<<1, 2>>, l, <<>>, {}, {}) :
     l \in {x \in Lists : x.b2 # <<<<3, 3>>>> \/ x.c2 = <<>>}}
  \cup {Repository(<<1, 2>>, l, <<>>, {3}, {}) : l \in {x \in Lists : x.b3 = <<>> /\ x.c2 = <<>>}}
  \cup {Repository(<<1, Blank>>, l, asks, {}, f) :
          l \in {x \in Lists : x.b2 = <<>> /\ x.b3 = <<>> /\ x.c2 = <<>>},
          asks \in {<<<<3, Blank>>>>, <<<<3, 3>>>>},
          f \in {{}, {<<3, 3>>}}}
  \cup {Repository(<<1, 2>>, Outbid, <<>>, {}, {})}
  \cup {Repository(<<1, 2>>, Refused, <<>>, {}, {<<2, 3>>})}

=============================================================================
