-------------------------- MODULE MCChannelRecords --------------------------
(* Two channels besides the root, one job function, two jobs.  The         *)
(* configurations limit a channel and then its parent; the root, and a     *)
(* channel twice by both of its names; the others end in an exception.     *)
EXTENDS ChannelRecords

CONSTANTS a, b, r1, r2, f, j1, j2

MCEntry(name, capacity) == [name |-> name, capacity |-> capacity, options |-> <<>>]

MCWith(name, capacity, option) ==
  [name |-> name, capacity |-> <<capacity>>, options |-> <<option>>]

MCConfigurations ==
  { <<MCWith(<<Root, a, b>>, 1, <<"sequential">>), MCEntry(<<a>>, <<2>>)>>,
    <<MCWith(<<Root>>, 3, <<"throttle", "2">>), MCEntry(<<b>>, <<>>),
      MCWith(<<Root, b>>, 2, <<"sequential", "">>)>>,
    <<MCWith(<<a>>, 2, <<"sequential", "False">>), MCEntry(<<b>>, <<1>>)>>,
    <<MCWith(<<a>>, 2, <<"throttle", "True">>), MCEntry(<<b>>, <<1>>)>>,
    <<MCEntry(<<a>>, <<2>>), MCWith(<<b>>, 1, <<"k", "v", "w">>)>>,
    <<MCEntry(<<a>>, <<2>>), MCEntry(<<b>>, <<NotANumber>>)>> }

MCSymmetry == Permutations({j1, j2})

MCOverrides == {None, <<a, b>>}

\* Bound on all requests, beside those of each kind
FewRequests == writes + requests <= 5
=============================================================================
