-------------------------------- MODULE MCSds --------------------------------
(***************************************************************************)
(* SdsBuffer with header widths scaled down and the bytes that quoting,    *)
(* splitting and C strings treat specially.                                *)
(***************************************************************************)
EXTENDS SdsBuffer

MCLimit == [t \in {5, 8, 16, 32} |-> CASE t = 5 -> 3 [] t = 8 -> 5 [] t = 16 -> 8 [] t = 32 -> 11]

\* NUL, line feed, space, a quote, backslash
Special == {NUL, 10, Space, DQuote, Backslash}

MCText == {<<>>} \cup {<<c>> : c \in Special} \cup {<<Backslash, 110>>, <<Space, Space>>, [i \in 1..4 |-> Space]}

MCFormat ==
  LET byte == [kind |-> "byte", value |-> 110]
      text(t) == [kind |-> "text", value |-> t]
      number(v) == [kind |-> "number", value |-> v]
  IN  {<<>>, <<byte, byte>>, <<text(<<Space, 110>>), byte>>, <<text(<<>>), text(<<NUL>>)>>}
        \cup {<<number(v), byte>> : v \in {-16, 10}}

MCNumber == {-16, -1, 0, 9, 10}
=============================================================================
