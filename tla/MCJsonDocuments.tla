---------------------------- MODULE MCJsonDocuments ----------------------------
(* Documents with what their lists can differ in: order, length, depth, type.  *)
EXTENDS JsonDocuments

a == <<97>>
b == <<98>>
C == <<67>>
d == <<100>>
O(s) == List("object", s)
A(s) == List("array", s)
One == Number(1)
Two == Number(-20)
Odd == String(<<34, 10>>)
\* No string ends with a backslash: cJSON_Minify reads on past its end.
Low == String(<<1, 92, 97>>)

MCDocs == {
  O(<<>>), O(<<As(a, One), As(b, Odd)>>), O(<<As(b, Odd), As(a, One)>>),
  O(<<As(b, Two), As(C, A(<<>>))>>), O(<<As(C, A(<<>>)), As(d, One)>>), O(<<As(C, One), As(b, Low), As(a, Two)>>),
  O(<<As(a, A(<<One, Two, One>>))>>), O(<<As(a, A(<<Two>>)), As(b, O(<<>>))>>),
  O(<<As(a, O(<<As(b, One), As(a, One)>>))>>), O(<<As(a, O(<<As(a, Literal("true"))>>))>>),
  A(<<>>), A(<<One, A(<<Literal("null")>>), O(<<As(b, One)>>)>>),
  O(<<As(<<126, 47>>, One), As(a, Literal("null"))>>) }
MCNames == {a, b, <<97, 98>>}
MCSpare == {-4, 0, 1, 2, 6}
MCBuffers == {1, 200}
MCCuts == {0, 1, 9}
=============================================================================
