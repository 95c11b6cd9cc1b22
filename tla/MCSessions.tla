----------------------------- MODULE MCSessions -----------------------------
(* Small instances of Sessions: two sessions, one of them with two processes. *)
EXTENDS Sessions

CONSTANTS s1, s2

TwoAndOne == {<<s1, 1>>, <<s1, 2>>, <<s2, 1>>}
OneEach == {<<s1, 1>>, <<s2, 1>>}

=============================================================================
