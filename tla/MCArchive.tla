----------------------------- MODULE MCArchive -----------------------------
(* Small documents over two bytes: two that share a block of two bytes, and
   one that is longer than a block. *)
EXTENDS Archive

Documents == {<<1>>, <<2>>, <<1, 2, 1>>}
=============================================================================
