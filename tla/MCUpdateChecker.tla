---------------------------- MODULE MCUpdateChecker ----------------------------
EXTENDS UpdateChecker

(* v1.9.0, v1.10.0, v1.10.0-rc1, v2.0.0 and "dev". *)
MCTags == {<<1, 9, 0, 0>>, <<1, 10, 0, 0>>, <<1, 10, 0, 1>>, <<2, 0, 0, 0>>, <<0>>}
=============================================================================
