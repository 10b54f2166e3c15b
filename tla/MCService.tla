----------------------------- MODULE MCService ------------------------------
(* An instance of ApiService for TLC: a build with two migrations, and one   *)
(* that has edited the first of them and lacks the second.                   *)
EXTENDS ApiService
MCBuild == {<<"a", "b">>, <<"x", "absent">>}
=============================================================================
