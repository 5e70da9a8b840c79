----------------------------- MODULE MCMiStream -----------------------------
(* Every record of up to nine tokens, whole and with one token wrong, and what *)
(* may follow it.                                                              *)
EXTENDS MiGrammar
Seconds == {<<>>, <<"(gdb)">>, <<"^done", "comma", "name">>}
MCStreams == {first \o e \o second \o f :
              first \in Firsts, second \in Seconds, e \in Endings, f \in Endings \cup {<<>>}}
=============================================================================
