---------------------------- MODULE MCConnection ----------------------------
(* Instances of Connection for TLC: commands of every outcome, one that    *)
(* fills the read buffer and has too many words, one that is too long and  *)
(* one cut short.                                                          *)
EXTENDS Connection

WordLength(w) == CASE w = "big" -> 12 [] OTHER -> 1

Requests ==
  {<<"keys">>, <<"get", "k">>, <<"zscore", "k", "n">>, <<"del", "k">>, <<"zadd">>,
   <<"expire", "k", "word">>, <<"zquery", "k", "1", "n", "0", "1">>, <<"set", "k", "big">>,
   <<"zadd", "k", "word", "n">>, <<"zadd", "k", "1", "n">>, <<"zrem", "k", "n">>,
   <<"set", "k", "v">>}
CutOnes == {<<"set", "k", "v">>}
Others == {<<"set", "k", "big">>} \cup CutOnes
Found1 == {"v"}
Lists == {<<>>, <<"k", "big">>}
NoneFound == {<<>>}
Times == {7}
=============================================================================
