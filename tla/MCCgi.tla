---------------------------------- MODULE MCCgi --------------------------------
(***************************************************************************)
(* Children for Cgi: every output of four bytes after a request is read,    *)
(* and some that mix reading, output and noise.                             *)
(***************************************************************************)
EXTENDS Cgi, TLC

Outputs == [1 .. 4 -> {"r", "n", "x"}]
Plain == {<<"in">> \o o : o \in Outputs}

Mixed ==
    {<<"x", "n", "n", "in", "x", "in", "x", "in">>,
     <<"in", "x", "r", "n", "r", "n", "x", "x", "in">>,
     <<"err", "err", "x", "n", "err", "err", "n", "x">>,
     <<"in", "in", "in", "err", "err", "err", "n", "n">>,
     <<"n", "n", "r", "n", "r", "n", "x">>,
     <<"r", "n", "r", "n", "n", "n">>,
     <<"x", "n", "r", "n", "r", "n", "n">>,
     <<"bad", "n", "n", "x", "in", "in">>,
     <<"x", "n", "n", "bad", "x">>,
     <<"x", "x", "err", "in">>,
     <<"in">>, <<>>}

MCScripts == Plain \cup Mixed
================================================================================
