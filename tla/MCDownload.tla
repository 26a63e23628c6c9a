-------------------------------- MODULE MCDownload -----------------------------
(***************************************************************************)
(* Three downloads, one of them of an empty file, for one permit and two   *)
(* threads, and a channel that one chunk fills: both others can stall.     *)
(***************************************************************************)
EXTENDS Download, TLC

CONSTANTS d1, d2, d3

MCTermOf == (d1 :> <<1, 1, 2, 3>>) @@ (d2 :> <<1, 2, 2>>) @@ (d3 :> <<>>)
================================================================================
