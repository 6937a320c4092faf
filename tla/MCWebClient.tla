---------------------------- MODULE MCWebClient ----------------------------
(* A small instance of WebClient for TLC: only the public room is ever       *)
(* created by a name with its #, which the page then shows under another.    *)
EXTENDS WebClient, TLC

CONSTANTS a, aa

MCMarked == a :> aa
=============================================================================
