-------------------------- MODULE MCChannelObject --------------------------
(***************************************************************************)
(* A small instance of ChannelObject for TLC.                              *)
(***************************************************************************)
EXTENDS ChannelObject, TLC

CONSTANTS f1, f2, f3

MCNickOf == f1 :> "al" @@ f2 :> "bo" @@ f3 :> "cy"
MCFold == [s \in {"al", "bo", "cy", "#c"} |-> s]
NoModeLines == {}
=============================================================================
