----------------------------- MODULE MCChannels -----------------------------
(***************************************************************************)
(* Two messages of one conversation, and two server processes with one     *)
(* request each.                                                           *)
(***************************************************************************)
EXTENDS ChannelsProps, TLC

CONSTANTS r1, r2, p1, p2, hello, more, wa

MCHost == r1 :> p1 @@ r2 :> p2
MCConv == hello :> wa @@ more :> wa
=============================================================================
