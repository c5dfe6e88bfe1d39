--------------------------- MODULE MCRpcDispatch ---------------------------
(***************************************************************************)
(* Instances of RpcDispatch for TLC.                                       *)
(***************************************************************************)
EXTENDS RpcDispatch

TwoIds == 1 .. 2
\* Plain requests, and requests after one or two others (or themselves).
SomeAfters == {<<>>, <<1>>, <<1, 2>>}
\* Two requests, alone and in one container in either order.
PairPackets == {<<1>>, <<2>>, <<1, 2>>, <<2, 1>>}

=============================================================================
