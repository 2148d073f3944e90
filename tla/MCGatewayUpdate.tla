--------------------------- MODULE MCGatewayUpdate ---------------------------
(* Commands that race for one executable and one gateway.                    *)
EXTENDS GatewayUpdate
=============================================================================
