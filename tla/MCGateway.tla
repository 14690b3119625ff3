------------------------------ MODULE MCGateway ------------------------------
(* Gateway with up to two sensors, adopted for one berth or for none.      *)
EXTENDS Gateway

CONSTANTS DeviceOf,   \* the requests that name the first sensor
          BareReqs,   \* those that name no berth
          d1, d2, b1, n1

MCReqDev == [r \in ProvReqs |-> IF r \in DeviceOf THEN d1 ELSE d2]
MCReqEntry == [r \in ProvReqs |->
                IF r \in BareReqs THEN NoEntry ELSE [berth |-> b1, node |-> n1]]
=============================================================================
