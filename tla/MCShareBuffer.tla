---------------------------- MODULE MCShareBuffer ---------------------------
(***************************************************************************)
(* Instance of ShareBuffer: twice as many segments as bits, as in the code *)
(* (64 and 32), one client of each kind and a second lwIP pbuf.            *)
(***************************************************************************)
EXTENDS ShareBuffer

CONSTANTS login, realData, pbuf1, pbuf2

MCStatic == {login}
MCPack   == {realData}
MCLocal  == {pbuf1, pbuf2}
MCNeeds  == [c \in MCStatic \cup MCPack \cup MCLocal |->
               CASE c = login -> {1} [] c = realData -> {2} [] OTHER -> {1, 3}]

=============================================================================
