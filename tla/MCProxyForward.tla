--------------------------- MODULE MCProxyForward ---------------------------
(***************************************************************************)
(* Requests with no header, one, and one that is cut off; responses with   *)
(* and without a length, longer than one piece, longer than a cached       *)
(* object may be, and with a line longer than MAXLINE.                     *)
(***************************************************************************)
EXTENDS ProxyForward

Line == <<"x", "r", "n">>
End == <<"r", "n">>
Text(n) == [k \in 1..n |-> "x"]

MCRequests == {End, Line \o End, <<"x">>}

WithLength(n) == [bytes |-> Line \o <<"L", "r", "n">> \o End \o Text(n), length |-> n]
WithoutLength(n) == [bytes |-> Line \o End \o Text(n), length |-> 0]
LongLine == [bytes |-> Line \o Text(4) \o End \o End \o Text(1), length |-> 0]

MCResponses == {WithLength(n) : n \in {0, 1, 4, 5}}
                 \cup {WithoutLength(n) : n \in {0, 5, 8}} \cup {LongLine}
ASSUME \A r \in Responses : Proper(r)
=============================================================================
