------------------------ MODULE MCHttpRequestManager ------------------------
(* HttpRequestManager for TLC: two control requests of one subscription, one *)
(* of another, two messages, a heartbeat and the destruction of a session.   *)
EXTENDS HttpRequestManager

CONSTANTS add1, delete1, add2, message1, message2, heartbeat, destroy

MCKind == [r \in Requests |-> CASE r \in {message1, message2} -> Message
                                [] r = destroy                -> Destroy
                                [] r = heartbeat              -> Heartbeat
                                [] OTHER                      -> Control]
MCKey == [r \in Requests |-> IF r = delete1 THEN add1 ELSE r]
MCLength == [r \in Requests |-> IF r = message2 THEN 3 ELSE 1]
=============================================================================
