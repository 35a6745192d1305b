--------------------------- MODULE MCSyslogReceiver ---------------------------
(* A service that starts and later closes a receiver while another          *)
(* coroutine drains it.                                                    *)
EXTENDS SyslogReceiver

CONSTANTS main, other

MCService == [c \in Callers |-> IF c = main THEN <<"start", "close">> ELSE <<"drain", "drain">>]
=============================================================================
