------------------------------- MODULE BleLink -------------------------------
(***************************************************************************)
(* One BLE link between the ESP32 and one appliance, as the hub sees it    *)
(* through BleTransport (ble_transport.h, esp_idf_transport.h).  The code  *)
(* behind that interface, ESPHome's BLE client and the Bluedroid stack, is *)
(* not in the repository: this module states what the hub relies on.       *)
(*                                                                         *)
(*   "down"     no connection                                              *)
(*   "opening"  dialled; service discovery has not completed               *)
(*   "up"       connected() is true                                        *)
(*   "closing"  disconnect() was called; a DISCONNECT event will follow,   *)
(*              and events already queued by the Bluetooth task still land *)
(***************************************************************************)
EXTENDS Naturals

VARIABLES
    link,       \* state of the connection
    enabled,    \* set_enabled(): whether the client dials by itself
    session,    \* facts about the current connection
    bond        \* whether the ESP32 stores a bond for the appliance

linkVars == <<link, enabled, session, bond>>

LinkStates == {"down", "opening", "up", "closing"}

\* "pairing"     a security procedure is under way
\* "encrypted"   the link is encrypted
\* "registered"  notifications of D6 reach the hub: it was registered and its
\*               CCCD written in this connection
\* "written"     a GATT write was issued, so a write can be reported failed
\* "unlocked"    an unlock command was written on D6, so it may answer
\* "control"     an unlock command was written on D5, so it obeys `set`
\* "searching"   search_service() was called, its SEARCH_CMPL is still to come
\* "heard"       a message of the appliance was parsed (history: no action
\*               asks for it)
\* "late"        D6 was found only after the hub had subscribed (history)
SessionFacts ==
    {"pairing", "encrypted", "registered", "written", "unlocked",
     "control", "searching", "heard", "late"}

LinkInit ==
    /\ link = "down"
    /\ enabled = TRUE
    /\ session = {}
    /\ bond \in BOOLEAN

-----------------------------------------------------------------------------
\* connected()
Connected == link = "up"

\* The connection id is still valid: calls and events of this connection work.
HasConnection == link \in {"up", "closing"}

\* A GATT or GAP call that leaves a trace in the connection, if there is one.
Noting(facts) == IF HasConnection THEN session \cup facts ELSE session

\* disconnect(): does nothing on an idle client.
HungUp == IF link \in {"opening", "up"} THEN "closing" ELSE link

\* set_enabled(FALSE): hangs up, unless the client was disabled already.
HungUpByDisabling == IF enabled THEN HungUp ELSE link

\* connect(): ignored unless the client is idle.
Dialled == IF link = "down" THEN "opening" ELSE link

\* The connection is gone.  The verdict on a pairing it cut short may still
\* be reported afterwards.
ConnectionGone ==
    /\ link' = "down"
    /\ session' = session \cap {"pairing"}

=============================================================================
