----------------------------- MODULE SubzeroHub ------------------------------
(***************************************************************************)
(* SubzeroHub (hub.cpp, hub.h): the object that keeps one Sub-Zero, Wolf   *)
(* or Cove appliance connected, bonded, unlocked and polled.               *)
(*                                                                         *)
(* All of it runs on ESPHome's main loop, so a handler is one atomic       *)
(* action.  What interleaves is the handlers themselves: BLE events, named *)
(* one-shot timers, the 60 s poll tick and the Home Assistant buttons come *)
(* in any order.  A pending timer may fire at any time: delays are not     *)
(* modelled, so every safety property holds whatever the delays are.       *)
(***************************************************************************)
EXTENDS BleLink

CONSTANTS
    Pins,                       \* the PINs a user or an appliance may use
    NoPin,                      \* the empty stored_pin_ or unlock_cmd_
    Inputs,                     \* the outside stimuli considered
    StaleBondsThreshold,        \* kStaleBondsThreshold (3)
    MaxEncryptionRetries,       \* kMaxEncryptionRetries (5)
    WriteFailStreakThreshold,   \* kWriteFailStreakThreshold (3)
    MaxD6RediscoverAttempts,    \* kMaxD6RediscoverAttempts (2)
    PairingBackoffInitial,      \* kPairingBackoffInitialMs, in seconds (60)
    PairingBackoffMax           \* kPairingBackoffMaxMs, in seconds (300)

ASSUME HubAssumption ==
    /\ NoPin \notin Pins
    /\ StaleBondsThreshold \in Nat \ {0}
    /\ MaxEncryptionRetries \in Nat
    /\ WriteFailStreakThreshold \in Nat \ {0}
    /\ MaxD6RediscoverAttempts \in Nat
    /\ PairingBackoffInitial \in Nat \ {0}
    /\ PairingBackoffMax \in Nat
    /\ PairingBackoffInitial <= PairingBackoffMax

VARIABLES
    phase,              \* phase_: 0, or 1 for all above (the code tests no more)
    handles,            \* the characteristics whose handle is not 0
    running,            \* the *_running_ flags that are set
    timers,             \* the named timeouts that are pending
    storedPin,          \* stored_pin_
    pinConfirmed,       \* pin_confirmed_
    unlockCmd,          \* unlock_cmd_: the PIN the command was built for
    fastRetries,        \* fast_retries_: strikes against the bond
    writeFailStreak,    \* write_fail_streak_
    encRetryCount,      \* enc_retry_count_
    encRetryPending,    \* enc_retry_pending_
    pairingBackoff,     \* pairing_backoff_ms_, in seconds
    d6MissingStreak,    \* d6_missing_streak_, saturating
    intentional,        \* intentional_disconnect_
    quiet,              \* session_refresh_quiet_
    status,             \* class of last_published_status_
    pollVerb,           \* poll_verb_
    strikes             \* history: strikes charged to this connection attempt

ladderVars == <<phase, handles, running, timers>>
pinVars    == <<storedPin, pinConfirmed, unlockCmd>>
strikeVars == <<fastRetries, strikes>>
writeVars  == <<writeFailStreak, encRetryCount, encRetryPending>>
statusVars == <<status, quiet>>

vars == <<linkVars, ladderVars, pinVars, strikeVars, writeVars, statusVars,
          pairingBackoff, d6MissingStreak, intentional, pollVerb>>

Chars == {"D5", "D6"}

Flows == {"post_bond", "subscribe", "fast_reconnect"}

PostBondTimers ==
    {"post_bond_initial", "post_bond_post_enc", "post_bond_search",
     "post_bond_poll_1", "post_bond_poll_2", "post_bond_poll_3",
     "post_bond_giveup"}

SubscribeTimers == {"subscribe_unlock", "subscribe_get"}

\* One timeout name; the two closures start_fast_reconnect_ gives it in turn.
FastReconnectTimers == {"fast_reconnect", "fast_reconnect_subscribe"}

\* What cancel_all_timeouts_ cancels.
Cancellable ==
    PostBondTimers \cup SubscribeTimers \cup FastReconnectTimers \cup
    {"submit_pin_poll", "verb_fallback_retry", "session_refresh",
     "encryption_retry"}

TimerNames == Cancellable \cup {"pairing_backoff", "session_refresh_quiet"}

\* The texts of Status, as far as a property tells them apart.
Statuses ==
    {"none", "polling", "disconnected", "bond_cleared", "reset", "other"}

MaybePins == Pins \cup {NoPin}

FlagsOK ==
    /\ enabled \in BOOLEAN
    /\ bond \in BOOLEAN
    /\ pinConfirmed \in BOOLEAN
    /\ encRetryPending \in BOOLEAN
    /\ intentional \in BOOLEAN
    /\ quiet \in BOOLEAN

SetsOK ==
    /\ link \in LinkStates
    /\ session \subseteq SessionFacts
    /\ handles \subseteq Chars
    /\ running \subseteq Flows
    /\ timers \subseteq TimerNames
    /\ storedPin \in MaybePins
    /\ unlockCmd \in MaybePins
    /\ status \in Statuses
    /\ pollVerb \in {"get_async", "get"}

\* Every counter stays below the threshold at which the code acts on it.
CountersOK ==
    /\ phase \in 0..1
    /\ fastRetries \in 0..(StaleBondsThreshold - 1)
    /\ strikes \in 0..2
    /\ writeFailStreak \in 0..(WriteFailStreakThreshold - 1)
    /\ encRetryCount \in 0..MaxEncryptionRetries
    /\ pairingBackoff \in 0..PairingBackoffMax
    /\ d6MissingStreak \in 0..(MaxD6RediscoverAttempts + 1)

TypeOK == FlagsOK /\ SetsOK /\ CountersOK

\* A configured PIN counts as confirmed; so does none at all (hub.h's default).
Init ==
    /\ LinkInit
    /\ phase = 0
    /\ handles = {}
    /\ running = {}
    /\ timers = {}
    /\ storedPin \in MaybePins
    /\ pinConfirmed = TRUE
    /\ unlockCmd = NoPin
    /\ fastRetries = 0
    /\ strikes = 0
    /\ writeFailStreak = 0
    /\ encRetryCount = 0
    /\ encRetryPending = FALSE
    /\ pairingBackoff = 0
    /\ d6MissingStreak = 0
    /\ intentional = FALSE
    /\ quiet = FALSE
    /\ status = "none"
    /\ pollVerb = "get_async"

-----------------------------------------------------------------------------
(* Helpers of the handlers *)

\* publish_status_: a real state; it always ends the mute.
PublishStatus(text) ==
    /\ status' = text
    /\ quiet' = FALSE

\* publish_progress_: connection chatter, swallowed while muted.
PublishProgress(text) ==
    \/ /\ quiet
       /\ UNCHANGED statusVars
    \/ /\ ~quiet
       /\ PublishStatus(text)

\* The fast path's condition, and handle_disconnected()'s: a bonded session
\* found D5 before and its handle is still cached.
HandlesCached == "D5" \in handles /\ phase = 1

\* read_gatt_db(): the table is in handle order and the Bluetooth task fills
\* it while we read, so a snapshot may stop before D6 or before D5.
Snapshots ==
    IF "truncated" \in Inputs THEN {{}, {"D5"}, {"D5", "D6"}}
                              ELSE {{"D5", "D6"}}

\* update_handles_from_db_: additive, a known handle is never replaced.
UpdatedHandles(snapshot) == handles \cup snapshot

StruckOut == fastRetries + 1 >= StaleBondsThreshold

\* Mutated note_bond_failure_: the handles of the lost bond stay cached.
NoteBondFailureKeepingHandles(known) ==
    /\ strikes' = IF strikes < 2 THEN strikes + 1 ELSE 2
    /\ handles' = known
    /\ \/ /\ StruckOut
          /\ bond' = FALSE
          /\ phase' = 0
          /\ fastRetries' = 0
       \/ /\ ~StruckOut
          /\ fastRetries' = fastRetries + 1
          /\ UNCHANGED <<bond, phase>>

\* note_bond_failure_, for a hub whose cached handles are `known`.
NoteBondFailure(known) ==
    /\ strikes' = IF strikes < 2 THEN strikes + 1 ELSE 2
    /\ \/ /\ StruckOut
          /\ bond' = FALSE
          /\ handles' = {}
          /\ phase' = 0
          /\ fastRetries' = 0
       \/ /\ ~StruckOut
          /\ fastRetries' = fastRetries + 1
          /\ handles' = known
          /\ UNCHANGED <<bond, phase>>

\* Mutated cancel_all_timeouts_: one name forgotten; every name cancelled.
WithoutTimeoutsButRetry == timers \ (Cancellable \ {"encryption_retry"})
WithoutAnyTimeout == {}

\* cancel_all_timeouts_: everything but the pairing back-off and the watchdog
\* of the mute.
WithoutTimeouts == timers \ Cancellable

\* write_unlock_channel_: builds the command at the first use after a PIN change.
UnlockCmdUsed == IF unlockCmd = NoPin THEN storedPin ELSE unlockCmd

\* The unlock command goes out on D6, if its handle is known and a PIN is set.
D6UnlockWritten ==
    CASE handles = {} -> session
      [] "D6" \in handles /\ storedPin # NoPin -> Noting({"written", "unlocked"})
      [] OTHER -> Noting({"written"})

\* subscribe_unlock_ writes it on every channel it knows.
ChannelsUnlocked ==
    LET known == {"control" : char \in handles \cap {"D5"}} \cup
                 {"unlocked" : char \in handles \cap {"D6"}}
    IN  IF handles = {} THEN session ELSE Noting({"written"} \cup known)

\* Mutated start_post_bond_: the flag is set, the first step never scheduled.
StartPostBondUnarmed ==
    /\ running' = running \cup {"post_bond"}
    /\ UNCHANGED timers

\* start_post_bond_
StartPostBond ==
    /\ running' = running \cup {"post_bond"}
    /\ timers' = timers \cup {"post_bond_initial"}

\* subscribe_register_and_cccd_ on the link: D5 always, D6 only if it is known
\* by now.  (What D5 notifies is ignored: handle_d5_notify is empty.)
Subscribed(known, facts) ==
    IF HasConnection
    THEN facts \cup {"written"} \cup {"registered" : char \in known \cap {"D6"}}
    ELSE facts

\* Mutated start_subscribe_: the flag is not set.
StartSubscribeUnmarked(known, flows, pending, facts) ==
    \/ /\ "D5" \in known
       /\ running' = flows
       /\ timers' = pending \cup {"subscribe_unlock"}
       /\ session' = Subscribed(known, facts)
       /\ UNCHANGED statusVars
    \/ /\ "D5" \notin known
       /\ running' = flows \ {"subscribe"}
       /\ timers' = pending
       /\ session' = facts
       /\ PublishStatus("other")

\* start_subscribe_, subscribe_register_and_cccd_, for a hub that knows `known`
\* and, apart from this flow, has the flags `flows`, the timers `pending` and
\* the connection facts `facts`.
StartSubscribe(known, flows, pending, facts) ==
    \/ /\ "D5" \in known
       /\ running' = flows \cup {"subscribe"}
       /\ timers' = pending \cup {"subscribe_unlock"}
       /\ session' = Subscribed(known, facts)
       /\ UNCHANGED statusVars
    \/ /\ "D5" \notin known
       /\ running' = flows \ {"subscribe"}
       /\ timers' = pending
       /\ session' = facts
       /\ PublishStatus("other")

-----------------------------------------------------------------------------
(* Connection events: gattc_event_handler and the handlers it calls *)

\* handle_connected
HandleConnected ==
    \/ /\ HandlesCached
       /\ running' = running \cup {"fast_reconnect"}
       /\ timers' = (timers \ FastReconnectTimers) \cup {"fast_reconnect"}
       /\ PublishProgress("other")
       /\ UNCHANGED phase
    \/ /\ ~HandlesCached
       /\ phase = 0 \/ "post_bond" \notin running
       /\ phase' = 1
       /\ StartPostBond
       /\ PublishStatus("other")
    \/ /\ ~HandlesCached
       /\ phase = 1
       /\ "post_bond" \in running
       /\ UNCHANGED <<phase, running, timers, statusVars>>

\* handle_disconnected, the bookkeeping of the drop: a strike, unless we hung
\* up on purpose; the handles are kept only while they are worth caching.
CountDrop ==
    \/ /\ HandlesCached
       /\ ~intentional
       /\ NoteBondFailure(handles)
    \/ /\ HandlesCached
       /\ intentional
       /\ UNCHANGED <<phase, handles, bond, strikeVars>>
    \/ /\ ~HandlesCached
       /\ phase' = 0
       /\ handles' = {}
       /\ UNCHANGED <<bond, strikeVars>>

\* Mutated handle_disconnected: "Disconnected" always has the last word; the
\* mute swallows a drop nobody asked for.
AnnounceDropAlways ==
    /\ quiet' = (quiet /\ intentional)
    /\ status' = IF quiet /\ intentional THEN status ELSE "disconnected"
AnnounceDropMuted ==
    /\ quiet' = (quiet /\ intentional)
    /\ status' = IF quiet THEN status ELSE "disconnected"

\* handle_disconnected, what Status says of the drop.
AnnounceDrop ==
    /\ quiet' = (quiet /\ intentional)
    /\ status' =
         CASE HandlesCached /\ ~intentional /\ StruckOut -> "bond_cleared"
           [] ~HandlesCached /\ intentional -> status
           [] quiet /\ intentional -> status
           [] OTHER -> "disconnected"

\* Mutated handle_disconnected: the flag is consumed with the handles only.
IntentLatched == IF HandlesCached THEN FALSE ELSE intentional

\* handle_disconnected consumes the flag, whatever it makes of the handles.
ConsumedIntent == FALSE

\* handle_disconnected
HandleDisconnected ==
    /\ timers' = WithoutTimeouts
    /\ running' = {}
    /\ writeFailStreak' = 0
    /\ encRetryCount' = 0
    /\ encRetryPending' = FALSE
    /\ intentional' = ConsumedIntent
    /\ CountDrop
    /\ AnnounceDrop

\* auto_connect dials while the client is enabled.
Dial ==
    /\ link = "down"
    /\ enabled
    /\ link' = Dialled
    /\ session' = {}
    /\ strikes' = 0
    /\ UNCHANGED <<enabled, bond, ladderVars, pinVars, fastRetries, writeVars,
                   statusVars, pairingBackoff, d6MissingStreak, intentional,
                   pollVerb>>

\* SEARCH_CMPL with status OK, after the open or after search_service().
ServicesFound ==
    /\ \/ link = "opening"
       \/ link = "up" /\ "searching" \in session
    /\ link' = "up"
    /\ session' = session \ {"searching"}
    /\ HandleConnected
    /\ UNCHANGED <<enabled, bond, handles, pinVars, strikeVars, writeVars,
                   pairingBackoff, d6MissingStreak, intentional, pollVerb>>

\* SEARCH_CMPL with any other status: the hub hears of a disconnect although
\* the connection is still there.
SearchFailed ==
    /\ "search_fail" \in Inputs
    /\ \/ link = "opening"
       \/ link = "up" /\ "searching" \in session
    /\ link' = "up"
    /\ session' = session \ {"searching"}
    /\ HandleDisconnected
    /\ UNCHANGED <<enabled, pinVars, pairingBackoff, d6MissingStreak, pollVerb>>

\* DISCONNECT, or OPEN with a status other than OK.
ConnectionLost ==
    /\ \/ link = "closing"
       \/ link \in {"opening", "up"} /\ "drop" \in Inputs
    /\ ConnectionGone
    /\ HandleDisconnected
    /\ UNCHANGED <<enabled, pinVars, pairingBackoff, d6MissingStreak, pollVerb>>

-----------------------------------------------------------------------------
(* Security events *)

\* A link re-encrypts with the stored key; no event reaches the application.
Reencrypted ==
    /\ Connected
    /\ bond
    /\ "pairing" \in session
    /\ session' = (session \ {"pairing"}) \cup {"encrypted"}
    /\ UNCHANGED <<link, enabled, bond, ladderVars, pinVars, strikeVars,
                   writeVars, statusVars, pairingBackoff, d6MissingStreak,
                   intentional, pollVerb>>

\* handle_auth_complete(success): a subscribe that waits for encryption is
\* rerun at once.
AuthSucceeded ==
    /\ link \in {"opening", "up"}
    /\ bond' = TRUE
    /\ pairingBackoff' = 0
    /\ encRetryPending' = FALSE
    /\ LET secured == (session \ {"pairing"}) \cup {"encrypted"}
           waited == timers \ {"encryption_retry"}
       IN \/ /\ encRetryPending
             /\ Connected
             /\ "D5" \in handles
             /\ StartSubscribe(handles, running, waited, secured)
          \/ /\ encRetryPending => ~Connected \/ "D5" \notin handles
             /\ timers' = IF encRetryPending THEN waited ELSE timers
             /\ session' = secured
             /\ UNCHANGED <<running, statusVars>>
    /\ UNCHANGED <<link, enabled, phase, handles, pinVars, strikeVars,
                   writeFailStreak, encRetryCount, d6MissingStreak,
                   intentional, pollVerb>>

\* Mutated start_pairing_backoff_: no cap.
NextBackoffUncapped ==
    IF pairingBackoff = 0 THEN PairingBackoffInitial ELSE pairingBackoff * 2

\* start_pairing_backoff_: the interval doubles up to its cap.
NextBackoff ==
    CASE pairingBackoff = 0 -> PairingBackoffInitial
      [] pairingBackoff * 2 > PairingBackoffMax -> PairingBackoffMax
      [] OTHER -> pairingBackoff * 2

\* Mutated handle_auth_complete: a late verdict is charged as well.
RefusalCountsLate(known) == "D5" \in known /\ phase = 1

\* Only a refusal on a live link by an appliance that showed us D5 is a strike.
RefusalCounts(known) == Connected /\ "D5" \in known /\ phase = 1

\* handle_auth_complete(failure), whatever the reason: the ladder that waited
\* for the pairing stops, D5 is looked up if it was not yet, and the refusal
\* may be a strike.
PairingRefused ==
    /\ running' = {}
    /\ encRetryPending' = FALSE
    /\ \E snapshot \in Snapshots :
         LET known == IF Connected /\ "D5" \notin handles
                      THEN UpdatedHandles(snapshot) ELSE handles
         IN  \/ /\ RefusalCounts(known)
                /\ NoteBondFailure(known)
             \/ /\ ~RefusalCounts(known)
                /\ handles' = known
                /\ UNCHANGED <<phase, bond, strikeVars>>
    /\ session' = session \ {"pairing"}

\* A pairing fails on a link that is not encrypted; when the link went down
\* under it, the verdict may come while it closes or after.
PairingCanFail ==
    /\ "encrypted" \notin session
    /\ link \in {"opening", "up"} \/ "pairing" \in session

\* handle_auth_complete(failure), any reason but REPEATED_ATTEMPTS: hang up, on
\* purpose.  phase falls when the refusal cleared the bond.
AuthFailed ==
    /\ "auth_fail" \in Inputs
    /\ PairingCanFail
    /\ PairingRefused
    /\ PublishStatus(IF phase' < phase THEN "bond_cleared" ELSE "other")
    /\ timers' = WithoutTimeouts
    /\ link' = IF Connected THEN HungUp ELSE link
    /\ intentional' = (intentional \/ Connected)
    /\ UNCHANGED <<enabled, pinVars, writeFailStreak, encRetryCount,
                   pairingBackoff, d6MissingStreak, pollVerb>>

\* handle_auth_complete(failure) with SMP REPEATED_ATTEMPTS: the client is
\* disabled for a while, and the status of start_pairing_backoff_ comes last.
AuthRateLimited ==
    /\ "repeated" \in Inputs
    /\ PairingCanFail
    /\ PairingRefused
    /\ PublishStatus("other")
    /\ pairingBackoff' = NextBackoff
    /\ timers' = WithoutTimeouts \cup {"pairing_backoff"}
    /\ intentional' = (intentional \/ Connected)
    /\ link' = HungUpByDisabling
    /\ enabled' = FALSE
    /\ UNCHANGED <<pinVars, writeFailStreak, encRetryCount, d6MissingStreak,
                   pollVerb>>

\* handle_passkey_request without a PIN; with one the hub only replies.
PasskeyRequested ==
    /\ link \in {"opening", "up"}
    /\ storedPin = NoPin
    /\ PublishStatus("other")
    /\ UNCHANGED <<linkVars, ladderVars, pinVars, strikeVars, writeVars,
                   pairingBackoff, d6MissingStreak, intentional, pollVerb>>

-----------------------------------------------------------------------------
(* GATT results and messages *)

\* A write is reported failed while its connection exists.
WriteFails == HasConnection /\ "written" \in session

\* handle_write_failed, security status: retry the subscribe a bounded number
\* of times; the failures of one batch of writes share one retry.
WriteRejectedUnencrypted ==
    /\ "security" \in Inputs
    /\ WriteFails
    /\ ~encRetryPending
    /\ \/ /\ encRetryCount >= MaxEncryptionRetries
          /\ PublishStatus("other")
          /\ link' = HungUp
          /\ UNCHANGED <<timers, encRetryCount, encRetryPending>>
       \/ /\ encRetryCount < MaxEncryptionRetries
          /\ encRetryCount' = encRetryCount + 1
          /\ encRetryPending' = TRUE
          /\ timers' = timers \cup {"encryption_retry"}
          /\ UNCHANGED <<link, statusVars>>
    /\ UNCHANGED <<enabled, session, bond, phase, handles, running, pinVars,
                   strikeVars, writeFailStreak, pairingBackoff,
                   d6MissingStreak, intentional, pollVerb>>

\* handle_write_failed, any other status: the cached handles look stale after
\* a streak of these.
WriteFailed ==
    /\ "write_fail" \in Inputs
    /\ WriteFails
    /\ \/ /\ writeFailStreak + 1 < WriteFailStreakThreshold
          /\ writeFailStreak' = writeFailStreak + 1
          /\ UNCHANGED <<link, phase, handles, statusVars>>
       \/ /\ writeFailStreak + 1 >= WriteFailStreakThreshold
          /\ writeFailStreak' = 0
          /\ handles' = {}
          /\ phase' = 0
          /\ link' = HungUp
          /\ PublishStatus("other")
    /\ UNCHANGED <<enabled, session, bond, running, timers, pinVars, strikeVars,
                   encRetryCount, encRetryPending, pairingBackoff,
                   d6MissingStreak, intentional, pollVerb>>

\* A notification of D6 is routed to handle_d6_notify (gattc_event_handler
\* compares handles); the appliance sends on it once encrypted and subscribed.
DataArrives ==
    /\ HasConnection
    /\ "D6" \in handles
    /\ {"encrypted", "registered"} \subseteq session

\* handle_complete_message_ for a message that parses; the appliance sends its
\* state only on a channel that was unlocked.
MessageParsed ==
    /\ DataArrives
    /\ "unlocked" \in session
    /\ fastRetries' = 0
    /\ writeFailStreak' = 0
    /\ encRetryCount' = 0
    /\ pairingBackoff' = 0
    /\ session' = session \cup {"heard"}

\* A push: a good message without a `pin` field.
PushReceived ==
    /\ MessageParsed
    /\ UNCHANGED <<link, enabled, bond, ladderVars, pinVars, strikes,
                   encRetryPending, statusVars, d6MissingStreak, intentional,
                   pollVerb>>

\* A poll or unlock response, which carries the appliance's PIN:
\* on_pin_confirmed_, then as any good message.
PollResponseReceived(pin) ==
    /\ MessageParsed
    /\ unlockCmd' = IF pin = storedPin THEN unlockCmd ELSE NoPin
    /\ storedPin' = pin
    /\ pinConfirmed' = TRUE
    /\ \/ /\ pinConfirmed /\ pin = storedPin
          /\ UNCHANGED statusVars
       \/ /\ ~pinConfirmed \/ pin # storedPin
          /\ PublishStatus("other")
    /\ UNCHANGED <<link, enabled, bond, ladderVars, strikes, encRetryPending,
                   d6MissingStreak, intentional, pollVerb>>

\* Status 302: the PIN was revoked.
PairingRevoked ==
    /\ "revoked" \in Inputs
    /\ DataArrives
    /\ PublishStatus("other")
    /\ UNCHANGED <<linkVars, ladderVars, pinVars, strikeVars, writeVars,
                   pairingBackoff, d6MissingStreak, intentional, pollVerb>>

\* handle_lacking_properties_: fall back from get_async to get, once.
LackingProperties ==
    /\ "lacking" \in Inputs
    /\ DataArrives
    /\ pollVerb' = "get"
    /\ timers' = IF pollVerb = "get_async"
                 THEN timers \cup {"verb_fallback_retry"} ELSE timers
    /\ PublishStatus("other")
    /\ UNCHANGED <<linkVars, phase, handles, running, pinVars, strikeVars,
                   writeVars, pairingBackoff, d6MissingStreak, intentional>>

\* do_periodic_poll's early returns.
PollDue ==
    /\ pinConfirmed
    /\ running = {}
    /\ "D6" \in handles
    /\ Connected

\* do_periodic_poll: unlock and poll D6.
PeriodicPoll ==
    /\ PollDue
    /\ unlockCmd' = UnlockCmdUsed
    /\ session' = D6UnlockWritten
    /\ UNCHANGED <<link, enabled, bond, ladderVars, storedPin, pinConfirmed,
                   strikeVars, writeVars, statusVars, pairingBackoff,
                   d6MissingStreak, intentional, pollVerb>>

\* do_periodic_poll when the stack refuses the write: reconnect.
PeriodicPollRefused ==
    /\ "poll_refused" \in Inputs
    /\ PollDue
    /\ unlockCmd' = UnlockCmdUsed
    /\ PublishStatus("other")
    /\ link' = HungUp
    /\ UNCHANGED <<enabled, session, bond, ladderVars, storedPin, pinConfirmed,
                   strikeVars, writeVars, pairingBackoff, d6MissingStreak,
                   intentional, pollVerb>>

-----------------------------------------------------------------------------
(* Timers *)

\* The scheduler runs the callback of a pending timeout, which arms `next`.
Fires(timer, next) ==
    /\ timer \in timers
    /\ timers' = (timers \ {timer}) \cup next

\* request_encryption() on a link that is not encrypted starts a pairing.
EncryptionRequested ==
    IF HasConnection /\ "encrypted" \notin session
    THEN session \cup {"pairing"} ELSE session

\* post_bond_initial_
PostBondInitial(snapshot) ==
    /\ Fires("post_bond_initial", {"post_bond_post_enc"})
    /\ handles' = UpdatedHandles(snapshot)
    /\ session' = EncryptionRequested
    /\ PublishStatus("other")
    /\ UNCHANGED <<link, enabled, bond, phase, running, pinVars, strikeVars,
                   writeVars, pairingBackoff, d6MissingStreak, intentional,
                   pollVerb>>

\* post_bond_post_encryption_
PostBondPostEncryption ==
    /\ "post_bond_post_enc" \in timers
    /\ \/ /\ "D5" \in handles
          /\ StartSubscribe(handles, running \ {"post_bond"},
                            timers \ {"post_bond_post_enc"}, session)
       \/ /\ "D5" \notin handles
          /\ Fires("post_bond_post_enc", {"post_bond_search"})
          /\ UNCHANGED <<session, running, statusVars>>
    /\ UNCHANGED <<link, enabled, bond, phase, handles, pinVars, strikeVars,
                   writeVars, pairingBackoff, d6MissingStreak, intentional,
                   pollVerb>>

\* post_bond_trigger_search_: leaves the flag set when it has nothing to do.
PostBondTriggerSearch ==
    /\ \/ /\ "D5" \in handles
          /\ Fires("post_bond_search", {})
          /\ UNCHANGED session
       \/ /\ "D5" \notin handles
          /\ Fires("post_bond_search", {"post_bond_poll_1"})
          /\ session' = Noting({"searching"})
    /\ UNCHANGED <<link, enabled, bond, phase, handles, running, pinVars,
                   strikeVars, writeVars, statusVars, pairingBackoff,
                   d6MissingStreak, intentional, pollVerb>>

\* The timer of post_bond_poll_attempt_(n) and the one it arms.
PollAttempts ==
    {<<"post_bond_poll_1", "post_bond_poll_2">>,
     <<"post_bond_poll_2", "post_bond_poll_3">>,
     <<"post_bond_poll_3", "post_bond_giveup">>}

\* post_bond_poll_attempt_, and post_bond_giveup_ after the last attempt.
PostBondPollAttempt(attempt, snapshot) ==
    /\ attempt[1] \in timers
    /\ \/ /\ "D5" \in handles
          /\ Fires(attempt[1], {})
          /\ UNCHANGED <<link, session, phase, handles, running, statusVars>>
       \/ /\ "D5" \notin handles
          /\ "D5" \in snapshot
          /\ handles' = UpdatedHandles(snapshot)
          /\ StartSubscribe(handles', running \ {"post_bond"},
                            timers \ {attempt[1]}, session)
          /\ UNCHANGED <<link, phase>>
       \/ /\ "D5" \notin handles
          /\ "D5" \notin snapshot
          /\ handles' = UpdatedHandles(snapshot)
          /\ Fires(attempt[1], {attempt[2]})
          /\ PublishStatus("other")
          /\ IF attempt[2] = "post_bond_giveup"
             THEN /\ phase' = 1
                  /\ link' = HungUp
             ELSE UNCHANGED <<phase, link>>
          /\ UNCHANGED <<session, running>>
    /\ UNCHANGED <<enabled, bond, pinVars, strikeVars, writeVars,
                   pairingBackoff, d6MissingStreak, intentional, pollVerb>>

\* post_bond_giveup_'s callback.
PostBondGiveup ==
    /\ Fires("post_bond_giveup", {})
    /\ running' = running \ {"post_bond"}
    /\ UNCHANGED <<linkVars, phase, handles, pinVars, strikeVars, writeVars,
                   statusVars, pairingBackoff, d6MissingStreak, intentional,
                   pollVerb>>

\* subscribe_unlock_: without a confirmed PIN the hub waits for the user.
SubscribeUnlock ==
    /\ \/ /\ storedPin = NoPin \/ ~pinConfirmed
          /\ Fires("subscribe_unlock", {})
          /\ running' = running \ {"subscribe"}
          /\ PublishStatus("other")
          /\ UNCHANGED <<session, unlockCmd>>
       \/ /\ storedPin # NoPin /\ pinConfirmed
          /\ Fires("subscribe_unlock", {"subscribe_get"})
          /\ unlockCmd' = IF handles = {} THEN unlockCmd ELSE UnlockCmdUsed
          /\ session' = ChannelsUnlocked
          /\ PublishProgress("other")
          /\ UNCHANGED running
    /\ UNCHANGED <<link, enabled, bond, phase, handles, storedPin,
                   pinConfirmed, strikeVars, writeVars, pairingBackoff,
                   d6MissingStreak, intentional, pollVerb>>

\* A D6 that the re-read has just found missed the subscribe of this session.
FoundLate(known) == {"late" : char \in (known \ handles) \cap {"D6"}}

\* Mutated subscribe_initial_get_: no session refresh is armed.
StartPollingUnrefreshed(known) ==
    /\ Fires("subscribe_get", {})
    /\ handles' = known
    /\ d6MissingStreak' = 0
    /\ session' = Noting({"written"} \cup FoundLate(known))
    /\ PublishStatus("polling")
    /\ UNCHANGED <<link, phase>>

\* subscribe_initial_get_ with D6 known: poll, and arm the session refresh.
\* Notifications of a D6 found just now are not registered.
StartPolling(known) ==
    /\ Fires("subscribe_get", {"session_refresh"})
    /\ handles' = known
    /\ d6MissingStreak' = 0
    /\ session' = Noting({"written"} \cup FoundLate(known))
    /\ PublishStatus("polling")
    /\ UNCHANGED <<link, phase>>

\* subscribe_initial_get_ without D6: reconnect for a cold rediscovery, ...
RediscoverD6 ==
    /\ d6MissingStreak < MaxD6RediscoverAttempts
    /\ Fires("subscribe_get", {})
    /\ d6MissingStreak' = d6MissingStreak + 1
    /\ handles' = {}
    /\ phase' = 0
    /\ link' = HungUp
    /\ PublishStatus("other")
    /\ UNCHANGED session

\* Mutated subscribe_initial_get_: parked, but for ever.
ParkForEver(known) ==
    /\ d6MissingStreak >= MaxD6RediscoverAttempts
    /\ Fires("subscribe_get", {})
    /\ d6MissingStreak' = MaxD6RediscoverAttempts + 1
    /\ handles' = known
    /\ PublishStatus("other")
    /\ UNCHANGED <<link, session, phase>>

\* ... or, after enough of these, park until the session refresh.
ParkWithoutD6(known) ==
    /\ d6MissingStreak >= MaxD6RediscoverAttempts
    /\ Fires("subscribe_get", {"session_refresh"})
    /\ d6MissingStreak' = MaxD6RediscoverAttempts + 1
    /\ handles' = known
    /\ PublishStatus("other")
    /\ UNCHANGED <<link, session, phase>>

\* subscribe_initial_get_
SubscribeInitialGet(snapshot) ==
    /\ "subscribe_get" \in timers
    /\ running' = running \ {"subscribe"}
    /\ LET known == IF "D6" \in handles THEN handles
                                        ELSE UpdatedHandles(snapshot)
       IN \/ /\ ~pinConfirmed
             /\ Fires("subscribe_get", {})
             /\ UNCHANGED <<link, session, phase, handles, statusVars,
                            d6MissingStreak>>
          \/ /\ pinConfirmed
             /\ "D6" \in known
             /\ StartPolling(known)
          \/ /\ pinConfirmed
             /\ "D6" \notin known
             /\ RediscoverD6 \/ ParkWithoutD6(known)
    /\ UNCHANGED <<enabled, bond, pinVars, strikeVars, writeVars,
                   pairingBackoff, intentional, pollVerb>>

\* start_fast_reconnect_'s first closure.
FastReconnectEncrypt ==
    /\ Fires("fast_reconnect", {"fast_reconnect_subscribe"})
    /\ session' = EncryptionRequested
    /\ UNCHANGED <<link, enabled, bond, phase, handles, running, pinVars,
                   strikeVars, writeVars, statusVars, pairingBackoff,
                   d6MissingStreak, intentional, pollVerb>>

\* fast_reconnect_subscribe_
FastReconnectSubscribe ==
    /\ "fast_reconnect_subscribe" \in timers
    /\ StartSubscribe(handles, running \ {"fast_reconnect"},
                      timers \ {"fast_reconnect_subscribe"}, session)
    /\ UNCHANGED <<link, enabled, bond, phase, handles, pinVars, strikeVars,
                   writeVars, pairingBackoff, d6MissingStreak, intentional,
                   pollVerb>>

\* encryption_retry_
EncryptionRetry ==
    /\ "encryption_retry" \in timers
    /\ encRetryPending' = FALSE
    /\ \/ /\ ~Connected \/ "D5" \notin handles
          /\ Fires("encryption_retry", {})
          /\ UNCHANGED <<session, running, statusVars>>
       \/ /\ Connected /\ "D5" \in handles
          /\ StartSubscribe(handles, running, timers \ {"encryption_retry"},
                            EncryptionRequested)
    /\ UNCHANGED <<link, enabled, bond, phase, handles, pinVars, strikeVars,
                   writeFailStreak, encRetryCount, pairingBackoff,
                   d6MissingStreak, intentional, pollVerb>>

\* handle_lacking_properties_'s retry.
VerbFallbackRetry ==
    /\ Fires("verb_fallback_retry", {})
    /\ \/ /\ "D6" \in handles
          /\ session' = Noting({"written"})
          /\ PublishStatus("other")
       \/ /\ "D6" \notin handles
          /\ UNCHANGED <<session, statusVars>>
    /\ UNCHANGED <<link, enabled, bond, phase, handles, running, pinVars,
                   strikeVars, writeVars, pairingBackoff, d6MissingStreak,
                   intentional, pollVerb>>

\* press_submit_pin's poll on D5.
SubmitPinPoll ==
    /\ Fires("submit_pin_poll", {})
    /\ session' = IF "D5" \in handles THEN Noting({"written"}) ELSE session
    /\ UNCHANGED <<link, enabled, bond, phase, handles, running, pinVars,
                   strikeVars, writeVars, statusVars, pairingBackoff,
                   d6MissingStreak, intentional, pollVerb>>

\* disconnect_for_session_refresh_: its own progress text falls to the mute it
\* has just set.
SessionRefresh ==
    /\ \/ /\ ~Connected
          /\ Fires("session_refresh", {})
          /\ UNCHANGED <<link, quiet, intentional>>
       \/ /\ Connected
          /\ Fires("session_refresh", {"session_refresh_quiet"})
          /\ quiet' = TRUE
          /\ intentional' = TRUE
          /\ link' = HungUp
    /\ UNCHANGED <<enabled, session, bond, phase, handles, running, pinVars,
                   strikeVars, writeVars, status, pairingBackoff,
                   d6MissingStreak, pollVerb>>

\* session_refresh_quiet_expired_
SessionRefreshQuietExpired ==
    /\ Fires("session_refresh_quiet", {})
    /\ \/ /\ quiet
          /\ PublishStatus("other")
       \/ /\ ~quiet
          /\ UNCHANGED statusVars
    /\ UNCHANGED <<linkVars, phase, handles, running, pinVars, strikeVars,
                   writeVars, pairingBackoff, d6MissingStreak, intentional,
                   pollVerb>>

\* start_pairing_backoff_'s closure.
PairingBackoffOver ==
    /\ Fires("pairing_backoff", {})
    /\ PublishProgress("other")
    /\ enabled' = TRUE
    /\ UNCHANGED <<link, session, bond, phase, handles, running, pinVars,
                   strikeVars, writeVars, pairingBackoff, d6MissingStreak,
                   intentional, pollVerb>>

-----------------------------------------------------------------------------
(* Home Assistant: the buttons and the PIN field *)

\* What press_connect and press_reset_pairing both forget.
ForgetSession ==
    /\ phase' = 0
    /\ handles' = {}
    /\ running' = {}
    /\ writeFailStreak' = 0
    /\ encRetryCount' = 0
    /\ encRetryPending' = FALSE
    /\ d6MissingStreak' = 0

\* cancel_pairing_backoff_: only a back-off in force re-enables the client.
CancelPairingBackoff ==
    /\ timers' = WithoutTimeouts \ {"pairing_backoff"}
    /\ pairingBackoff' = 0
    /\ enabled' = (enabled \/ pairingBackoff # 0)

\* ApplianceBase::press_connect
PressConnect ==
    /\ "connect" \in Inputs
    /\ ForgetSession
    /\ CancelPairingBackoff
    /\ link' = Dialled
    /\ session' = IF link = "down" THEN {} ELSE session
    /\ strikes' = IF link = "down" THEN 0 ELSE strikes
    /\ UNCHANGED <<bond, pinVars, fastRetries, statusVars, intentional, pollVerb>>

\* ApplianceBase::press_disconnect
PressDisconnect ==
    /\ "disconnect" \in Inputs
    /\ intentional' = TRUE
    /\ link' = HungUp
    /\ UNCHANGED <<enabled, session, bond, ladderVars, pinVars, strikeVars,
                   writeVars, statusVars, pairingBackoff, d6MissingStreak,
                   pollVerb>>

\* press_start_pairing: display_pin on D5.
PressStartPairing ==
    /\ "start_pairing" \in Inputs
    /\ session' = IF "D5" \in handles THEN Noting({"written"}) ELSE session
    /\ PublishStatus("other")
    /\ UNCHANGED <<link, enabled, bond, ladderVars, pinVars, strikeVars,
                   writeVars, pairingBackoff, d6MissingStreak, intentional,
                   pollVerb>>

\* press_submit_pin: unlock D5 now, poll D5 later.
PressSubmitPin ==
    /\ "submit_pin" \in Inputs
    /\ \/ /\ "D5" \notin handles \/ storedPin = NoPin
          /\ UNCHANGED <<session, timers, unlockCmd>>
       \/ /\ "D5" \in handles /\ storedPin # NoPin
          /\ unlockCmd' = UnlockCmdUsed
          /\ session' = Noting({"written", "control"})
          /\ timers' = timers \cup {"submit_pin_poll"}
    /\ PublishStatus("other")
    /\ UNCHANGED <<link, enabled, bond, phase, handles, running, storedPin,
                   pinConfirmed, strikeVars, writeVars, pairingBackoff,
                   d6MissingStreak, intentional, pollVerb>>

\* press_poll: unlocks and polls D6, whether the PIN is confirmed or not.
PressPoll ==
    /\ "poll" \in Inputs
    /\ \/ /\ "D6" \notin handles
          /\ UNCHANGED <<session, unlockCmd>>
       \/ /\ "D6" \in handles
          /\ unlockCmd' = UnlockCmdUsed
          /\ session' = D6UnlockWritten
    /\ PublishStatus("other")
    /\ UNCHANGED <<link, enabled, bond, ladderVars, storedPin, pinConfirmed,
                   strikeVars, writeVars, pairingBackoff, d6MissingStreak,
                   intentional, pollVerb>>

\* press_log_debug_info
PressLogDebugInfo ==
    /\ "log_debug" \in Inputs
    /\ \/ /\ "D6" \notin handles
          /\ UNCHANGED <<link, intentional>>
       \/ /\ "D6" \in handles
          /\ intentional' = TRUE
          /\ link' = HungUp
    /\ PublishStatus("other")
    /\ UNCHANGED <<enabled, session, bond, ladderVars, pinVars, strikeVars,
                   writeVars, pairingBackoff, d6MissingStreak, pollVerb>>

\* ApplianceBase::press_reset_pairing
PressResetPairing ==
    /\ "reset" \in Inputs
    /\ ForgetSession
    /\ CancelPairingBackoff
    /\ pinConfirmed' = FALSE
    /\ fastRetries' = 0
    /\ pollVerb' = "get_async"
    /\ bond' = FALSE
    /\ PublishStatus("reset")
    /\ intentional' = TRUE
    /\ link' = HungUp
    /\ UNCHANGED <<session, storedPin, unlockCmd, strikes>>

\* Mutated set_stored_pin: the cached command outlives its PIN.
SetStoredPinKeepingCommand(pin) ==
    /\ "set_pin" \in Inputs
    /\ storedPin' = pin
    /\ UNCHANGED <<linkVars, ladderVars, pinConfirmed, unlockCmd, strikeVars,
                   writeVars, statusVars, pairingBackoff, d6MissingStreak,
                   intentional, pollVerb>>

\* set_stored_pin: the user edits the PIN field, which ignores an empty PIN.
SetStoredPin(pin) ==
    /\ "set_pin" \in Inputs
    /\ storedPin' = pin
    /\ unlockCmd' = NoPin
    /\ UNCHANGED <<linkVars, ladderVars, pinConfirmed, strikeVars, writeVars,
                   statusVars, pairingBackoff, d6MissingStreak, intentional,
                   pollVerb>>

\* write_set_property_, run by the write queue.
WriteSetProperty ==
    /\ "set_property" \in Inputs
    /\ "D5" \in handles
    /\ pinConfirmed
    /\ Connected
    /\ session' = Noting({"written"})
    /\ UNCHANGED <<link, enabled, bond, ladderVars, pinVars, strikeVars,
                   writeVars, statusVars, pairingBackoff, d6MissingStreak,
                   intentional, pollVerb>>

-----------------------------------------------------------------------------
ConnectionEvent == Dial \/ ServicesFound \/ SearchFailed \/ ConnectionLost

SecurityEvent ==
    Reencrypted \/ AuthSucceeded \/ AuthFailed \/ AuthRateLimited
    \/ PasskeyRequested

DataEvent ==
    \/ WriteRejectedUnencrypted
    \/ WriteFailed
    \/ PushReceived
    \/ \E pin \in Pins : PollResponseReceived(pin)
    \/ PairingRevoked
    \/ LackingProperties

PostBondStep ==
    \/ \E snapshot \in Snapshots : PostBondInitial(snapshot)
    \/ PostBondPostEncryption
    \/ PostBondTriggerSearch
    \/ \E attempt \in PollAttempts, snapshot \in Snapshots :
          PostBondPollAttempt(attempt, snapshot)
    \/ PostBondGiveup

SubscribeStep ==
    \/ SubscribeUnlock
    \/ \E snapshot \in Snapshots : SubscribeInitialGet(snapshot)
    \/ FastReconnectEncrypt
    \/ FastReconnectSubscribe
    \/ EncryptionRetry

OtherTimer ==
    \/ VerbFallbackRetry
    \/ SubmitPinPoll
    \/ SessionRefresh
    \/ SessionRefreshQuietExpired
    \/ PairingBackoffOver

UserStep ==
    \/ PressConnect
    \/ PressDisconnect
    \/ PressStartPairing
    \/ PressSubmitPin
    \/ PressPoll
    \/ PressLogDebugInfo
    \/ PressResetPairing
    \/ \E pin \in Pins : SetStoredPin(pin)
    \/ WriteSetProperty

Next ==
    \/ ConnectionEvent
    \/ SecurityEvent
    \/ DataEvent
    \/ PostBondStep
    \/ SubscribeStep
    \/ OtherTimer
    \/ PeriodicPoll
    \/ PeriodicPollRefused
    \/ UserStep

Spec == Init /\ [][Next]_vars

-----------------------------------------------------------------------------
(* Safety *)

\* A flow's flag blocks the periodic poll, and only the flow's own timers can
\* clear it: on a live or opening link a set flag always has one pending.
\* (While we hang up the DISCONNECT event clears the flags.)
FlagHasTimer ==
    link # "closing" =>
       /\ "post_bond" \in running => timers \cap PostBondTimers # {}
       /\ "subscribe" \in running => timers \cap SubscribeTimers # {}
       /\ "fast_reconnect" \in running => timers \cap FastReconnectTimers # {}

\* handle_write_failed ignores further security failures while
\* enc_retry_pending_ is set: the flag stands exactly as long as the timer.
RetryFlagMatchesTimer ==
    encRetryPending <=> "encryption_retry" \in timers

\* publish_progress_ stays muted only while the watchdog that unmutes it runs.
MuteHasWatchdog == quiet => "session_refresh_quiet" \in timers

\* The client is disabled only while a timer is pending that enables it: it
\* never stays off for good.
HoldHasTimer == ~enabled => "pairing_backoff" \in timers

\* The cached unlock command is never one built for a PIN that was replaced.
UnlockCommandIsCurrent == unlockCmd \in {NoPin, storedPin}

\* One failed connection attempt is one strike, whichever of the failed
\* pairing, the hang-up it causes and the late verdict comes first.
OneStrikePerAttempt == strikes <= 1

\* intentional_disconnect_ does not survive into a connection that nobody has
\* asked to drop.
IntentIsConsumed == link \in {"opening", "up"} => ~intentional

\* Status says "Connected and polling." only of a live link, or while a
\* session refresh mutes the chatter.
PollingStatusIsCurrent ==
    status = "polling" => link \in {"up", "closing"} \/ quiet

\* A live link with a PIN is never left alone: a flow is under way or the
\* session refresh will end it.
LiveLinkIsSupervised ==
    link = "up" /\ storedPin # NoPin /\ pinConfirmed
       => running # {} \/ "session_refresh" \in timers

\* A handle that is known is never looked up again, so a discovery from scratch
\* must not find handles of an earlier GATT layout.
ColdDiscoveryStartsClean ==
    link # "closing" /\ phase = 0 => handles = {}

\* The user hears of the loss of the bond: no other text replaces
\* "Bond cleared" in the handler that cleared it.
BondLossIsAnnounced ==
    [][bond /\ ~bond' => status' \in {"bond_cleared", "reset"}]_vars

\* The instruction Reset Pairing leaves in Status outlives the hang-up it causes.
ResetInstructionSurvives ==
    [][status = "reset" /\ link = "closing" /\ link' = "down"
          => status' = "reset"]_vars

\* A session that was unlocked gets its scheduled refresh.
UnlockedSessionIsRefreshed ==
    link = "up" /\ "heard" \in session /\ running = {}
       => "session_refresh" \in timers

\* With no flow under way the session is set up: whatever retries and refusals
\* led here, a poll tick or a write then finds the control channel unlocked and
\* the notifications of D6 on.  There is one way to an idle link that polls D6
\* without hearing it: D6 was found by the re-read after the subscribe.
IdleLinkIsUnlocked ==
    link = "up" /\ running = {} /\ storedPin # NoPin /\ pinConfirmed
            /\ "D5" \in handles
       => /\ "control" \in session
          /\ "D6" \in handles => session \cap {"registered", "late"} # {}

\* "If a re-read at subscribe_initial_get_ time finds D6, the session proceeds
\* normally": a hub that says "Connected and polling." hears what it polls.
PolledChannelIsHeard ==
    [][(\E snapshot \in Snapshots : SubscribeInitialGet(snapshot))
            /\ status' = "polling"
          => "registered" \in session']_vars

\* "`set` requires the control channel to be unlocked": no write of a property
\* goes out before the unlock of the same connection.
SetAfterUnlock == [][WriteSetProperty => "control" \in session]_vars

\* A drop nobody asked for, of a bonded session, is always a strike.
GenuineDropCounts ==
    [][link = "up" /\ link' = "down" /\ HandlesCached => strikes' # strikes]_vars

=============================================================================
