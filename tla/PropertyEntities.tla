--------------------------- MODULE PropertyEntities --------------------------
(***************************************************************************)
(* The entities that stand for one property of the appliance: numbers,     *)
(* switches and selects that write it and show at once what they were set  *)
(* to (appliance_base.h), and everything the messages on D6 set them to    *)
(* afterwards (protocol.cpp, dispatch.h, dispatch_esphome.h).  Doors are   *)
(* among them, as entities nobody writes.  What several flags decide       *)
(* together is in FridgeModes.                                             *)
(*                                                                         *)
(* A behaviour follows one subject; subjects have nothing in common.       *)
(***************************************************************************)
EXTENDS PropertyLink

CONSTANTS
    Subjects,       \* the subjects a run looks at
    Settings,       \* the temperatures chosen, in tenths of a degree: a front
                    \* end in Celsius sends fractions
    Levels,         \* the levels an accent light has, apart from "off"
    DefaultOnLevel, \* kDefaultOnLevel (30)
    MaxPicks        \* bound on the choices in Home Assistant

-----------------------------------------------------------------------------
(* What there is to follow *)

\* Mutated ApplianceSetNumber: the fraction is cut off.
Truncated(tenths) == tenths \div 10

\* lroundf, for a temperature above zero
Rounded(tenths) == (tenths + 5) \div 10

\* The properties an appliance has.  It reports its main door under a name of its
\* own or as "door_ajar", and a drawer with or without a switch.
PropertiesOf ==
    [crisper  |-> {{"crisp_set_temp", "crisp_temp_mode"}},
     light    |-> {{"accent_light_level"}},
     humidity |-> {{"humidity_control"}},
     doors    |-> {{"ref_door_ajar"}, {"door_ajar"},
                   {"ref_door_ajar", "ref2_door_ajar"}},
     oven     |-> {{"cav_door_ajar", "cav_light_on"},
                   {"door_ajar", "cav_light_on"}}]

ValuesOf ==
    [crisp_set_temp     |-> {Rounded(setting) : setting \in Settings},
     crisp_temp_mode    |-> {0, 1},
     accent_light_level |-> {0, DefaultOnLevel} \cup Levels,
     humidity_control   |-> {1, 2},
     ref_door_ajar      |-> BOOLEAN,
     ref2_door_ajar     |-> BOOLEAN,
     door_ajar          |-> BOOLEAN,
     cav_door_ajar      |-> BOOLEAN,
     cav_light_on       |-> BOOLEAN]

\* The states of an appliance with these properties.
StatesWith(properties) ==
    {state \in [properties -> UNION {ValuesOf[key] : key \in properties}] :
        \A key \in properties : state[key] \in ValuesOf[key]}

EntitiesOf ==
    [crisper  |-> {"crisp_set_temp", "crisp_temp_mode"},
     light    |-> {"accent_light_level"},
     humidity |-> {"humidity_control"},
     doors    |-> {"door_ajar", "ref2_door_ajar"},
     oven     |-> {"door_ajar", "cav_light_on"}]

\* What Home Assistant may set an entity to.
ChoicesOf ==
    [crisp_set_temp     |-> Settings,
     crisp_temp_mode    |-> BOOLEAN,
     accent_light_level |-> BOOLEAN,
     humidity_control   |-> {"Normal", "Enhanced"},
     cav_light_on       |-> BOOLEAN]
Writable == DOMAIN ChoicesOf

ASSUME SubjectAssumption ==
    /\ Subjects \subseteq DOMAIN PropertiesOf
    /\ Settings \subseteq Nat
    /\ Levels \subseteq Nat \ {0}
    /\ DefaultOnLevel \in Nat \ {0}
    /\ MaxPicks \in Nat

VARIABLES
    subject,        \* the subject this behaviour follows
    shown,          \* the states of the entities that have one
    onLevel,        \* accent_light_on_level
    chosen,         \* history: the last choices, unless something undid them
    home,           \* history: the level the light has been set to, once known
    picks           \* what is used up of MaxPicks

vars == <<carrierVars, subject, shown, onLevel, chosen, home, picks>>
NoLevel == 0
Unwritten == UNCHANGED <<subject, shown, onLevel, picks>>

Entities == EntitiesOf[subject]

TypeOK ==
    /\ subject \in Subjects
    /\ DOMAIN appliance \in PropertiesOf[subject]
    /\ appliance \in StatesWith(DOMAIN appliance)
    /\ ready \in BOOLEAN
    /\ Len(messages) <= MaxInFlight
    /\ \A i \in DOMAIN messages :
        /\ messages[i].shape \in Shapes
        /\ DOMAIN messages[i].data \subseteq DOMAIN appliance
    /\ \A i \in DOMAIN queue :
        /\ queue[i].key \in Entities \cap Writable
        /\ queue[i].value \in ValuesOf[queue[i].key]
    /\ Len(queue) <= Cardinality(Entities)
    /\ DOMAIN shown \subseteq Entities
    /\ onLevel \in Nat
    /\ DOMAIN chosen \subseteq Entities \cap Writable
    /\ home \in Nat
    /\ picks \in 0..MaxPicks
    /\ upsets \in 0..MaxUpsets

Init ==
    /\ subject \in Subjects
    /\ \E properties \in PropertiesOf[subject] :
        appliance \in StatesWith(properties)
    /\ CarrierInit
    /\ shown = <<>>
    /\ onLevel = 0
    /\ chosen = <<>>
    /\ home = NoLevel
    /\ picks = 0

Without(function, keys) ==
    [key \in DOMAIN function \ keys |-> function[key]]
With(function, key, value) ==
    [other \in DOMAIN function \cup {key} |->
        IF other = key THEN value ELSE function[other]]

-----------------------------------------------------------------------------
(* From a message to the entities *)

MainDoor == IF subject = "oven" THEN "cav_door_ajar" ELSE "ref_door_ajar"

\* parse_fridge_in_place and parse_range_in_place: the name a message has the
\* main door under.
DoorName(data) == IF MainDoor \in DOMAIN data THEN MainDoor ELSE "door_ajar"

\* Mutated dispatch_fridge: the main door never stands in for the drawer.
DrawerNameOwn(data) == "ref2_door_ajar"

\* dispatch_fridge: a message without the drawer's door stands in with the main
\* door's, for appliances with one switch for both.
DrawerName(data) ==
    IF "ref2_door_ajar" \in DOMAIN data THEN "ref2_door_ajar"
                                        ELSE DoorName(data)

\* The property an entity is published from.
Source(entity, data) ==
    IF entity = "door_ajar"      THEN DoorName(data) ELSE
    IF entity = "ref2_door_ajar" THEN DrawerName(data)
                                 ELSE entity

\* publish_crisp_set_temp, publish_crisp_temp_mode, publish_humidity_control...
Displayed(entity, value) ==
    IF entity = "crisp_set_temp"     THEN 10 * value ELSE
    IF entity = "crisp_temp_mode"    THEN value = 1  ELSE
    IF entity = "accent_light_level" THEN value > 0  ELSE
    IF entity = "humidity_control"
    THEN IF value = 2 THEN "Enhanced" ELSE "Normal"
    ELSE value

\* The entities a message has something for.
ToldIn(data) == {entity \in Entities : Source(entity, data) \in DOMAIN data}

\* Mutated publish_if: a state an entity has is not published over.
ReportedFirst(states, data) ==
    [entity \in DOMAIN states \cup ToldIn(data) |->
        IF entity \in DOMAIN states
        THEN states[entity]
        ELSE Displayed(entity, data[Source(entity, data)])]

\* dispatch_fridge, dispatch_range: every field of the message is published.
Reported(states, data) ==
    [entity \in DOMAIN states \cup ToldIn(data) |->
        IF entity \in ToldIn(data)
        THEN Displayed(entity, data[Source(entity, data)])
        ELSE states[entity]]

\* Mutated publish_accent_light_level: "off" is remembered, too.
RememberedAny(level, data) ==
    IF "accent_light_level" \in DOMAIN data
    THEN data.accent_light_level
    ELSE level

\* publish_accent_light_level remembers the last level that was not "off".
Remembered(level, data) ==
    IF "accent_light_level" \in DOMAIN data /\ data.accent_light_level > 0
    THEN data.accent_light_level
    ELSE level

\* The light is at home at a level once that is all there is to know about it.
HomeAfter(level) ==
    IF subject = "light" /\ queue = <<>> /\ Len(messages) = 1 /\ ~gap
        /\ appliance.accent_light_level = level
    THEN level
    ELSE home

\* parse_and_dispatch_
ParseAndDispatch ==
    /\ TakeMessage
    /\ LET data == ExtractData(Head(messages))
       IN  /\ shown' = Reported(shown, data)
           /\ onLevel' = Remembered(onLevel, data)
    /\ home' = HomeAfter(onLevel')
    /\ UNCHANGED <<subject, chosen, picks>>

-----------------------------------------------------------------------------
(* From the entities to the appliance *)

\* ApplianceSetLevelSwitch: the last level reported, or the default.
OnLevel == IF onLevel > 0 THEN onLevel ELSE DefaultOnLevel

\* ApplianceSetNumber::control, ApplianceSetIntSelect::control and the
\* write_state of the three switches: what is written for a choice.
Written(entity, choice) ==
    IF entity = "crisp_set_temp"     THEN Rounded(choice) ELSE
    IF entity = "crisp_temp_mode"    THEN IF choice THEN 1 ELSE 0 ELSE
    IF entity = "accent_light_level" THEN IF choice THEN OnLevel ELSE 0 ELSE
    IF entity = "humidity_control"
    THEN IF choice = "Enhanced" THEN 2 ELSE 1
    ELSE choice

IsPending(key) == \E i \in DOMAIN queue : queue[i].key = key

\* The last word on the crisper's mode, chosen or in force, is manual.
SetToManual ==
    IF IsPending("crisp_temp_mode")
    THEN \E i \in DOMAIN queue : queue[i] = [key |-> "crisp_temp_mode", value |-> 0]
    ELSE appliance.crisp_temp_mode = 0

\* A temperature is a choice to hold the appliance to when the crisper is set to
\* manual, and until it is set to automatic again.
ChosenAfter(entity, choice) ==
    IF entity = "crisp_set_temp" /\ ~SetToManual
    THEN Without(chosen, {entity})
    ELSE IF entity = "crisp_temp_mode" /\ choice
    THEN With(Without(chosen, {"crisp_set_temp"}), entity, choice)
    ELSE With(chosen, entity, choice)

\* A choice in Home Assistant: the write is queued, the choice shown at once.
Pick(entity, choice) ==
    /\ picks < MaxPicks
    /\ picks' = picks + 1
    /\ queue' = Enqueued(queue, [key   |-> entity,
                                 value |-> Written(entity, choice)])
    /\ shown' = With(shown, entity, choice)
    /\ chosen' = ChosenAfter(entity, choice)
    /\ UNCHANGED <<appliance, ready, messages, gap, upsets, subject, onLevel,
                   home>>

\* The crisper's set temperature cannot be written while it is automatic.
Ignores(write) ==
    write.key = "crisp_set_temp" /\ appliance.crisp_temp_mode = 1

\* A drained write reaches the appliance, which takes it on.
WriteApplied ==
    /\ queue # <<>>
    /\ ~Ignores(Head(queue))
    /\ SendWrite([appliance EXCEPT ![Head(queue).key] = Head(queue).value])
    /\ Unwritten
    /\ UNCHANGED <<chosen, home>>

\* The appliance acknowledges the write and ignores it.  That undoes the choice
\* only if the write goes out ahead of the one that sets the crisper to manual.
WriteRuledOut ==
    /\ TakeWrite(TRUE)
    /\ Ignores(Head(queue))
    /\ gap' = TRUE
    /\ chosen' = IF IsPending("crisp_temp_mode")
                 THEN Without(chosen, {"crisp_set_temp"})
                 ELSE chosen
    /\ Unwritten
    /\ UNCHANGED <<appliance, ready, messages, upsets, home>>

\* A set temperature does not take effect without the mode chosen before it.
UndoneWith(key) ==
    IF key = "crisp_temp_mode" THEN {key, "crisp_set_temp"} ELSE {key}

WriteIgnored ==
    /\ LoseWrite
    /\ gap' = TRUE
    /\ chosen' = Without(chosen, UndoneWith(Head(queue).key))
    /\ Unwritten
    /\ UNCHANGED home

WriteDropped ==
    /\ DropWrite
    /\ chosen' = Without(chosen, UndoneWith(Head(queue).key))
    /\ Unwritten
    /\ UNCHANGED home

-----------------------------------------------------------------------------
(* The appliance, the link and the hub around them *)

\* Somebody opens a door, or sets something at the appliance.
ApplianceOperated(after) ==
    /\ OperateAppliance(after)
    /\ chosen' = <<>>
    /\ home' = NoLevel
    /\ Unwritten

ChannelReady == BecomeReady /\ Unwritten /\ UNCHANGED <<chosen, home>>
PollAnswered == AnswerPoll /\ Unwritten /\ UNCHANGED <<chosen, home>>
PollRejected == RejectPoll /\ Unwritten /\ UNCHANGED <<chosen, home>>
MessageLost == LoseMessage /\ Unwritten /\ UNCHANGED <<chosen, home>>

Cleared == Without(chosen, {queue[i].key : i \in DOMAIN queue})

\* DISCONNECT
Disconnected ==
    /\ ready
    /\ LoseLink
    /\ chosen' = Cleared
    /\ Unwritten
    /\ UNCHANGED home

\* The ESP32 starts again: no entity has a state, and no level is remembered.
Restarted ==
    /\ LoseLink
    /\ shown' = <<>>
    /\ onLevel' = 0
    /\ chosen' = Cleared
    /\ home' = NoLevel
    /\ UNCHANGED <<subject, picks>>

Next ==
    \/ ParseAndDispatch
    \/ \E entity \in Entities \cap Writable :
         \E choice \in ChoicesOf[entity] : Pick(entity, choice)
    \/ WriteApplied
    \/ WriteRuledOut
    \/ WriteIgnored
    \/ WriteDropped
    \/ \E after \in StatesWith(DOMAIN appliance) : ApplianceOperated(after)
    \/ ChannelReady
    \/ PollAnswered
    \/ PollRejected
    \/ MessageLost
    \/ Disconnected
    \/ Restarted

\* The queue drains, messages are handled, the hub reconnects and polls.
Fairness ==
    /\ WF_vars(ParseAndDispatch)
    /\ WF_vars(WriteApplied \/ WriteRuledOut \/ WriteDropped)
    /\ WF_vars(ChannelReady)
    /\ WF_vars(PollAnswered)

Spec == Init /\ [][Next]_vars /\ Fairness

-----------------------------------------------------------------------------
(* Properties *)

\* What an entity shows is what the appliance has; a number, to half a degree.
Agrees(entity, state, value) ==
    IF entity = "crisp_set_temp"
    THEN state - 10 * value \in -5..5
    ELSE state = Displayed(entity, value)

\* A choice takes effect as it was made, whatever was chosen before and however
\* the writes were merged: once the queue has drained the appliance has each
\* value last chosen, rounded and not cut off.  What rules that out is a write that
\* failed, somebody at the appliance, or, for the crisper's temperature, that the
\* crisper was on automatic when it was chosen, was set to automatic since, or
\* was to be set to manual by a write that left the queue after the temperature.
LastValueWins ==
    queue = <<>> =>
        \A entity \in DOMAIN chosen :
            Agrees(entity, chosen[entity], appliance[entity])

\* What an entity shows at once is taken back by the reports alone: as long as
\* none is missing and every write is through, the last word on an entity, which
\* is that of the last message under way with something for it or else what is
\* shown, is what the appliance has.  Not so the drawer, if it has a switch of its
\* own: a push of the main door speaks for it, too.
EntitiesAddUp ==
    ~gap /\ queue = <<>> =>
        \A entity \in Entities :
            LET Data(i) == ExtractData(messages[i])
                LastWord(i) ==
                    /\ entity \in ToldIn(Data(i))
                    /\ \A j \in DOMAIN messages : j > i => entity \notin ToldIn(Data(j))
                Right(state) == Agrees(entity, state,
                                       appliance[Source(entity, appliance)])
            IN  \/ entity = "ref2_door_ajar" /\ entity \in DOMAIN appliance
                \/ /\ \A i \in DOMAIN messages : LastWord(i) =>
                        Right(Displayed(entity, Data(i)[Source(entity, Data(i))]))
                   /\ (/\ entity \in DOMAIN shown
                       /\ \A i \in DOMAIN messages : entity \notin ToldIn(Data(i)))
                      => Right(shown[entity])

\* Switching the accent light off and on again, however fast and however often,
\* leaves it at the level it was set to, once that level has been seen.
LightComesBack ==
    home # NoLevel => appliance.accent_light_level \in {0, home}

\* However choices, operation at the appliance and faults interleave, every
\* entity comes to show what the appliance has, to the degree.
EntitiesSettle ==
    <>[](\A entity \in Entities :
            /\ entity \in DOMAIN shown
            /\ shown[entity] =
                 Displayed(entity, appliance[Source(entity, appliance)]))

=============================================================================
