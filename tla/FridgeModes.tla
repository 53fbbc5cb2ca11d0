----------------------------- MODULE FridgeModes -----------------------------
(***************************************************************************)
(* The two grouped selects of a refrigerator, Ice Maker Mode and Appliance *)
(* Mode (FRIDGE_GROUPED_SELECTS in __init__.py).  The appliance knows only *)
(* independent flags.  A pick writes each flag of the group through the    *)
(* write queue; what the select shows is derived, flag by flag, from the   *)
(* messages that come back on D6 (protocol.cpp, dispatch.h, FridgeBus in   *)
(* dispatch_esphome.h).                                                    *)
(*                                                                         *)
(* A behaviour follows one of the two selects; they share no flag.         *)
(***************************************************************************)
EXTENDS PropertyLink

CONSTANTS
    Pickers,        \* the selects a run looks at
    MaxPending,     \* kMaxPending (16)
    MaxPicks        \* bound on the picks in Home Assistant

-----------------------------------------------------------------------------
(* The tables of FRIDGE_GROUPED_SELECTS and of recompute_*_mode_ *)

\* The properties each select writes, in the order it writes them.
WriteOrder ==
    [ice_maker_mode |-> <<"ice_maker_on", "max_ice_on", "night_ice_on">>,
     appliance_mode |-> <<"high_use_on", "short_vacation_on",
                          "long_vacation_on", "sabbath_on">>]

\* The flags that are true in each option; the option writes false to the rest.
FlagsOf ==
    [ice_maker_mode |->
        [Off      |-> {},
         Normal   |-> {"ice_maker_on"},
         MaxIce   |-> {"ice_maker_on", "max_ice_on"},
         NightIce |-> {"ice_maker_on", "night_ice_on"}],
     appliance_mode |->
        [Normal        |-> {},
         HighUsage     |-> {"high_use_on"},
         ShortVacation |-> {"short_vacation_on"},
         LongVacation  |-> {"long_vacation_on"},
         Sabbath       |-> {"sabbath_on"}]]

\* The label derived from the flags: that of the first one which is on.
Precedence ==
    [ice_maker_mode |-> <<[flag |-> "max_ice_on",   label |-> "MaxIce"],
                          [flag |-> "night_ice_on", label |-> "NightIce"],
                          [flag |-> "ice_maker_on", label |-> "Normal"]>>,
     appliance_mode |->
        <<[flag |-> "sabbath_on",        label |-> "Sabbath"],
          [flag |-> "long_vacation_on",  label |-> "LongVacation"],
          [flag |-> "short_vacation_on", label |-> "ShortVacation"],
          [flag |-> "high_use_on",       label |-> "HighUsage"]>>]
Baseline == [ice_maker_mode |-> "Off", appliance_mode |-> "Normal"]

Flags(picker) == ToSet(WriteOrder[picker])
Options(picker) == DOMAIN FlagsOf[picker]

\* What the appliance's flags are when `option` is in force.
Image(picker, option) ==
    [flag \in Flags(picker) |-> flag \in FlagsOf[picker][option]]

\* The label for flags of which some may be unknown (value_or(false)).
Label(picker, known) ==
    LET order == Precedence[picker]
        On(i) == order[i].flag \in DOMAIN known /\ known[order[i].flag]
        First(i) == On(i) /\ \A j \in 1..(i - 1) : ~On(j)
    IN  IF \E i \in DOMAIN order : On(i)
        THEN order[CHOOSE i \in DOMAIN order : First(i)].label
        ELSE Baseline[picker]

NoLabel == "none"
NoChoice == "none"

\* With coalescing, the 15 properties a refrigerator's entities write fit into
\* the queue, and so do those of one select.
ASSUME PickerAssumption ==
    /\ Pickers \subseteq DOMAIN WriteOrder
    /\ \A picker \in Pickers : Cardinality(Flags(picker)) <= MaxPending
    /\ MaxPicks \in Nat

VARIABLES
    picker,         \* the select this behaviour follows
    bus,            \* FridgeBus: cached flags and what the select shows
    chosen,         \* history: the last pick, unless something undid it
    picks           \* what is used up of MaxPicks

vars == <<carrierVars, picker, bus, chosen, picks>>

\* What is known of the flags, or told of them, is a partial function.
KnowsFlags(known) ==
    /\ DOMAIN known \subseteq Flags(picker)
    /\ \A flag \in DOMAIN known : known[flag] \in BOOLEAN

TypeOK ==
    /\ picker \in Pickers
    /\ appliance \in [Flags(picker) -> BOOLEAN]
    /\ ready \in BOOLEAN
    /\ Len(messages) <= MaxInFlight
    /\ \A i \in DOMAIN messages :
        messages[i].shape \in Shapes /\ KnowsFlags(messages[i].data)
    /\ queue \in Seq([key : Flags(picker), value : BOOLEAN])
    /\ Len(queue) <= Cardinality(Flags(picker))
    /\ KnowsFlags(bus.cached)
    /\ bus.shown \in Options(picker) \cup {NoLabel}
    /\ chosen \in Options(picker) \cup {NoChoice}
    /\ gap \in BOOLEAN
    /\ picks \in 0..MaxPicks
    /\ upsets \in 0..MaxUpsets

Init ==
    /\ picker \in Pickers
    /\ appliance \in {Image(picker, option) : option \in Options(picker)}
    /\ CarrierInit
    /\ bus = [cached |-> <<>>, shown |-> NoLabel]
    /\ chosen = NoChoice
    /\ picks = 0

-----------------------------------------------------------------------------
(* From a message to the select *)

\* Mutated recompute_*_mode_: one known flag is enough.
KnownAny(known) == DOMAIN known # {}

\* recompute_*_mode_ publishes nothing before every flag is known.
KnownEnough(known) == DOMAIN known = Flags(picker)

\* recompute_ice_maker_mode_, recompute_appliance_mode_
Recomputed(b) ==
    IF KnownEnough(b.cached)
    THEN [b EXCEPT !.shown = Label(picker, b.cached)]
    ELSE b

\* Mutated publish_*: a flag that is known is never kept as off.
KeptIfOn(known, data) ==
    [flag \in DOMAIN known \cup DOMAIN data |->
        IF flag \in DOMAIN data /\ (flag \in DOMAIN known => data[flag])
        THEN data[flag] ELSE known[flag]]

\* publish_ice_maker, publish_max_ice_on, ..., publish_sabbath_on: the flag of
\* the message is kept.
Kept(known, data) ==
    [flag \in DOMAIN known \cup DOMAIN data |->
        IF flag \in DOMAIN data THEN data[flag] ELSE known[flag]]

\* Mutated dispatch_fridge: nothing is published that is known.
DispatchedIfNew(b, data) ==
    IF \A flag \in DOMAIN data :
        flag \in DOMAIN b.cached /\ b.cached[flag] = data[flag]
    THEN b
    ELSE Recomputed([b EXCEPT !.cached = Kept(@, data)])

\* dispatch_fridge, as far as the select's flags go.  Each flag of the message is
\* published and recomputes the option; the last one settles it.
Dispatched(b, data) ==
    IF DOMAIN data = {}
    THEN b
    ELSE Recomputed([b EXCEPT !.cached = Kept(@, data)])

\* FridgeHub::parse_and_dispatch_
ParseAndDispatch ==
    /\ TakeMessage
    /\ bus' = Dispatched(bus, ExtractData(Head(messages)))
    /\ UNCHANGED <<picker, chosen, picks>>

-----------------------------------------------------------------------------
(* From the select to the appliance *)

\* The writes registered for an option with add_write.
WritesFor(option) ==
    [i \in DOMAIN WriteOrder[picker] |->
        [key   |-> WriteOrder[picker][i],
         value |-> WriteOrder[picker][i] \in FlagsOf[picker][option]]]

\* write_set_bool_sequence: they are queued one after the other.
Queueing(pending, writes) ==
    LET after[n \in 0..Len(writes)] ==
          IF n = 0 THEN pending ELSE Enqueued(after[n - 1], writes[n])
    IN  after

\* ApplianceSetGroupedSelect::control: queue the writes, show the option.
Pick(option) ==
    /\ picks < MaxPicks
    /\ picks' = picks + 1
    /\ queue' = Queueing(queue, WritesFor(option))[Len(WriteOrder[picker])]
    /\ bus' = [bus EXCEPT !.shown = option]
    /\ chosen' = option
    /\ UNCHANGED <<picker, appliance, ready, messages, gap, upsets>>

\* A drained write reaches the appliance.
WriteApplied ==
    /\ SendWrite([appliance EXCEPT ![Head(queue).key] = Head(queue).value])
    /\ UNCHANGED <<picker, bus, chosen, picks>>

WriteIgnored ==
    /\ LoseWrite
    /\ chosen' = NoChoice
    /\ UNCHANGED <<picker, bus, picks, gap>>

WriteDropped ==
    /\ DropWrite
    /\ chosen' = NoChoice
    /\ UNCHANGED <<picker, bus, picks>>

-----------------------------------------------------------------------------
(* The appliance, the link and the hub around them *)

\* Somebody chooses an option on the appliance.
PanelPick(option) ==
    /\ OperateAppliance(Image(picker, option))
    /\ chosen' = NoChoice
    /\ UNCHANGED <<picker, bus, picks>>

ChannelReady == BecomeReady /\ UNCHANGED <<picker, bus, chosen, picks>>
PollAnswered == AnswerPoll /\ UNCHANGED <<picker, bus, chosen, picks>>
PollRejected == RejectPoll /\ UNCHANGED <<picker, bus, chosen, picks>>
MessageLost == LoseMessage /\ UNCHANGED <<picker, bus, chosen, picks>>

\* DISCONNECT
Disconnected ==
    /\ ready
    /\ LoseLink
    /\ chosen' = IF queue = <<>> THEN chosen ELSE NoChoice
    /\ UNCHANGED <<picker, bus, picks>>

Next ==
    \/ ParseAndDispatch
    \/ \E option \in Options(picker) : Pick(option)
    \/ WriteApplied
    \/ WriteIgnored
    \/ WriteDropped
    \/ \E option \in Options(picker) : PanelPick(option)
    \/ ChannelReady
    \/ PollAnswered
    \/ PollRejected
    \/ MessageLost
    \/ Disconnected

\* The queue drains, messages are handled, the hub reconnects and polls.
Fairness ==
    /\ WF_vars(ParseAndDispatch)
    /\ WF_vars(WriteApplied \/ WriteDropped)
    /\ WF_vars(ChannelReady)
    /\ WF_vars(PollAnswered)

Spec == Init /\ [][Next]_vars /\ Fairness

-----------------------------------------------------------------------------
(* Properties *)

\* Two overlapping picks resolve to the later one, flag by flag: once the queue
\* has drained, the appliance has exactly the flags of the last pick, unless a
\* write failed or somebody chose at the appliance since.  write_queue.h lets a
\* new value take the place of a pending one, and the earlier pick may be half
\* written by then.
LastChoiceWins ==
    chosen # NoChoice /\ queue = <<>> => appliance = Image(picker, chosen)

\* Nothing is lost or reordered between the reports and the cache: as long as no
\* report is missing, the last word on each flag, which is that of the last
\* message under way with the flag or else what FridgeBus knows, is true.
ReportsAddUp ==
    ~gap => \A flag \in Flags(picker) :
        LET Tells(i) == flag \in DOMAIN ExtractData(messages[i])
            LastWord(i) ==
                Tells(i) /\ \A j \in DOMAIN messages : j > i => ~Tells(j)
        IN  /\ \A i \in DOMAIN messages : LastWord(i) =>
                  ExtractData(messages[i])[flag] = appliance[flag]
            /\ (/\ flag \in DOMAIN bus.cached
                /\ \A i \in DOMAIN messages : ~Tells(i))
               => bus.cached[flag] = appliance[flag]

\* The select is never guessed from part of the flags: a label nobody picked is
\* shown only when every flag has been reported, and then it is theirs.
NoGuessedLabel ==
    bus.shown # NoLabel /\ picks = 0 =>
        /\ DOMAIN bus.cached = Flags(picker)
        /\ bus.shown = Label(picker, bus.cached)

\* However picks, choices at the appliance and faults interleave, the select
\* comes to show what the appliance does: an option it ignored, or of which a
\* disconnect cut off half, does not stay on display.
ShownSettles == <>[](bus.shown = Label(picker, appliance))

=============================================================================
