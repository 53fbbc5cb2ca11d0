SPECIFICATION Spec
CONSTANTS
    Pickers = {"ice_maker_mode", "appliance_mode"}
    MaxPending = 16
    MaxInFlight = 2
    MaxPicks = 2
    MaxUpsets = 1
INVARIANTS TypeOK LastChoiceWins ReportsAddUp NoGuessedLabel
PROPERTIES ShownSettles
