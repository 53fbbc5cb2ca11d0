SPECIFICATION Spec
CONSTANTS
  Subjects = {"crisper", "light", "humidity", "doors", "oven"}
  Settings = {374, 376}
  Levels = {50, 130}
  DefaultOnLevel = 30
  MaxPicks = 4
  MaxInFlight = 2
  MaxUpsets = 2
INVARIANTS TypeOK LastValueWins EntitiesAddUp LightComesBack
PROPERTIES EntitiesSettle
