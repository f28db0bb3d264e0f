CONSTANT Levels = {0, 1, 2, 3, 4}
SPECIFICATION FairSpec
INVARIANTS TypeOK FlagMeansLit
PROPERTIES DarknessLights AutomationReacts
