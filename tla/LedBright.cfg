CONSTANT Levels = {1}
SPECIFICATION FairSpec
PROPERTY BrightnessDarkens
