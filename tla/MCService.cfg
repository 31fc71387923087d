SPECIFICATION FairSpec
CONSTANT Parts = {"client", "handler", "singles", "subscription", "filters", "matcher", "chaintracer", "vm", "blocktracer"}
INVARIANTS RPCSafety FilterSafety TracerSafety
PROPERTY ServiceEnds
CHECK_DEADLOCK FALSE
