\* Upgrades from a build without a version, and from versions below, among and
\* above those of the releases, with releases published in between.
SPECIFICATION Spec
CONSTANTS
    MaxVersion = 4
    NoFile = NoFile
    ReleaseLists <- MCReleaseLists
INVARIANTS
    BinarySurvives
    OnlySwapEndangers
    NilMeansUpgraded
    NeverDowngrades
CHECK_DEADLOCK FALSE
