SPECIFICATION FairSpec
CONSTANTS
    june = june
    juneEdited = juneEdited
    july = july
    Configs <- ThreeConfigs
    AnchorOf <- AnchorDates
    LastWindow = 2
    MaxMishaps = 6
    Absent = Absent
    Partial = Partial
    Torn = Torn
INVARIANTS SettledDropsWhole DiskFollowsCursor DrainedMeansComplete
PROPERTIES SettledDropsStand ImplementsDrip Recovers
