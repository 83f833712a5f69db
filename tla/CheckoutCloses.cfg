\* Payments go live once: one environment, one release, nothing fails.
SPECIFICATION LaunchSpec
CONSTANTS
    MaxOffers = 1
    Thin = {}
    Poor = {}
    Weeks = 1
    Releases = 1
    WarmShadow = FALSE
    MaxWarm = 0
    MaxSlips = 0
    Configs = 1
PROPERTIES
    StaysOpen
CHECK_DEADLOCK FALSE
