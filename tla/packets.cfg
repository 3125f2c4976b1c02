\* Commands, responses and notifications, damaged and whole.
SPECIFICATION Spec
CONSTANTS
    None = None
    Address <- MCAddress
    Password <- MCPassword
    Guesses <- MCGuesses
    Times <- MCTimes
    Displays <- MCDisplays
    Fragile <- MCFragile
    Milliseconds <- MCMilliseconds
    Bursts <- MCBursts
INVARIANTS
    DamageNoticed IntactPacketsArrive ClockFollowsSync ShownAsOnTheLcd
PROPERTIES ExecutedAsMeant
