SPECIFICATION Spec
CONSTANTS
    posA = posA
    posB = posB
    NoRow = NoRow
    Ids <- MCIds
    Quantities <- MCQuantities
    Worlds <- MCWorlds
PROPERTIES
    WebNeverDeepens
    NoSilentShortage
