\* The five shapes of entries.
SPECIFICATION Spec
CONSTANTS
    Entries = {"metamod", "cssharp", "weaponpaints", "deathmatch", "cs2fixes"}
    Wrapped = {"metamod", "cssharp", "cs2fixes"}
INVARIANT ConfigIsTheGames
