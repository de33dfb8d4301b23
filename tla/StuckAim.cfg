\* A script ends the aiming from an event of the last shot of a clip.
CONSTANTS
    Players = {alice}
    Cold = {fist}
    Single = {rifle}
    ClipFed = {m4, flamethrower}
    Pump = {shotgun}
    Fist = fist
    Bullet = {rifle, m4, shotgun}
    ClipSize <- ClipSizes
    MaxAmmo = 3
    MaxDepth = 1
    ScriptStates = {}
    StopInShot = TRUE
    ArmsInShot = FALSE
    SprintAim = FALSE
    None = None
SPECIFICATION Spec
INVARIANT KeysReleased
