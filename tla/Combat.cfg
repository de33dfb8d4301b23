\* One NPC, a target, a weapon of each kind, one operation interrupted at a time.
CONSTANTS
    Players = {alice}
    Cold = {fist}
    Single = {rifle}
    ClipFed = {m4, flamethrower}
    Pump = {shotgun}
    Fist = fist
    Bullet = {rifle, m4, shotgun}
    ClipSize <- ClipSizes
    MaxAmmo = 2
    MaxDepth = 1
    ScriptStates = {"NoBullets", "LastBullet", "MoreBullets"}
    StopInShot = FALSE
    ArmsInShot = FALSE
    SprintAim = FALSE
    None = None
SPECIFICATION Spec
INVARIANTS
    TypeOK
    ClipWithinAmmo
    ReloadExcludesShooting
    NeverOverdrawn
    AimlessIsQuiet
    KeysReleased
    TargetInPool
