SPECIFICATION Spec
CONSTANTS
  rifle = rifle
  launcher = launcher
  none = none
  MaxPlayers = 2
  Weapons <- MCWeapons
  HitscanWeapons <- MCHitscan
  UnknownWeapon = none
  Damage <- MCDamage
  CooldownTicks <- MCCooldown
  MaxTravelTicks = 2
  StartingHealth = 2
  MaxShotSeq = 2
  MaxQueue = 2
  MaxLives = 1
INVARIANTS
  CombatInv
  HitsAreCurrent
  OneHitPerShot
  DeathsAreFinal
PROPERTIES
  NoShotAfterDeath
