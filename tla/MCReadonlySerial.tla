-------------------------- MODULE MCReadonlySerial --------------------------
EXTENDS ReadonlySerial

Board(api, variant, version, target) ==
  [ApiVersion |-> api, FcVariant |-> variant, FcVersion |-> version,
   BoardInfo |-> target]

MCDevices ==
  {Board("api146", "BTFL", "pinned", "pinned"),
   Board("api146", "BTFL", "pinned", "otherTarget"),
   Board("api147", "BTFL", "otherVersion", "pinned"),
   Board("api146", "otherVariant", "pinned", "pinned"),
   Board("otherApi", "BTFL", "pinned", "pinned")}
=============================================================================
