SPECIFICATION Spec
CONSTANTS
  ONE = 16
  MaxCalls = 2
  Outside = Outside
  Poison = Poison
  Opaque = Opaque
  NoTarget = NoTarget
  Originals <- SmallOriginals
  Targets <- SmallTargets
INVARIANTS TypeOK SurfacesFitTarget ValuesAreAverages SampledAtPoint FullResolutionKeepsAll ChromaFollowsLuma
PROPERTY OutsideOnlyWhenDoubling
