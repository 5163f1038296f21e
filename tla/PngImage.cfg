SPECIFICATION Spec
CONSTANTS
  Objects = {a, b}
  Names = {f}
  MaxCalls = 3
  InitialFiles <- SomeFiles
  Pictures <- SomePictures
  Colors <- SomeColors
INVARIANT BuffersOwned
PROPERTY PicturesTravel
