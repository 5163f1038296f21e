SPECIFICATION Spec
CONSTANTS
  Files <- SmallFiles
  Commands <- SmallCommands
  MaxRuns = 2
  TemplateStore <- SmallTemplates
  SitingStore <- SmallSitings
  MatrixStore = {"bt601"}
  Unwritable <- NotWritable
  Unreliable <- MayBeFull
  Word = 16
INVARIANTS OutputsMatchInputs CatAppends OnlyOutputsChange WrittenCanBeLoaded
