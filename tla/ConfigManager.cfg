SPECIFICATION Spec
CONSTANTS
  Names <- TwoNames
  ItemsOf <- Parsed
  Documents <- Docs
  Subsamplings <- Subs
  SubsamplingOf <- Sub
  Missing = Missing
  Trees <- SomeTrees
  Word = 1024
  DWord = 1048576
INVARIANTS TemplatesMeanTheirFiles IndexUsable CompleteLoadMissesNothing
