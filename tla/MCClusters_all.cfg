SPECIFICATION Spec
CONSTANTS
  Names = {"help", "localhost"}
  Bare = {"help"}
  Styles = {"plain", "url"}
  Databases = {"S"}
  Targets = {"a", "b"}
  Nowhere = Nowhere
  NoMap = NoMap
  NotYet = NotYet
  Calls = {c1}
  Given <- MCGiven
INVARIANTS
  TypeOK
  SpellingNeverMatters
  RefusalIsReal
  NeverGuessed
  OneClusterOneAnswer
