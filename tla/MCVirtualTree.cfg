CONSTANTS
  Stems = {"a", "A", "b", "t", "long", "wide", "name-map", "patch-removals", "r", "n", "0", "1", "2", "3", "4", "5", "6", "7", "8", "9", "10", "11", "12"}
  Extensions = {"", ".ctex", ".png", ".tsv"}
  Folded <- SmallFolded
  Width <- SmallWidth
  Numeral <- SmallNumeral
  Physical <- Names
  Presented <- Shown
  Untouched <- Plain
  Inputs <- SmallInputs
  MaxChars = 5
  MaxEntries = 4
SPECIFICATION FairSpec
INVARIANTS NamesAreSound NothingIsDropped MapIsExact AliasesNeverLoseTheListing
PROPERTY TreeEnds
CHECK_DEADLOCK FALSE
