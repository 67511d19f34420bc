CONSTANTS
  Files <- MCFiles
  NumTags = 2
SPECIFICATION FileSpec
INVARIANTS
  SecondPassFits
  TagsAreTheText
  ParsedWhenSound
CHECK_DEADLOCK FALSE
