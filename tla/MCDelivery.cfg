SPECIFICATION MCSpec
CONSTANTS
  v = v
  py = py
  Scripted <- MCAll
  MaxStops = 2
  Tag <- MCTag
  Family <- MCFamily
  Enabled <- MCTwo
  EnableTagReleases = TRUE
  EnablePushBuilds = TRUE
  SigningKey <- MCKeys
  MaxCommit = 2
  MaxRuns = 2
CHECK_DEADLOCK FALSE
INVARIANTS DoneIsWhole SourcesWhole RightPackage ReleaseIsNewest TagPublishes
PROPERTY Preserved
