SPECIFICATION FairSpec
CONSTANTS
  NoMsg = NoMsg
  N = 2
  Timers <- TwoFirewalls
  Copies = {TRUE, FALSE}
INVARIANTS
  NeverOlder
  LossOnlyBetweenLooks
  EndsIndividually
PROPERTIES
  EverybodyEnds
