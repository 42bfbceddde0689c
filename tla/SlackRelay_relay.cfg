SPECIFICATION MCSpec
CONSTANTS
  FirstReply = r1
  SecondReply = r2
  Reply = {r1, r2, "names", "namesTwo", "lost", "chat", "edit"}
  Thread = {"nudge", "batch", "plain", "human"}
  Issue = {"#5", "#7", "#9"}
  ThreadOf <- MCThreadOf
  Text <- MCText
  Relayable = {r1, r2, "names", "namesTwo", "lost", "chat"}
  BotThread = {"nudge", "batch", "plain"}
  Nudge <- MCNudge
  Handler = {h1, h2, h3}
  MaxDeliveries = 2
  MaxFaults = 2
  None = None
INVARIANTS
  ClaimsAreHeld
  DuplicatesNeedFaults
  SuccessIsReal
  CommentsAreOnTopic
PROPERTIES
  ClaimsEnd
\* Once every reply is delivered and answered nothing is left to do.
CHECK_DEADLOCK FALSE
