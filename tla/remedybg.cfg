CONSTANTS
    Events <- MCEvents
    MaxEvents = 2
    MaxEventChunk = 3
    Commands <- MCCommands
    Replies <- MCReplies
    MaxCommands = 2
    MaxReplyChunk = 3
SPECIFICATION Spec
INVARIANT TypeOK
INVARIANT EventsInOrder
INVARIANT RepliesInOrder
PROPERTY EventsDelivered
PROPERTY RepliesDelivered
CHECK_DEADLOCK FALSE
