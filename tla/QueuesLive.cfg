\* Both WhatsApp deployments and the mail outbox, each alone.
SPECIFICATION Spec
CONSTANTS
  w1 = w1
  i1 = i1
  r1 = r1
PROPERTIES
  QueuedIsSettled
  QueuedIsTaken
