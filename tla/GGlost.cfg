SPECIFICATION Spec
CONSTANTS
  Friends = {}
  Events = {e1}
  Root = root
  MaxAsked = 1
INVARIANTS SentNotDropped
