SPECIFICATION FairSpec
CONSTANTS
  o1 = o1
  o2 = o2
  p1 = p1
  p2 = p2
  h1 = h1
  h2 = h2
  c1 = c1
  c2 = c2
  Orders = {o1}
  Intents = {p1}
  OrderOf <- OneOrder
  Handlers = {h1}
  Crons = {c1, c2}
  Subscribed = {"checkout.session.completed", "charge.refunded"}
  BatchSize = 1
  MaxFaults = 2
  MaxExpired = 1
  NoIntent = NoIntent
  NoOrder = NoOrder
  NoEvent = NoEvent
PROPERTIES StuckOrderResolved RetriesEnd
