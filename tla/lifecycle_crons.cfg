SPECIFICATION Spec
CONSTANTS
  o1 = o1
  o2 = o2
  p1 = p1
  p2 = p2
  h1 = h1
  h2 = h2
  c1 = c1
  c2 = c2
  Orders = {o1, o2}
  Intents = {p1}
  OrderOf <- OneOrder
  Handlers = {h1, h2}
  Crons = {c1, c2}
  Subscribed = {"checkout.session.completed", "payment_intent.payment_failed", "charge.refunded"}
  BatchSize = 2
  MaxFaults = 1
  MaxExpired = 1
  NoIntent = NoIntent
  NoOrder = NoOrder
  NoEvent = NoEvent
INVARIANTS TypeOK RowNeverAheadOfStripe PublishedNeverAheadOfStripe OrderNeverMissing EventPublishedOnce IntentIsOwn
PROPERTY ImplementsLedger
SYMMETRY HandlerSymmetry
