SPECIFICATION NoticesSpec
CONSTANTS
  shop = shop
  buyer = buyer
  Recipients = {shop, buyer}
  DeliveryAttempts = 2
  MaxFailures = 3
INVARIANTS
  NoticesTypeOK
  MailedOnce
  PendingIsInHand
PROPERTIES
  EveryoneIsTold
