SPECIFICATION NoticesSpec
CONSTANTS
  shop = shop
  buyer = buyer
  Recipients = {shop, buyer}
  DeliveryAttempts = 2
  MaxFailures = 1
PROPERTIES
  RetryCompletesNotice
