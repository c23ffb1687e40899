SPECIFICATION Spec
CONSTANTS
  t1 = t1
  t2 = t2
  t3 = t3
  tea = tea
  jam = jam
  few = few
  many = many
  Requests = {t1, t2, t3}
  Products = {tea, jam}
  Entries = {few}
  NoEntry = NoEntry
  MaxCarts = 2
SYMMETRY Symmetry
INVARIANTS
  TypeOK
PROPERTIES
  CartBecomesItsOrder
