CONSTANTS
  Trabajos = {1}
  Pedidos = {p1, p2}
  Barridos = {s1}
  Ventana = 1
  Limite = 1
  MaxFallas = 1
  Horizonte = 3
SPECIFICATION Spec
INVARIANTS
  TypeOK
  EfectosSoloCerrados
  UnSoloAviso
PROPERTIES
  AutomaticaSoloVencida
  CierreSoloAvanza
CHECK_DEADLOCK FALSE
SYMMETRY Simetria
