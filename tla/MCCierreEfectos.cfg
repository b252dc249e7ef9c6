CONSTANTS
  Trabajos = {1}
  Pedidos = {}
  Barridos = {s1}
  Ventana = 1
  Limite = 1
  MaxFallas = 1
  Horizonte = 1
SPECIFICATION SpecBarridos
PROPERTY
  EfectosSeCompletan
CHECK_DEADLOCK FALSE

