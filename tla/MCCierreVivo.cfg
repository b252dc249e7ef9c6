CONSTANTS
  Trabajos = {1, 2}
  Pedidos = {}
  Barridos = {s1, s2}
  Ventana = 1
  Limite = 2
  MaxFallas = 1
  Horizonte = 1
SPECIFICATION SpecBarridos
PROPERTY
  VentanaSeCumple
CHECK_DEADLOCK FALSE

