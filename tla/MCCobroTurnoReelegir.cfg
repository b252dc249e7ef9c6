CONSTANTS
  Pedidos = {h1}
  PagosMP = {p1}
  Precios = {4}
  PrecioReservado = 4
  Ninguno = Ninguno
  MaxIntentos = 2
  MaxCambios = 0
SPECIFICATION Spec
PROPERTY
  LoEntregadoSePuedePagar
CHECK_DEADLOCK FALSE
