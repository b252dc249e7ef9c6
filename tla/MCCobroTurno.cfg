CONSTANTS
  Pedidos = {h1}
  PagosMP = {p1, p2}
  Precios = {2, 4, 8}
  PrecioReservado = 4
  Ninguno = Ninguno
  MaxIntentos = 2
  MaxCambios = 1
SPECIFICATION Spec
INVARIANTS
  TypeOK
  UnaFormaDePagar
  UnSoloCobroPorTramo
  LiberadoSoloSiPagado
PROPERTIES
  CobradoNoExcede
  SeLiberaConTodoPagado
CONSTRAINT PocosSobresaltos
CHECK_DEADLOCK FALSE
SYMMETRY Simetria
VIEW Vista
