SPECIFICATION SpecViva
CONSTANTS
  Prestadores = {p1, p2}
  Pedidos = {h1, h2}
  Barridos = {b1}
  MaxReaperturas = 1
  Vigencia = 1
  MaxFallas = 1
INVARIANTS TypeOK FilasDeAcuerdo AvisoDeCierreVerdadero
PROPERTIES ImplementaAsignacion NoSeDeshaceUnNo NoQuedaEsperando
CHECK_DEADLOCK FALSE
