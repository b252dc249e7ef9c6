SPECIFICATION SpecViva
CONSTANTS
  Avisos = {1, 2}
  Procesos = {p1, p2}
  Arriendo = 1
  MaxIntentos = 2
  MaxDemora = 1
  Limite = 2
  MaxFallas = 2
INVARIANTS TypeOK UnaEntregaSinFallas RegistroVerdadero ReintentosAcotados
PROPERTIES SoloSuDueno TodoSeResuelve
