CONSTANTS
  Turnos = {t1, t2}
  Clientes = {c1}
  Bloqueos = {b1}
  Inicios = {1, 2, 3}
  Duracion = 1
  RangosManuales <- RangosManualesMC
  RangosBloqueo <- RangosBloqueoMC
  Descanso = 1
  VigenciaSolicitud = 2
  VigenciaPago = 1
  Ventana = 1
  MaxPendientes = 1
  Horizonte = 2
  MaxVersion = 2
SPECIFICATION Spec
INVARIANTS
  TypeOK
  SinSolapamiento
  DescansoEntreTurnos
  AceptadoNoBloqueado
  NadieConfirmaGratis
  UnAvisoPorSuceso
PROPERTIES
  CambiosSegunContrato
CHECK_DEADLOCK FALSE
SYMMETRY Simetria
VIEW Vista
