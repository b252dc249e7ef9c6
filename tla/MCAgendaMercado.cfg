CONSTANTS
  Turnos = {t1, t2}
  Clientes = {c1}
  Bloqueos = {b1}
  Inicios = {1, 2}
  Duracion = 1
  RangosManuales <- RangosManualesMC
  RangosBloqueo <- RangosBloqueoMC
  Descanso = 1
  VigenciaSolicitud = 1
  VigenciaPago = 1
  Ventana = 0
  MaxPendientes = 1
  Horizonte = 3
  MaxVersion = 1
  LargoDia = 2
SPECIFICATION SpecMercado
INVARIANTS
  SinSolapamiento
PROPERTIES
  LoFinalSoloLoPisaLaAgenda
  TrabajoCanceladoSueltaLaReserva
CHECK_DEADLOCK FALSE
SYMMETRY Simetria
VIEW Vista
