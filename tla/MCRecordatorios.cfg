SPECIFICATION Spec
CONSTANTS
  Inicios = {3, 4}
  Antes24 = 2
  Antes2 = 1
  Reclamo = 0
  Procesos = {p1, p2}
  MaxCambios = 2
  MaxFallas = 1
  Horizonte = 3
INVARIANTS TypeOK UnEnvioYAuditado
PROPERTY FechaViejaNuncaSeToma
SYMMETRY Simetria
