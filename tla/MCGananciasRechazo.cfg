SPECIFICATION Spec
CONSTANTS
  Obligaciones = {o1}
  Ajustes = {a1}
  Importe <- MCImporte
  Minimo = 2
  MaxSolicitudes = 2
  MaxVersion = 4
  MaxReenvios = 1
  Hilos = {h1, h2}
INVARIANTS LiberadoNoSalio
SYMMETRY Simetria
CHECK_DEADLOCK FALSE
