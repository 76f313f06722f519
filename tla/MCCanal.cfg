SPECIFICATION Spec
CONSTANTS
  BASURA = BASURA
  Largo <- LargoDeIds
  Conversaciones <- UnaDeCada
  Valores = {0, 6}
INVARIANTS
  PedidoIntacto RespuestaIntacta TamanioExacto OperacionEntera
   ProgramaDelArchivo
 
CHECK_DEADLOCK FALSE
