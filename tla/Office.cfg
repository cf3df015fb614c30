SPECIFICATION Spec
CONSTANTS
  Workers = {"w1", "w2"}
  Orders = {"o1"}
  Runs = {"r1", "r2"}
  Leads = {2}
  MaxTime = 2
  MaxEdits = 1
  Sockets = {"s1", "s2", "s3"}
  MaxConnects = 5
  Members = {"ana", "beto"}
  MaxMessages = 2
  MaxChanges = 1
  MaxChatRequests = 3
  Ids = {"c1", "c2"}
  QuoteBefore = {"lista", "info"}
  QuoteAfter = {"esperando_respuesta", "aceptada"}
  MaxQuoteRequests = 4
  Names = {"plotter", "horno"}
  MaxMachines = 2
  MaxRows = 2
  MaxAreaRequests = 3
  Users = {"ana"}
  Roles = {"sucursal", "recepcion"}
  Areas = {"taller"}
  MaxAccountRequests = 3
  Clients = {"ana", "beto"}
  MaxWrites = 2
  MaxSetbacks = 1
INVARIANTS
  TypeOK
  RemindedOnce
  RowsFollowAccess
  QuoteDated
  
  
  LiveViewsTold
CHECK_DEADLOCK FALSE
