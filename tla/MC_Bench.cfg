SPECIFICATION Spec
CONSTANTS
  Subjects = {"scpi", "doip", "hardware", "uds", "virtual", "modbus"}
  t1 = t1  t2 = t2  t3 = t3  w1 = w1  w2 = w2
  ka = ka  kb = kb  kc = kc  ra = ra  rb = rb  rc = rc
  d1 = d1  d2 = d2  d3 = d3  b1 = b1  b2 = b2  b3 = b3  p1 = p1  p2 = p2
  StepThreads <- StepThreadSet  WorkflowOf <- Workflow  NoOne = NoOne
  Configs <- NamedIds  MaxOpens = 2  MaxCalls = 1
  Nothing = Nothing  MaxFlight = 2  MaxRequests = 3  MaxDoipSteps = 2
  Directory <- DriverFiles  TypeOf <- DriverTypes  Replacing <- SocketCan
  BusType <- BusTypes  Accepts <- AcceptedTypes  None = None  MaxLoads = 2
  MaxUdsRequests = 3  MaxFrames = 3
  Receivers = {1, 2}  MaxSent = 3  MaxReplay = 2  MaxReceives = 4  MaxOpenings = 2
  network = network  serial = serial
  MbThreads <- ModbusThreadSet  MbWorkflowOf <- Workflow  MbTransport <- Transport
  Nobody = Nobody  MaxMbEntries = 2  MaxMbRequests = 2
INVARIANTS
  ConnectionsSound
  SessionsSound
  HardwareSound
  ClientSound
  VirtualSound
  ModbusSound
PROPERTIES
  StepsComeBack
CHECK_DEADLOCK FALSE
