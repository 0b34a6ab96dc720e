CONSTANTS
  P1 = P1
  P2 = P2
  Dispatcher = Dispatcher
  Main = Main
  NoThread = NoThread
  Proc <- TwoProcesses
SPECIFICATION Spec
SYMMETRY Symmetry
INVARIANT NoDataRace
