CONSTANTS
    s1 = s1  s2 = s2  r1 = r1
    e1 = e1  e2 = e2  l1 = l1  l2 = l2  l3 = l3  tool = tool
    t1 = t1  t2 = t2
    q1 = q1  a1 = a1
    f1 = f1  f2 = f2  h1 = h1  h2 = h2
    k1 = k1  k2 = k2  k3 = k3
    p1 = p1  p2 = p2  p3 = p3
    none = none
    Sources <- TwoSources
    Requests <- OneRequest
    MaxVersion = 2
    Engines <- TwoEngines
    Loops <- ThreeLoops
    Tools <- OneTool
    Nobody <- none
    Tunnels <- TwoTunnels
    Aware <- OneTunnel
    MaxRequest = 2
    PollLimit = 1
    MaxCopies = 2
    QaTasks <- OneQaTask
    TesterTasks <- OneTesterTask
    Watched <- TwoFiles
    Handlers <- TwoHandlers
    MaxEdit = 1
    Writes <- ThreeWrites
    Creates <- TwoCreates
    Processes <- ThreeProcesses
    NoWrite <- none
SPECIFICATION Spec
CHECK_DEADLOCK FALSE
INVARIANTS
    TypeOK QuietRunIndexesRows WholeTreeAnswers NoLoopIsLost
    NothingForgotten TargetIsWhole
PROPERTIES
    SearchesEnd StoppedLoopsEnd BackgroundTasksEnd
    LastEditsAreTold ImplementsAtomicFile ImplementsTestRun ImplementsAtLeastOnce
