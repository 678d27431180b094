\* Functions of one and of two parameters, up to three of their calls in progress.
SPECIFICATION Spec
CONSTANTS
    f = f
    g = g
    h = h
    Functions = {f, g}
    Script = Script
    Arity <- MCArity
    Plain = {a}
    Nil = Nil
    Junk = Junk
    Native = Native
    MainReturn = MainReturn
    StartScript = StartScript
    CFrame = 0
    CRegister = CRegister
    OpTable = OpTable
    MaxLocals = 1
    MaxTemps = 3
    MaxStack = 12
    ScriptLocals = FALSE
INVARIANTS
    TypeOK
    StackDiscipline
    RegistersMatchCode
    TopInAcc
    WalkMarksExactlyTheValues
    RunningClosuresRooted
PROPERTIES
    ImplementsLox
