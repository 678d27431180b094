\* Top-level code that declares a variable in a block.
SPECIFICATION Spec
CONSTANTS
    f = f
    g = g
    h = h
    Functions = {f}
    Script = Script
    Arity <- MCArity
    Plain = {a, b}
    Nil = Nil
    Junk = Junk
    Native = Native
    MainReturn = MainReturn
    StartScript = StartScript
    CFrame = 0
    CRegister = CRegister
    OpTable = OpTable
    MaxLocals = 1
    MaxTemps = 2
    MaxStack = 12
    ScriptLocals = TRUE
PROPERTIES
    ImplementsLox
