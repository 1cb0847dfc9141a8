SPECIFICATION PackageSpec
CONSTANTS
    Controls <- MCControls
    Testbeds <- MCTestbeds
    Options <- MCOptions
    Name <- MCName
    Slashed <- MCSlashed
    Sources <- MCSources
    Fields <- MCFields
    Pkgs <- MCPkgs
    Subjects <- MCSubjects
INVARIANTS AsDeclared RunsWhereItMay 
PROPERTIES NothingForced
