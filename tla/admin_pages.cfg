SPECIFICATION PSpec
CONSTANTS
    None = None
    Bundled = {"light", "dark", "cupcake"}
    ThemeOrder <- Order
    ThemeVariables <- AllVariables
    Words <- AllWords
    HexDigits <- Hex
    AtRules <- AllAtRules
    Parts <- AllParts
    Base <- BaseNames
    Components <- ComponentNames
    Utilities <- UtilityNames
    Configs <- Several
    AppConfig <- App
    DarkTheme = "ledger"
    LightTheme = "ledger-light"
    Foreign = {"bogus"}
    Sizes = {10, 25}
    DefaultSize = 10
    Groups = {x, y}
    Complete = {x, y}
INVARIANTS CopyStatusAgrees SizeIsApplied
PROPERTIES ThemesFollowOptions PrefixReachesNames LayersKeepRules ChosenThemeIsShown ButtonsComeBack
CHECK_DEADLOCK FALSE
