SPECIFICATION DesktopSpec
CONSTANTS
    None = None
    WIDTH = 2
    HEIGHT = 2
    Start <- MCStart
    Heads <- MCHeads
    Moves <- MCMoves
    MAX_WINDOWS = 3
    HEAP_AREAS = 7
    Chars = {"1", "a", "enter", "backspace"}
    MAX_TEXT = 2
    COLUMNS = 1
    FONT <- MCFont
    ButtonX = {1}
    ButtonY = {0}
INVARIANTS
    DesktopTypeOK
    MouseInStep
    
    ScreenIsCurrent
    OnlyBootPressOpens
