SPECIFICATION Spec
CONSTANTS
    A = A
    B = B
    Slots = {A, B}
    PresetOrder <- TwoSlots
PROPERTY FirstBootDefaults
