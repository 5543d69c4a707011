SPECIFICATION Spec
\* Many parts end: a line is drawn once, a plot is destroyed.
CHECK_DEADLOCK FALSE
INVARIANTS  SelectionKnown SumsDrawn HooksAgree CurvesInside BarsShown AxesFit BoxesFit
PROPERTIES HighlightsFollow WindowKept OptionsHonoured
