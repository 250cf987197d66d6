\* The music in full-screen style is enough: two tracks, no other view.
CONSTANTS
  Recipes = {}
  Panes = {1}
  Reports = {}
  PlaceCards = {}
  Cameras = {}
  Tracks = {"song", "next song"}
  Stations = {}
  MaxOpens = 0
  MaxEngineStarts = 0
SPECIFICATION ScreenSpec
INVARIANT DiagnosticsStayLocal
CHECK_DEADLOCK FALSE
