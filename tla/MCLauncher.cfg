\* Both launchers, started with zero to two arguments after argv[0].
CONSTANTS
  Programs = {"run_js_test", "prefs"}
  MaxArgc = 3
  Codes = {0, 2}
SPECIFICATION Spec
INVARIANT ArgvWithinArgs
