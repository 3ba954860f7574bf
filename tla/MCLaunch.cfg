CONSTANTS
  B = 8
  Files <- MCFiles
  Menu <- MCMenu
  Plugins <- MCPlugins
  BUF_SIZE = 3
  CRT_DATA = 3
  TAPEBUFFER = 8
  STUB_LEN = 3
  Workspace <- MCWorkspace
  BASIC_PAGE = 2
  BASIC_LOW = 1
  SYS_TOKEN = 20
  HYBRID_END = 22
  CARTRIDGE_PAGE = 4
  ULTIMAX_PAGE = 7
  KOA_LOAD_ADDR = 24
  KOA_PAYLOAD_SIZE = 11
  KOA_PLUGIN_ADDR = 48
  KOA_PLUGIN_PAYLOAD_MAX = 5
  ROWS_AT = 3
  MaxFailures = 1
SPECIFICATION Spec
INVARIANTS TypeOK LoadedWhole NothingAfterStart PausesAtBlockEnds RowStarts
PROPERTY ProgramStarts
