SPECIFICATION Spec
CONSTANTS
  bash = bash
  vim = vim
  sudo = sudo
  file = file
  tokenOption = tokenOption
  token = token
  home = home
  secret = secret
  letter = letter
  draft = draft
  gone = gone
  library = library
  private = private
  editor = editor
  office = office
  files = files
  terminal = terminal
  browser = browser
  inbox = inbox
  news = news
  secretly = secretly
  big = big
  mail = mail
  paper = paper
  bank = bank
  laptop = laptop
  beamer = beamer
  work = work
  lab = lab
  Server = 1
  Shell = {2, 5}
  JobControl = {2}
  MaxPid = 6
  Directory = {home, secret}
  NoDirectory = NoDirectory
  Blank = Blank
  Argument = {bash, vim, sudo, file, tokenOption, token, Blank}
  Withheld = Withheld
  LooksLike <- MCLooksLike
  CommandLine <- MCCommandLine
  Allowed = {vim, sudo}
  Denied = {sudo}
  PolicyMode = "whitelist"
  ExcludedPlace = {secret}
  HasTabs = TRUE
  MaxDepth = 3
  Title = {inbox, news, secretly}
  NoTitle = NoTitle
  Size = {big}
  NoSize = NoSize
  TabSet <- MCTabSet
  Likeness <- MCLikeness
  Agreement <- MCAgreement
  Document = {letter, draft, gone, library, private}
  Plumbing = {library}
  Missing = {gone}
  ExcludedDocument = {private}
  Adapted = {editor, office, files}
  Sources <- MCSources
  HasTitlePattern = {office}
  Connector = {laptop, beamer}
  NoConnector = NoConnector
  Layouts <- MCLayouts
  Connection = {work, lab}
  PollSteps = 1
  App = {editor, office, files, terminal, browser, private}
  NoApp = NoApp
  Synthetic = Synthetic
  Class = {editor, office, files, terminal, browser}
  NoClass = NoClass
  TerminalClass = {terminal}
  BrowserClass = {browser}
  ExcludedName = {private}
  PrivateTitle = {secretly}
  Url = {mail, paper, bank}
  ExcludedUrl = {bank}
  NoName = NoName
  BrowsersEnabled = TRUE
  Scenes <- OneTerminal
INVARIANTS EveryTabComesBack
CHECK_DEADLOCK FALSE
