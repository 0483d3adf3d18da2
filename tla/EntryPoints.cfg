SPECIFICATION EntrySpec
CONSTANTS
  Tabs = {1, 2}
  DialogTabs = {1}
  Contents <- MCContents
  Catalogue <- MCCatalogue
  Resolvable <- MCResolvable
  Typed <- MCTyped
  Queries <- MCQueries
  Starts <- MCStarts
  InWord <- MCInWord
  InName <- MCInName
  InFqn <- MCInFqn
  NameLength <- MCNameLength
  PackageOrder <- MCPackageOrder
  PickerLimit = 2
  MaxEdits = 3
  None = None
INVARIANTS PanelTellsTheTruth EnterTakesTheLitRow TabsAgree PickedNamesResolve
